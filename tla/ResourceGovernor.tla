-------------------------- MODULE ResourceGovernor --------------------------
(***************************************************************************)
(* The runtime protection of the voice pipeline: ResourceGovernor with its *)
(* CPU and memory monitors and power state, DeviceStateManager, which      *)
(* relays battery, heat, sleep and microphone to it, and the recogniser    *)
(* they act on (ASREngine's time limit, ModelManager's model).             *)
(*                                                                         *)
(* The governor's own loop threads and the main thread, after a device     *)
(* check inside run_once, evaluate side by side; transcriptions load and   *)
(* use the model meanwhile.  Time limits are in hundredths of a second.    *)
(* What run_once does between the device check and the evaluation is in    *)
(* VoicePipeline.  The usage figures reported in the event are left out.   *)
(*                                                                         *)
(* A definition with a suffix after `__` is an erroneous variant of the    *)
(* definition it precedes; no specification uses it.                       *)
(***************************************************************************)
EXTENDS Integers, FiniteSets

CONSTANTS
    Loops,          \* identities of the governor's loop threads
    Jobs,           \* transcriptions in progress at the same time
    Setups          \* runtime.model_downgrade_enabled, with the bounds of a
                    \* behaviour: loops and transcriptions that take part,
                    \* readings of the sensors at first and later, how often
                    \* they change, calls of session.stop

Env == [cpu : BOOLEAN, mem : BOOLEAN, battery : {"ok", "low", "critical"},
        hot : BOOLEAN, asleep : BOOLEAN, mic : BOOLEAN]

Setup == [downgrade : BOOLEAN, loops : SUBSET Loops, jobs : SUBSET Jobs, first : SUBSET Env,
          envs : SUBSET Env, changes : Nat, stops : Nat]

\* Every start() makes a thread of its own: there is a loop for each.
ASSUME GovernorAssumption ==
    /\ Setups \subseteq Setup
    /\ "main" \notin Loops /\ IsFiniteSet(Loops) /\ IsFiniteSet(Jobs)
    /\ \A s \in Setups : s.stops < Cardinality(s.loops)

Evaluators == {"main"} \cup Loops

DefaultTimeout == 200   \* ASREngine's timeout_seconds, 2.0
ReducedTimeout == 50    \* evaluate(): 0.5
ThermalTimeout == 35    \* reduce_cpu_budget(): 0.35

Least(a, b) == IF a < b THEN a ELSE b

VARIABLES
    setup,          \* the setup of this behaviour
    env,            \* what the sensors and the sleep manager report
    changes, stops, \* changes of env and stops so far
    started,        \* the session (and with it the governor) is started
    pc,             \* where each evaluator is
    seen,           \* each evaluator's cpu_over and memory_high
    mode,           \* PowerStateManager._mode
    myMode,         \* the mode update_mode returned to each evaluator
    fresh,          \* the time limit each evaluator is about to set
    own,            \* history: the pressures that were off at some time from
                    \* an evaluator's first reading to its action
    near,           \* history: the same, from the first reading of any
                    \* evaluator that had not stored its mode by then
    torn,           \* evaluators whose iteration over the CPU window was cut
    dev,            \* evaluate_state's readings
    paused,         \* ResourceGovernor._evaluation_paused
    budget,         \* ResourceGovernor._cpu_budget_scale, in percent
    thread,         \* ResourceGovernor._thread
    stopEvent,      \* ResourceGovernor._stop_event
    size, model,    \* ModelManager: the target size, and the model loaded
    active,         \* ModelManager._active_transcriptions
    job,            \* state of each transcription
    timeout         \* ASREngine._timeout_seconds

governor == <<mode, paused, budget, thread, stopEvent>>
history  == <<own, near>>
local    == <<seen, myMode, history, fresh, torn, dev>>
asr      == <<size, model, active, timeout>>
bounds   == <<setup, env, changes, stops>>
gvars    == <<bounds, started, pc, local, governor, asr, job>>

None  == "none"
Calm  == [cpu |-> FALSE, mem |-> FALSE]
Awake == [low |-> FALSE, critical |-> FALSE, hot |-> FALSE, asleep |-> FALSE, mic |-> TRUE]

GovernorInit ==
    /\ setup \in Setups
    /\ env \in setup.first /\ changes = 0 /\ stops = 0
    /\ started = FALSE
    /\ pc = [e \in Evaluators |-> IF e = "main" THEN "idle" ELSE None]
    /\ seen = [e \in Evaluators |-> Calm]
    /\ mode = "NORMAL"
    /\ myMode = [e \in Evaluators |-> "NORMAL"]
    /\ own = [e \in Evaluators |-> {}] /\ near = own
    /\ fresh = [e \in Evaluators |-> 0]
    /\ torn = {} /\ dev = Awake
    /\ paused = FALSE /\ budget = 100
    /\ thread = None /\ stopEvent = FALSE
    /\ size = "SMALL" /\ model = None /\ active = 0
    /\ job = [j \in Jobs |-> None]
    /\ timeout = DefaultTimeout

Move(e, l) == pc' = [pc EXCEPT ![e] = l]

-----------------------------------------------------------------------------
(* ModelManager.  Each operation runs under the model lock.                *)

\* unload_if_idle(force=True): not while a transcription is marked.
ForceUnload__unprotected == None
ForceUnload == IF active > 0 THEN model ELSE None

\* unload_if_idle(seconds): the model may or may not have been idle so long.
IdleUnload == {model, ForceUnload}

\* downgrade_model and upgrade_model drop the model of the other size.

Resize(s) ==
    /\ size' = s
    /\ model' = IF size = s THEN model ELSE None

\* transcribe: get_model loads a model of the target size; the thread that
\* transcribes marks its start, and marks its end, which may be long after
\* the recogniser's time limit let the worker go on to the next utterance.
GetModel(j) ==
    /\ j \in setup.jobs /\ job[j] = None
    /\ job' = [job EXCEPT ![j] = "got"]
    /\ model' = IF model = None THEN size ELSE model
    /\ UNCHANGED <<bounds, started, pc, local, governor, size, active, timeout>>

MarkStart(j) ==
    /\ job[j] = "got"
    /\ job' = [job EXCEPT ![j] = "running"]
    /\ active' = active + 1
    /\ UNCHANGED <<bounds, started, pc, local, governor, size, model, timeout>>

MarkEnd(j) ==
    /\ job[j] = "running"
    /\ job' = [job EXCEPT ![j] = None]
    /\ active' = IF active > 0 THEN active - 1 ELSE active
    /\ UNCHANGED <<bounds, started, pc, local, governor, size, model, timeout>>

-----------------------------------------------------------------------------
(* ResourceGovernor.evaluate by evaluator e.                               *)

\* cpu_monitor.current_usage appends to the rolling window; an evaluator
\* that is iterating over it gets an exception.
Usage(e) ==
    /\ pc[e] = "usage"
    /\ Move(e, "mean")
    /\ torn' = torn \cup {d \in Evaluators \ {e} : pc[d] = "mean"}
    /\ UNCHANGED <<bounds, started, seen, myMode, history, fresh, dev, governor, asr, job>>

\* An evaluator goes on, or its evaluate() returns or raises: run_once
\* returns, or the loop sleeps before its next turn, and the locals are gone.
Stay(e, l) == Move(e, l) /\ UNCHANGED <<seen, myMode, history>>

EvaluateReturns(e) ==
    /\ Move(e, IF e = "main" THEN "idle" ELSE "turn")
    /\ seen' = [seen EXCEPT ![e] = Calm]
    /\ myMode' = [myMode EXCEPT ![e] = "NORMAL"]
    /\ own' = [own EXCEPT ![e] = {}]
    /\ near' = [near EXCEPT ![e] = {}]

\* The exception ends this evaluation: the loop logs it, run_once raises it.
EvaluateRaises(e) ==
    /\ pc[e] = "mean" /\ e \in torn
    /\ torn' = torn \ {e}
    /\ EvaluateReturns(e)
    /\ UNCHANGED <<bounds, started, fresh, dev, governor, asr, job>>

PowerMode(s) == IF s.cpu /\ s.mem THEN "CRITICAL"
                ELSE IF s.cpu \/ s.mem THEN "LOW_POWER" ELSE "NORMAL"

\* The pressures a reading of the sensors does not report; the evaluators
\* from their first reading to their action, and up to storing the mode.
Kinds         == {"cpu", "mem"}
Low(r)        == {k \in Kinds : ~r[k]}
Unstored(e)   == pc[e] \in {"memory", "store"}
InProgress(e) == Unstored(e) \/ pc[e] \in {"mode", "gate", "act"}

\* is_over_threshold, unless the iteration over the window was cut.
SampleCpu(e) ==
    /\ pc[e] = "mean" /\ e \notin torn
    /\ seen' = [seen EXCEPT ![e] = [cpu |-> env.cpu, mem |-> FALSE]]
    /\ own' = [own EXCEPT ![e] = Low(env)]
    /\ near' = [near EXCEPT ![e] =
                   Low(env) \cup UNION {own[d] : d \in {c \in Evaluators : Unstored(c)}}]
    /\ Move(e, "memory")
    /\ UNCHANGED <<bounds, started, myMode, fresh, torn, dev, governor, asr, job>>

\* is_pressure_high.
SampleMemory(e) ==
    /\ pc[e] = "memory"
    /\ seen' = [seen EXCEPT ![e] = [cpu |-> seen[e].cpu, mem |-> env.mem]]
    /\ Move(e, "store")
    /\ UNCHANGED <<bounds, started, myMode, history, fresh, torn, dev, governor, asr, job>>

\* update_mode stores the mode.
StoreMode(e) ==
    /\ pc[e] = "store"
    /\ mode' = PowerMode(seen[e])
    /\ Move(e, "mode")
    /\ UNCHANGED <<bounds, started, local, paused, budget, thread, stopEvent, asr, job>>

\* It returns the mode it then finds stored, another evaluator's perhaps.
ReadMode(e) ==
    /\ pc[e] = "mode"
    /\ myMode' = [myMode EXCEPT ![e] = mode]
    /\ Move(e, "gate")
    /\ UNCHANGED <<bounds, started, seen, history, fresh, torn, dev, governor, asr, job>>

Gate(e) ==
    /\ pc[e] = "gate"
    /\ IF paused THEN EvaluateReturns(e) ELSE Stay(e, "act")
    /\ UNCHANGED <<bounds, started, fresh, torn, dev, governor, asr, job>>

Pressure(s) == s.cpu \/ s.mem

\* The pressure action: unload when both are high, downgrade when one is
\* and downgrading is enabled, otherwise upgrade in the normal mode.
Decision__mode(s, m) ==
    CASE m = "CRITICAL"                      -> "unload"
      [] m = "LOW_POWER" /\ setup.downgrade -> "downgrade"
      [] m = "NORMAL"                        -> "upgrade"
      [] OTHER                               -> "nothing"

Decision__unload_on_either(s, m) ==
    CASE Pressure(s)                   -> "unload"
      [] ~Pressure(s) /\ m = "NORMAL" -> "upgrade"
      [] OTHER                         -> "nothing"

Decision(s, m) ==
    IF s.cpu /\ s.mem THEN "unload"
    ELSE IF setup.downgrade /\ Pressure(s) THEN "downgrade"
    ELSE IF m = "NORMAL" THEN "upgrade" ELSE "nothing"

Act(e) ==
    /\ pc[e] = "act"
    /\ Move(e, "unload_idle")
    /\ CASE Decision(seen[e], myMode[e]) = "unload"    -> model' = ForceUnload /\ UNCHANGED size
         [] Decision(seen[e], myMode[e]) = "downgrade" -> Resize("TINY")
         [] Decision(seen[e], myMode[e]) = "upgrade"   -> Resize("SMALL")
         [] Decision(seen[e], myMode[e]) = "nothing"   -> UNCHANGED <<size, model>>
    /\ own' = [own EXCEPT ![e] = {}]
    /\ near' = [near EXCEPT ![e] = {}]
    /\ UNCHANGED <<bounds, started, seen, myMode, fresh, torn, dev, governor, active,
                   timeout, job>>

UnloadIdle(e) ==
    /\ pc[e] = "unload_idle"
    /\ model' \in IdleUnload
    /\ Move(e, "limit")
    /\ UNCHANGED <<bounds, started, local, governor, size, active, timeout, job>>

\* The time limit follows: reduced for a TINY model under pressure, restored
\* in the normal mode; size and limit are read here and the limit is set in
\* the next step.
Limit__unrestored(e) ==
    /\ pc[e] = "limit"
    /\ IF Pressure(seen[e]) /\ size = "TINY"
       THEN fresh' = [fresh EXCEPT ![e] = Least(timeout, ReducedTimeout)] /\ Stay(e, "set")
       ELSE UNCHANGED fresh /\ EvaluateReturns(e)
    /\ UNCHANGED <<bounds, started, torn, dev, governor, asr, job>>

Limit(e) ==
    /\ pc[e] = "limit"
    /\ \/ /\ Pressure(seen[e]) /\ size = "TINY"
          /\ fresh' = [fresh EXCEPT ![e] = Least(timeout, ReducedTimeout)]
          /\ Stay(e, "set")
       \/ /\ ~(Pressure(seen[e]) /\ size = "TINY") /\ myMode[e] = "NORMAL"
          /\ fresh' = [fresh EXCEPT ![e] = DefaultTimeout]
          /\ Stay(e, "set")
       \/ /\ ~(Pressure(seen[e]) /\ size = "TINY") /\ myMode[e] # "NORMAL"
          /\ UNCHANGED fresh
          /\ EvaluateReturns(e)
    /\ UNCHANGED <<bounds, started, torn, dev, governor, asr, job>>

SetTimeout(e) ==
    /\ pc[e] = "set"
    /\ timeout' = fresh[e]
    /\ fresh' = [fresh EXCEPT ![e] = 0]
    /\ EvaluateReturns(e)
    /\ UNCHANGED <<bounds, started, torn, dev, governor, size, model, active, job>>

-----------------------------------------------------------------------------
(* The governor's loop threads.                                            *)

\* while not self._stop_event.is_set(): the next evaluation, or the end.
LoopTurn(g) ==
    /\ g \in Loops /\ pc[g] = "turn"
    /\ Move(g, IF stopEvent THEN "done" ELSE "usage")
    /\ UNCHANGED <<bounds, started, local, governor, asr, job>>

\* start(), called by session.start: one registered live thread is enough.
\* A thread that stop() did not wait out is no longer registered: it gets a
\* second one beside it, and goes on itself if it has not seen the event.
StartGovernor ==
    /\ pc["main"] = "start"
    /\ IF thread # None /\ pc[thread] # "done"
       THEN Move("main", "device") /\ UNCHANGED <<thread, stopEvent>>
       ELSE \E g \in setup.loops :
            /\ pc[g] \in {None, "done"}
            /\ pc' = [pc EXCEPT !["main"] = "device", ![g] = "turn"]
            /\ thread' = g
            /\ stopEvent' = FALSE
    /\ started' = TRUE
    /\ UNCHANGED <<bounds, local, mode, paused, budget, asr, job>>

\* stop(), called by session.stop: the loop is told to end and waited for
\* at most one second, which is how long it may be asleep.
StopGovernor ==
    /\ pc["main"] = "idle" /\ started /\ stops < setup.stops
    /\ stops' = stops + 1
    /\ stopEvent' = TRUE
    /\ thread' = None
    /\ Move("main", "stopping")
    /\ UNCHANGED <<setup, env, changes, started, local, mode, paused, budget, asr, job>>

\* After the join, with or without its thread: session.stop unloads the
\* model, in use or not.
SessionStopped ==
    /\ pc["main"] = "stopping"
    /\ model' = None
    /\ started' = FALSE
    /\ Move("main", "idle")
    /\ UNCHANGED <<bounds, local, governor, size, active, timeout, job>>

-----------------------------------------------------------------------------
(* DeviceStateManager.evaluate_state on the main thread, inside run_once.  *)

RunOnce ==
    /\ pc["main"] = "idle"
    /\ Move("main", IF started THEN "device" ELSE "start")
    /\ UNCHANGED <<bounds, started, local, governor, asr, job>>

\* is_low takes a reading of its own.
SampleLow ==
    /\ pc["main"] = "device"
    /\ dev' = [dev EXCEPT !.low = env.battery # "ok"]
    /\ Move("main", "sample")
    /\ UNCHANGED <<bounds, started, seen, myMode, history, fresh, torn, governor, asr, job>>

SampleDevice ==
    /\ pc["main"] = "sample"
    /\ dev' = [dev EXCEPT !.critical = env.battery = "critical", !.hot = env.hot,
                          !.asleep = env.asleep, !.mic = env.mic]
    /\ Move("main", "signal")
    /\ UNCHANGED <<bounds, started, seen, myMode, history, fresh, torn, governor, asr, job>>

\* pause_evaluation on a sleeping device, resume_evaluation on an awake one.
SignalSleep__no_resume ==
    /\ pc["main"] = "signal"
    /\ paused' = (paused \/ dev.asleep)
    /\ Move("main", "heat")
    /\ UNCHANGED <<bounds, started, local, mode, budget, thread, stopEvent, asr, job>>

SignalSleep ==
    /\ pc["main"] = "signal"
    /\ paused' = dev.asleep
    /\ Move("main", "heat")
    /\ UNCHANGED <<bounds, started, local, mode, budget, thread, stopEvent, asr, job>>

\* reduce_cpu_budget at the thermal limit: only a budget that goes down
\* touches the recogniser's limit.
SignalHeat ==
    /\ pc["main"] = "heat"
    /\ budget' = IF dev.hot THEN 50 ELSE budget
    /\ IF dev.hot /\ budget > 50
       THEN fresh' = [fresh EXCEPT !["main"] = Least(timeout, ThermalTimeout)]
            /\ Move("main", "cool")
       ELSE UNCHANGED fresh /\ Move("main", "power")
    /\ UNCHANGED <<bounds, started, seen, myMode, history, torn, dev, mode, paused, thread,
                   stopEvent, asr, job>>

SetThermalTimeout ==
    /\ pc["main"] = "cool"
    /\ timeout' = fresh["main"]
    /\ fresh' = [fresh EXCEPT !["main"] = 0]
    /\ Move("main", "power")
    /\ UNCHANGED <<bounds, started, seen, myMode, history, torn, dev, governor, size, model,
                   active, job>>

\* force_model_downgrade on a low battery.
SignalDowngrade ==
    /\ pc["main"] = "power"
    /\ IF dev.low \/ dev.critical THEN Resize("TINY") ELSE UNCHANGED <<size, model>>
    /\ Move("main", "unload")
    /\ UNCHANGED <<bounds, started, local, governor, active, timeout, job>>

\* force_model_unload on a critical one.
SignalUnload ==
    /\ pc["main"] = "unload"
    /\ model' = IF dev.critical THEN ForceUnload ELSE model
    /\ Move("main", "microphone")
    /\ UNCHANGED <<bounds, started, local, governor, size, active, timeout, job>>

\* A failed microphone pauses what resume_evaluation has just resumed.  A
\* sleeping device ends run_once; so does a cycle without speech.  Otherwise
\* an idle model may be unloaded and the governor is asked to evaluate.
SignalMicrophone ==
    /\ pc["main"] = "microphone"
    /\ paused' = (paused \/ ~dev.mic)
    /\ dev' = Awake
    /\ \/ Move("main", "idle") /\ UNCHANGED model
       \/ ~dev.asleep /\ Move("main", "usage") /\ model' \in IdleUnload
    /\ UNCHANGED <<bounds, started, seen, myMode, history, fresh, torn, mode, budget, thread,
                   stopEvent, size, active, timeout, job>>

-----------------------------------------------------------------------------
\* The world changes.  A device that goes to sleep unloads an idle model on
\* the way (SleepManager.enter_sleep).
EnvChanges ==
    /\ changes < setup.changes
    /\ changes' = changes + 1
    /\ env' \in setup.envs \ {env}
    /\ own' = [e \in Evaluators |-> own[e] \cup IF InProgress(e) THEN Low(env') ELSE {}]
    /\ near' = [e \in Evaluators |-> near[e] \cup IF InProgress(e) THEN Low(env') ELSE {}]
    /\ model' = IF env'.asleep /\ ~env.asleep THEN ForceUnload ELSE model
    /\ UNCHANGED <<setup, stops, started, pc, seen, myMode, fresh, torn, dev, governor, size,
                   active, timeout, job>>

EvaluateStep(e) ==
    \/ Usage(e) \/ EvaluateRaises(e) \/ SampleCpu(e) \/ SampleMemory(e) \/ StoreMode(e)
    \/ ReadMode(e) \/ Gate(e) \/ Act(e) \/ UnloadIdle(e) \/ Limit(e) \/ SetTimeout(e)

MainStep ==
    \/ RunOnce \/ StartGovernor \/ SessionStopped \/ SampleLow \/ SampleDevice
    \/ SignalSleep \/ SignalHeat \/ SetThermalTimeout \/ SignalDowngrade
    \/ SignalUnload \/ SignalMicrophone \/ EvaluateStep("main")

GovernorStep(g) == LoopTurn(g) \/ EvaluateStep(g)

GovernorNext ==
    \/ MainStep \/ StopGovernor \/ EnvChanges
    \/ \E g \in Loops : GovernorStep(g)
    \/ \E j \in Jobs : GetModel(j) \/ MarkStart(j) \/ MarkEnd(j)

GovernorSpec == GovernorInit /\ [][GovernorNext]_gvars

\* The main loop and the governor's loops keep turning, and a transcription
\* that has begun ends.  A loop evaluates once a second over a window of five
\* figures: it is not interrupted in the middle of it every single time.
GovernorFairSpec ==
    /\ GovernorSpec
    /\ WF_gvars(MainStep)
    /\ \A g \in Loops : WF_gvars(GovernorStep(g)) /\ SF_gvars(SampleCpu(g))
    /\ \A j \in Jobs : WF_gvars(MarkStart(j) \/ MarkEnd(j))

-----------------------------------------------------------------------------
(* Properties.                                                             *)

\* "force=True ignores idle timeout but still respects active transcription
\* protection" (model_manager.py:118): a model is never dropped under a
\* marked transcription, unless its size changes or the session is stopped.
UnloadRespectsActive ==
    [][(active > 0 /\ model # None /\ model' = None)
          => size' # size \/ pc["main"] = "stopping"]_gvars

\* The model only grows back where each pressure was off for a moment while
\* the evaluation that grows it was under way.  With model_downgrade_enabled
\* off the governor acts on the stored mode alone, which another thread may
\* have stored from older readings: then each was off at some time since the
\* readings of an evaluation that was storing its mode meanwhile.
NoUpgradeUnderPressure ==
    [][(size = "TINY" /\ size' = "SMALL")
          => \E e \in Evaluators :
                /\ pc[e] = "act" /\ pc'[e] # "act"
                /\ Kinds \subseteq IF setup.downgrade THEN own[e] ELSE near[e]]_gvars

OnePressure == env.cpu # env.mem
NoPressure  == ~env.cpu /\ ~env.mem

\* With model_downgrade_enabled, the default: under CPU or memory pressure
\* that lasts, the recogniser settles on the small model and a limit of at
\* most half a second, whatever stale evaluations were under way when it
\* began.  In either case: under both pressures a loaded model that no
\* transcription uses does not stay.
PressureSheds ==
    /\ <>[](setup.downgrade /\ OnePressure /\ ~paused)
          => <>[](size = "TINY" /\ timeout <= ReducedTimeout)
    /\ <>[](env.cpu /\ env.mem /\ ~paused) => []<>(model = None \/ active > 0)

\* Without pressure, and on a good battery, the full model and the default
\* limit come back for good.  The thermal limit does not prevent it: the
\* reduction it asks for lasts until the next evaluation.
CalmRestores ==
    <>[](NoPressure /\ env.battery = "ok" /\ ~paused)
        => <>[](size = "SMALL" /\ timeout = DefaultTimeout)

\* The governor ends up paused on a device that stays asleep, evaluating on
\* one that stays awake with a working microphone, and is paused again and
\* again while the microphone fails.
DeviceSignalsArrive ==
    /\ <>[](env.asleep) => <>[]paused
    /\ <>[](~env.asleep /\ env.mic) => <>[]~paused
    /\ <>[](~env.mic) => []<>paused
=============================================================================
