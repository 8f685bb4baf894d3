--------------------------- MODULE EnergyManager ---------------------------
(***************************************************************************)
(* The energy supervisor (os/src/energy_manager.rs).  evaluate() turns a   *)
(* sample into events and a policy in one step (&mut self);                *)
(* evaluate_and_publish() then publishes the events one by one and gives   *)
(* up at the first error, which on this bus means it was shut down.        *)
(* Percentages and temperatures are in tenths, as the code's f32 values    *)
(* are truncated to whole percents before they are classified.             *)
(*                                                                         *)
(* A definition with a suffix after `__` is an erroneous variant of the    *)
(* definition it precedes; no specification uses it.                       *)
(***************************************************************************)
EXTENDS Integers, Sequences, Authorities

CONSTANTS
    Cpu, Battery, Thermal,          \* values the observers may sample
    cpu_high_percent, battery_low_percent, battery_critical_percent,
    thermal_high_celsius, thermal_critical_celsius,
    thermal_recovery_cycles         \* u8

Samples == [cpu : Cpu, battery : Battery, thermal : Thermal, external : BOOLEAN]

ASSUME EnergyAssumption ==
    /\ Cpu \subseteq Int /\ Battery \subseteq Int /\ Thermal \subseteq Int
    /\ cpu_high_percent \in Int
    /\ battery_low_percent \in Int /\ battery_critical_percent \in Int
    /\ thermal_high_celsius \in Int /\ thermal_critical_celsius \in Int
    /\ thermal_high_celsius <= thermal_critical_celsius
    /\ thermal_recovery_cycles \in 0 .. 255

VARIABLES
    recovering,   \* thermal_recovery_active
    counter,      \* thermal_recovery_counter
    sleeping,     \* forced_sleep_active
    policy,       \* the latest EnergyPolicy
    pending,      \* events of the current call still to publish
    accepting,    \* the bus accepts events
    observed,     \* what subscribers last heard about sleep
    sampled,      \* history: evaluate was called
    sample,       \* history: the latest sample
    cool          \* history: samples since the last hot one, up to RecoveryLimit + 1

vars == <<recovering, counter, sleeping, policy, pending, accepting, observed, sampled, sample, cool>>

RecoveryLimit == IF thermal_recovery_cycles = 0 THEN 1 ELSE thermal_recovery_cycles

DefaultPolicy == [llm_enabled |-> TRUE, proactive_enabled |-> TRUE,
                  request_model_downgrade |-> FALSE, request_model_unload |-> FALSE,
                  force_sleep |-> FALSE]

NoSample == [cpu |-> 0, battery |-> 1000, thermal |-> 0, external |-> TRUE]

Init ==
    /\ recovering = FALSE
    /\ counter = 0
    /\ sleeping = FALSE
    /\ policy = DefaultPolicy
    /\ pending = <<>>
    /\ accepting = TRUE
    /\ observed = FALSE
    /\ sampled = FALSE
    /\ sample = NoSample
    /\ cool = RecoveryLimit + 1
-----------------------------------------------------------------------------
(* sample.battery_percent.clamp(0.0, 100.0) as u8                          *)
WholePercent(b) == (IF b < 0 THEN 0 ELSE IF b > 1000 THEN 1000 ELSE b) \div 10

battery_low(s) == s.battery <= battery_low_percent
battery_critical(s) == s.battery <= battery_critical_percent
thermal_high(s) == s.thermal >= thermal_high_celsius
thermal_critical(s) == s.thermal >= thermal_critical_celsius
cpu_high(s) == s.cpu >= cpu_high_percent

battery_mode(s) == determine_mode(WholePercent(s.battery))
cpu_mode(s) == IF cpu_high(s) THEN "REDUCED" ELSE "STRATEGIC"

(* evaluate_thermal_mode: what it returns ...                              *)
Hot(s) == thermal_critical(s) \/ thermal_high(s)

StillRecovering__oneMore(s) == recovering /\ counter <= RecoveryLimit

StillRecovering(s) == recovering /\ counter < RecoveryLimit

thermal_mode(s) ==
    IF thermal_critical(s) THEN "SILENT"
    ELSE IF thermal_high(s) \/ StillRecovering(s) THEN "REDUCED" ELSE "STRATEGIC"

(* ... and what it does to the recovery counter.                           *)
UpdateRecovery(s) ==
    /\ recovering' = (Hot(s) \/ StillRecovering(s))
    /\ counter' = IF ~Hot(s) /\ StillRecovering(s) THEN counter + 1 ELSE 0

max_mode(left, right) ==
    CASE "SILENT" \in {left, right} -> "SILENT"
      [] "SILENT" \notin {left, right} /\ "REDUCED" \in {left, right} -> "REDUCED"
      [] OTHER -> "STRATEGIC"

effective_mode(s) == max_mode(max_mode(battery_mode(s), thermal_mode(s)), cpu_mode(s))

force_sleep(s) ==
    /\ effective_mode(s) = "SILENT"
    /\ battery_critical(s) \/ thermal_critical(s)
    /\ ~s.external

PolicyFor(s) ==
    [llm_enabled |-> authorize_execution(effective_mode(s), "LLM"),
     proactive_enabled |-> authorize_execution(effective_mode(s), "PROACTIVE") /\ ~force_sleep(s),
     request_model_downgrade |-> effective_mode(s) \in {"REDUCED", "SILENT"},
     request_model_unload |-> effective_mode(s) = "SILENT",
     force_sleep |-> force_sleep(s)]

When(condition, event) == IF condition THEN <<event>> ELSE <<>>

EventsFor__noExit(s) ==
    When(battery_low(s), "BatteryLow")
      \o When(thermal_high(s), "ThermalHigh")
      \o When(force_sleep(s) /\ ~sleeping, "SleepEntered")
      \o When(effective_mode(s) \in {"REDUCED", "SILENT"}, "ModelDowngrade")
      \o When(effective_mode(s) = "SILENT", "ModelUnload")

EventsFor(s) ==
    When(battery_low(s), "BatteryLow")
      \o When(thermal_high(s), "ThermalHigh")
      \o When(force_sleep(s) /\ ~sleeping, "SleepEntered")
      \o When(~force_sleep(s) /\ sleeping, "SleepExited")
      \o When(effective_mode(s) \in {"REDUCED", "SILENT"}, "ModelDowngrade")
      \o When(effective_mode(s) = "SILENT", "ModelUnload")

Evaluate(s) ==
    /\ pending = <<>>
    /\ UpdateRecovery(s)
    /\ sleeping' = force_sleep(s)
    /\ policy' = PolicyFor(s)
    /\ pending' = EventsFor(s)
    /\ sampled' = TRUE
    /\ sample' = s
    /\ cool' = IF Hot(s) THEN 0 ELSE IF cool <= RecoveryLimit THEN cool + 1 ELSE cool
    /\ UNCHANGED <<accepting, observed>>

Publish ==
    /\ accepting
    /\ pending # <<>>
    /\ observed' = CASE Head(pending) = "SleepEntered" -> TRUE
                     [] Head(pending) = "SleepExited" -> FALSE
                     [] OTHER -> observed
    /\ pending' = Tail(pending)
    /\ UNCHANGED <<recovering, counter, sleeping, policy, accepting, sampled, sample, cool>>

(* `?` on the publish: the events left are dropped.                        *)
PublishFails ==
    /\ ~accepting
    /\ pending # <<>>
    /\ pending' = <<>>
    /\ UNCHANGED <<recovering, counter, sleeping, policy, accepting, observed, sampled, sample, cool>>

BusShutdown ==
    /\ accepting
    /\ accepting' = FALSE
    /\ UNCHANGED <<recovering, counter, sleeping, policy, pending, observed, sampled, sample, cool>>

Next ==
    \/ \E s \in Samples : Evaluate(s)
    \/ Publish
    \/ PublishFails
    \/ BusShutdown

Spec == Init /\ [][Next]_vars
-----------------------------------------------------------------------------
EventNames == {"BatteryLow", "ThermalHigh", "SleepEntered", "SleepExited",
               "ModelDowngrade", "ModelUnload"}

(* Thermal hysteresis: a hot sample keeps the models downgraded for        *)
(* exactly thermal_recovery_cycles further cool samples; after them only   *)
(* the latest sample's own battery or CPU pressure does.                   *)
DowngradeIsHeld ==
    sampled =>
      (policy.request_model_downgrade
         <=> \/ cool <= RecoveryLimit
             \/ battery_mode(sample) # "STRATEGIC"
             \/ cpu_high(sample))

(* While the bus is up, subscribers that have seen everything published    *)
(* know whether the system is in forced sleep: SleepEntered and            *)
(* SleepExited are neither missed nor repeated over any run of samples.    *)
SubscribersKnowSleep == accepting /\ pending = <<>> => observed = policy.force_sleep

(* Forced sleep leaves nothing running: no LLM, no proactivity, and the    *)
(* model is asked to unload; it never happens on external power.           *)
SleepIsQuiet ==
    policy.force_sleep =>
      /\ ~policy.llm_enabled
      /\ ~policy.proactive_enabled
      /\ policy.request_model_unload
      /\ ~sample.external
=============================================================================
