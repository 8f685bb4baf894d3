--------------------------- MODULE VoicePipeline ---------------------------
(***************************************************************************)
(* The real voice runtime: one main thread that calls                      *)
(* RealVoiceSession.run_once (and stop), one power thread that calls       *)
(* SleepManager.enter_sleep and wake, the wake-word threads, the           *)
(* transcription workers, the audio buffer between the microphone and      *)
(* their readers, the two closable queues of the worker and the thread     *)
(* limiter.                                                                *)
(*                                                                         *)
(* An utterance is a number, in the order the microphone delivers them;    *)
(* its transcript is the same number.  What the recogniser and the model   *)
(* do inside a transcription is in ResourceGovernor, with the governor     *)
(* that session.start and stop switch on and off and the model they and    *)
(* enter_sleep unload; here a transcription gives a text, nothing (silence *)
(* or the recogniser's own time limit), or an exception that ends the      *)
(* worker.  The stream is built without a `source` callback, as the        *)
(* container builds it.                                                    *)
(*                                                                         *)
(* A definition with a suffix after `__` is an erroneous variant of the    *)
(* definition it precedes; no specification uses it.                       *)
(***************************************************************************)
EXTENDS Integers, Sequences, FiniteSets

CONSTANTS
    MaxThreads,     \* slots of the thread limiter
    QueueSize,      \* capacity of the audio queue and of the text queue
    BufferChunks,   \* capacity of the stream's buffer
    Workers,        \* bound: identities of transcription workers
    Listeners,      \* bound: identities of wake-word threads
    Loads           \* bounds a behaviour may have: the utterances delivered and
                    \* the calls of session.stop and enter_sleep together

ASSUME VoiceAssumption ==
    /\ MaxThreads \in Nat \ {0}
    /\ QueueSize \in Nat \ {0}
    /\ BufferChunks \in Nat \ {0}
    /\ Loads \subseteq [chunks : Nat, stops : Nat]
    /\ Workers \subseteq Nat \ {0} /\ Listeners \subseteq Nat \ {0}

None == 0           \* no thread, no utterance, no text

VARIABLES
    pc,             \* where the main thread and the power thread are
    started,        \* session._started
    sleeping,       \* SleepManager._sleeping
    streaming,      \* AudioStream._running
    buffer,         \* AudioStream._buffer
    heard,          \* utterances delivered so far
    listener,       \* state of each wake-word thread
    listenThread,   \* WakeWordEngine._thread
    listenStop,     \* WakeWordEngine._stop_event
    wakeEvent,      \* WakeWordEngine._wake_event
    worker,         \* state of each transcription worker, and what it holds
    workThread,     \* TranscriptionWorker._thread
    workStop,       \* TranscriptionWorker._stop_event
    audioQ, textQ,  \* the two ThreadSafeQueues
    slotAcquired,   \* TranscriptionWorker._slot_acquired
    inUse,          \* ThreadLimiter._in_use
    joining,        \* the thread a stop() of each caller waits for
    audio, text,    \* run_once's locals
    left,           \* what is left of this behaviour's load
    submitted,      \* history: utterances put on the audio queue, in order
    handled,        \* history: what was passed to handle_input, in order
    timeouts,       \* history: waits for a transcript that timed out
    leaked,         \* history: slots of dead workers forgotten by a start
    clean           \* history: no join timed out, no two start/stop overlapped

session == <<started, audio, text>>
stream  == <<streaming, buffer, heard>>
wake    == <<listener, listenThread, listenStop, wakeEvent>>
work    == <<worker, workThread, workStop, slotAcquired, inUse, leaked>>
queues  == <<audioQ, textQ>>
history == <<submitted, handled, timeouts>>
vars    == <<pc, sleeping, session, stream, wake, work, queues, joining,
             left, history, clean>>

Callers == {"main", "power"}

StartLabels == {"start", "startWorker", "startWake"}
StopLabels  == {"stopWake", "joinWake", "clearWake", "stopWorker",
                "joinWorker", "releaseSlot", "clearSlot", "stopped"}

\* The caller p moves to label l.  Two callers inside start or stop at the
\* same time are remembered, and so is a join that gave up (ok = FALSE).
Goto(p, l, ok) ==
    /\ pc' = [pc EXCEPT ![p] = l]
    /\ clean' = /\ clean /\ ok
                /\ ~ /\ l \in StartLabels \cup StopLabels
                     /\ \E q \in Callers \ {p} : pc[q] \in StartLabels \cup StopLabels

Live(t) == t.at \notin {"none", "done"}

Idle == [at |-> "none", holds |-> None]

VoiceInit ==
    /\ pc = [p \in Callers |-> "idle"]
    /\ started = FALSE /\ sleeping = FALSE
    /\ streaming = FALSE /\ buffer = <<>> /\ heard = 0
    /\ listener = [k \in Listeners |-> Idle] /\ listenThread = None
    /\ listenStop = FALSE /\ wakeEvent = FALSE
    /\ worker = [w \in Workers |-> Idle] /\ workThread = None
    /\ workStop = FALSE /\ slotAcquired = FALSE /\ inUse = 0
    /\ audioQ = [items |-> <<>>, closed |-> FALSE]
    /\ textQ = [items |-> <<>>, closed |-> FALSE]
    /\ joining = [p \in Callers |-> None]
    /\ audio = None /\ text = None /\ left \in Loads
    /\ submitted = <<>> /\ handled = <<>> /\ timeouts = 0 /\ leaked = 0 /\ clean = TRUE

-----------------------------------------------------------------------------
(* The audio stream.                                                       *)

\* push_chunk: the microphone delivers an utterance.  A stopped stream
\* ignores it; a full buffer drops its oldest chunk.
PushChunk ==
    /\ left.chunks > 0
    /\ left' = [left EXCEPT !.chunks = @ - 1]
    /\ heard' = heard + 1
    /\ buffer' = IF ~streaming THEN buffer
                 ELSE (IF Len(buffer) = BufferChunks THEN Tail(buffer) ELSE buffer)
                      \o <<heard + 1>>
    /\ UNCHANGED <<pc, sleeping, session, streaming, wake, work, queues, joining,
                   history, clean>>

\* read_chunk: the oldest chunk, or nothing from a stopped or empty stream.
ReadChunk == IF streaming /\ buffer # <<>> THEN Head(buffer) ELSE None
AfterRead == IF streaming /\ buffer # <<>> THEN Tail(buffer) ELSE buffer

-----------------------------------------------------------------------------
(* The wake-word engine.                                                   *)

\* One turn of a wake-word thread: leave when told to, do nothing while a
\* wake is pending, otherwise consume a chunk.  Whether the trigger phrase
\* is in it is not known to the model.
ListenerTurn(k) ==
    /\ listener[k].at = "top"
    /\ \/ /\ listenStop
          /\ listener' = [listener EXCEPT ![k].at = "done"]
          /\ UNCHANGED buffer
       \/ /\ ~listenStop /\ ~wakeEvent /\ ReadChunk # None
          /\ buffer' = AfterRead
          /\ \E hit \in {"hit", "top"} : listener' = [listener EXCEPT ![k].at = hit]
    /\ UNCHANGED <<pc, sleeping, session, streaming, heard, listenThread, listenStop,
                   wakeEvent, work, queues, joining, left, history, clean>>

\* The trigger was heard: signal the session.
ListenerSignals(k) ==
    /\ listener[k].at = "hit"
    /\ wakeEvent' = TRUE
    /\ listener' = [listener EXCEPT ![k].at = "top"]
    /\ UNCHANGED <<pc, sleeping, session, stream, listenThread, listenStop,
                   work, queues, joining, left, history, clean>>

-----------------------------------------------------------------------------
(* The transcription worker's loop.                                        *)

WorkerOnly == UNCHANGED <<pc, sleeping, session, stream, wake, workThread, workStop,
                          slotAcquired, inUse, leaked, joining, left, history, clean>>

MoveWorker(w, l, x) == worker' = [worker EXCEPT ![w] = [at |-> l, holds |-> x]]

\* while not self._stop_event.is_set()
WorkerTop(w) ==
    /\ worker[w].at = "top"
    /\ MoveWorker(w, IF workStop THEN "done" ELSE "take", None)
    /\ UNCHANGED queues
    /\ WorkerOnly

\* audio_queue.get: the wait ends with the oldest utterance, closed queue or
\* not, or with nothing.
WorkerTakes(w) ==
    /\ worker[w].at = "take"
    /\ IF audioQ.items = <<>>
       THEN MoveWorker(w, "top", None) /\ UNCHANGED audioQ
       ELSE /\ MoveWorker(w, "asr", Head(audioQ.items))
            /\ audioQ' = [audioQ EXCEPT !.items = Tail(@)]
    /\ UNCHANGED textQ
    /\ WorkerOnly

\* transcribe returns a text, or nothing and the loop goes on.
WorkerTranscribes(w) ==
    /\ worker[w].at = "asr"
    /\ \/ MoveWorker(w, "check", worker[w].holds)
       \/ MoveWorker(w, "top", None)
    /\ UNCHANGED queues
    /\ WorkerOnly

\* transcribe raises (the model loader failed): nothing in the loop catches
\* it and the thread ends.
WorkerDies(w) ==
    /\ worker[w].at = "asr"
    /\ MoveWorker(w, "done", None)
    /\ UNCHANGED queues
    /\ WorkerOnly

\* text_queue.put, first half: a closed queue refuses.
WorkerChecks(w) ==
    /\ worker[w].at = "check"
    /\ IF textQ.closed THEN MoveWorker(w, "top", None)
                       ELSE MoveWorker(w, "enqueue", worker[w].holds)
    /\ UNCHANGED queues
    /\ WorkerOnly

\* text_queue.put, second half: the queue may have been closed since; a full
\* one loses the text.
WorkerEnqueues(w) ==
    /\ worker[w].at = "enqueue"
    /\ MoveWorker(w, "top", None)
    /\ textQ' = IF Len(textQ.items) < QueueSize
                THEN [textQ EXCEPT !.items = Append(@, worker[w].holds)] ELSE textQ
    /\ UNCHANGED audioQ
    /\ WorkerOnly

-----------------------------------------------------------------------------
(* start() and stop() of the two engines, as the main thread (session.start *)
(* and stop) and the power thread (wake and enter_sleep) call them.        *)

\* TranscriptionWorker.start returned r to caller p.
WorkerStarted(p, r) ==
    IF r THEN Goto(p, "startWake", TRUE) /\ UNCHANGED <<streaming, buffer>>
    ELSE /\ Goto(p, "idle", TRUE)
         /\ IF p = "main" THEN streaming' = FALSE /\ buffer' = <<>>
                          ELSE UNCHANGED <<streaming, buffer>>

Registered(threads, t) == t # None /\ Live(threads[t])

\* TranscriptionWorker.start, under its lock: a live thread is kept; without
\* a free slot the call fails; otherwise the stop event is cleared and a
\* thread is made.  The answer of acquire_slot overwrites _slot_acquired,
\* also when the slot of a registered worker that died is still taken.
KeepWorker(p) ==
    /\ Registered(worker, workThread)
    /\ WorkerStarted(p, TRUE)
    /\ UNCHANGED work

NoSlot(p) ==
    /\ inUse = MaxThreads
    /\ slotAcquired' = FALSE
    /\ leaked' = IF slotAcquired THEN leaked + 1 ELSE leaked
    /\ WorkerStarted(p, FALSE)
    /\ UNCHANGED <<worker, workThread, workStop, inUse>>

SpawnWorker(p) ==
    /\ inUse < MaxThreads
    /\ \E w \in Workers :
         /\ worker[w].at = "none"
         /\ \A v \in Workers : v < w => worker[v].at # "none"
         /\ worker' = [worker EXCEPT ![w].at = "top"]
         /\ workThread' = w
    /\ workStop' = FALSE
    /\ slotAcquired' = TRUE /\ inUse' = inUse + 1
    /\ leaked' = IF slotAcquired THEN leaked + 1 ELSE leaked
    /\ WorkerStarted(p, TRUE)

StartWorker__unchecked(p) ==
    /\ pc[p] = "startWorker"
    /\ NoSlot(p) \/ SpawnWorker(p)
    /\ UNCHANGED <<sleeping, session, heard, wake, queues, joining, left, history>>

StartWorker__reopening(p) ==
    /\ pc[p] = "startWorker"
    /\ KeepWorker(p) \/ (~Registered(worker, workThread) /\ (NoSlot(p) \/ SpawnWorker(p)))
    /\ audioQ' = [audioQ EXCEPT !.closed = FALSE]
    /\ textQ' = [textQ EXCEPT !.closed = FALSE]
    /\ UNCHANGED <<sleeping, session, heard, wake, joining, left, history>>

StartWorker(p) ==
    /\ pc[p] = "startWorker"
    /\ KeepWorker(p) \/ (~Registered(worker, workThread) /\ (NoSlot(p) \/ SpawnWorker(p)))
    /\ UNCHANGED <<sleeping, session, heard, wake, queues, joining, left, history>>

\* WakeWordEngine.start, and what the caller does after it: the session is
\* started, or the device is awake.
StartWake(p) ==
    /\ pc[p] = "startWake"
    /\ IF Registered(listener, listenThread)
       THEN UNCHANGED <<listener, listenThread, listenStop>>
       ELSE /\ \E k \in Listeners :
                 /\ listener[k].at = "none"
                 /\ \A j \in Listeners : j < k => listener[j].at # "none"
                 /\ listener' = [listener EXCEPT ![k].at = "top"]
                 /\ listenThread' = k
            /\ listenStop' = FALSE
    /\ \/ p = "main" /\ Goto(p, "device", TRUE) /\ started' = TRUE /\ UNCHANGED sleeping
       \/ p = "power" /\ Goto(p, "idle", TRUE) /\ sleeping' = FALSE /\ UNCHANGED started
    /\ UNCHANGED <<audio, text, stream, wakeEvent, work, queues, joining, left, history>>

\* WakeWordEngine.stop: the part under the lock, the join, and the clearing
\* of a wake nobody consumed.
StopWake(p) ==
    /\ pc[p] = "stopWake"
    /\ listenStop' = TRUE
    /\ listenThread' = None
    /\ joining' = [joining EXCEPT ![p] = listenThread]
    /\ Goto(p, "joinWake", TRUE)
    /\ UNCHANGED <<sleeping, session, stream, listener, wakeEvent, work, queues,
                   left, history>>

\* thread.join(timeout=1.0): until the thread has ended, or not.
JoinWake(p) ==
    /\ pc[p] = "joinWake"
    /\ Goto(p, "clearWake", ~Registered(listener, joining[p]))
    /\ UNCHANGED <<sleeping, session, stream, wake, work, queues, joining, left, history>>

ClearWake(p) ==
    /\ pc[p] = "clearWake"
    /\ wakeEvent' = FALSE
    /\ Goto(p, "stopWorker", TRUE)
    /\ UNCHANGED <<sleeping, session, stream, listener, listenThread, listenStop, work,
                   queues, joining, left, history>>

\* TranscriptionWorker.stop: the part under the lock, the join, and the
\* return of the slot outside the lock.
StopWorker__unsignalled(p) ==
    /\ pc[p] = "stopWorker"
    /\ workThread' = None
    /\ audioQ' = [audioQ EXCEPT !.closed = TRUE]
    /\ textQ' = [textQ EXCEPT !.closed = TRUE]
    /\ joining' = [joining EXCEPT ![p] = workThread]
    /\ Goto(p, "joinWorker", TRUE)
    /\ UNCHANGED <<sleeping, session, stream, wake, worker, workStop, slotAcquired, inUse,
                   leaked, left, history>>

StopWorker(p) ==
    /\ pc[p] = "stopWorker"
    /\ workStop' = TRUE
    /\ workThread' = None
    /\ audioQ' = [audioQ EXCEPT !.closed = TRUE]
    /\ textQ' = [textQ EXCEPT !.closed = TRUE]
    /\ joining' = [joining EXCEPT ![p] = workThread]
    /\ Goto(p, "joinWorker", TRUE)
    /\ UNCHANGED <<sleeping, session, stream, wake, worker, slotAcquired, inUse,
                   leaked, left, history>>

JoinWorker__untimed(p) ==
    /\ pc[p] = "joinWorker"
    /\ ~Registered(worker, joining[p])
    /\ Goto(p, "releaseSlot", TRUE)
    /\ UNCHANGED <<sleeping, session, stream, wake, work, queues, joining, left, history>>

JoinWorker(p) ==
    /\ pc[p] = "joinWorker"
    /\ Goto(p, "releaseSlot", ~Registered(worker, joining[p]))
    /\ UNCHANGED <<sleeping, session, stream, wake, work, queues, joining, left, history>>

\* if self._slot_acquired: release_slot(), which ignores a release of a slot
\* nobody holds.

ReleaseSlot(p) ==
    /\ pc[p] = "releaseSlot"
    /\ inUse' = IF slotAcquired /\ inUse > 0 THEN inUse - 1 ELSE inUse
    /\ Goto(p, IF slotAcquired THEN "clearSlot" ELSE "stopped", TRUE)
    /\ UNCHANGED <<sleeping, session, stream, wake, worker, workThread, workStop,
                   slotAcquired, leaked, queues, joining, left, history>>

ClearSlot(p) ==
    /\ pc[p] = "clearSlot"
    /\ slotAcquired' = FALSE
    /\ Goto(p, "stopped", TRUE)
    /\ UNCHANGED <<sleeping, session, stream, wake, worker, workThread, workStop, inUse,
                   leaked, queues, joining, left, history>>

-----------------------------------------------------------------------------
(* RealVoiceSession.                                                       *)

\* The end of session.stop: the stream is stopped and emptied.
SessionStopped ==
    /\ pc["main"] = "stopped"
    /\ streaming' = FALSE /\ buffer' = <<>>
    /\ started' = FALSE
    /\ Goto("main", "idle", TRUE)
    /\ UNCHANGED <<sleeping, audio, text, heard, wake, work, queues, joining, left, history>>

\* session.stop: nothing to do before the first start.
SessionStop ==
    /\ pc["main"] = "idle" /\ started /\ left.stops > 0
    /\ left' = [left EXCEPT !.stops = @ - 1]
    /\ Goto("main", "stopWake", TRUE)
    /\ UNCHANGED <<sleeping, session, stream, wake, work, queues, joining, history>>

\* run_once is called; the first thing it does is session.start.
RunOnce ==
    /\ pc["main"] = "idle"
    /\ Goto("main", IF started THEN "device" ELSE "start", TRUE)
    /\ audio' = None /\ text' = None
    /\ UNCHANGED <<sleeping, started, stream, wake, work, queues, joining, left, history>>

StartStream ==
    /\ pc["main"] = "start"
    /\ streaming' = TRUE
    /\ Goto("main", "startWorker", TRUE)
    /\ UNCHANGED <<sleeping, session, buffer, heard, wake, work, queues, joining, left, history>>

\* The device state is asked for; SleepManager.is_sleeping waits for the
\* lock that enter_sleep and wake hold from beginning to end.
CheckDevice ==
    /\ pc["main"] = "device"
    /\ pc["power"] = "idle"
    /\ Goto("main", IF sleeping THEN "idle" ELSE "wait", TRUE)
    /\ UNCHANGED <<sleeping, session, stream, wake, work, queues, joining, left, history>>

\* wait_for_wake consumes the signal, or times out.
WaitForWake ==
    /\ pc["main"] = "wait"
    /\ Goto("main", IF wakeEvent THEN "read" ELSE "idle", TRUE)
    /\ wakeEvent' = FALSE
    /\ UNCHANGED <<sleeping, session, stream, listener, listenThread, listenStop, work,
                   queues, joining, left, history>>

ReadUtterance ==
    /\ pc["main"] = "read"
    /\ audio' = ReadChunk
    /\ buffer' = AfterRead
    /\ Goto("main", IF ReadChunk = None THEN "idle" ELSE "submit", TRUE)
    /\ UNCHANGED <<sleeping, started, text, streaming, heard, wake, work, queues, joining,
                   left, history>>

\* audio_queue.put, first half: a closed queue refuses.
SubmitAudio ==
    /\ pc["main"] = "submit"
    /\ Goto("main", IF audioQ.closed THEN "idle" ELSE "put", TRUE)
    /\ UNCHANGED <<sleeping, session, stream, wake, work, queues, joining, left, history>>

\* audio_queue.put, second half: so does a full one.
PutAudio__retrying ==
    /\ pc["main"] = "put"
    /\ IF Len(audioQ.items) < QueueSize
       THEN /\ audioQ' = [audioQ EXCEPT !.items = Append(@, audio)]
            /\ submitted' = Append(submitted, audio)
            /\ \E l \in {"put", "get"} : Goto("main", l, TRUE)
       ELSE Goto("main", "get", TRUE) /\ UNCHANGED <<audioQ, submitted>>
    /\ UNCHANGED <<sleeping, session, stream, wake, work, textQ, joining, left,
                   handled, timeouts>>

PutAudio ==
    /\ pc["main"] = "put"
    /\ IF Len(audioQ.items) < QueueSize
       THEN /\ audioQ' = [audioQ EXCEPT !.items = Append(@, audio)]
            /\ submitted' = Append(submitted, audio)
            /\ Goto("main", "get", TRUE)
       ELSE Goto("main", "idle", TRUE) /\ UNCHANGED <<audioQ, submitted>>
    /\ UNCHANGED <<sleeping, session, stream, wake, work, textQ, joining, left,
                   handled, timeouts>>

\* get_transcription: the oldest text in the queue, whichever utterance it
\* is of; an empty queue times out.
GetTranscription ==
    /\ pc["main"] = "get"
    /\ IF textQ.items = <<>>
       THEN /\ Goto("main", "idle", TRUE)
            /\ timeouts' = timeouts + 1
            /\ UNCHANGED <<text, textQ>>
       ELSE /\ Goto("main", "handle", TRUE)
            /\ text' = Head(textQ.items)
            /\ textQ' = [textQ EXCEPT !.items = Tail(@)]
            /\ UNCHANGED timeouts
    /\ UNCHANGED <<sleeping, started, audio, stream, wake, work, audioQ, joining, left,
                   submitted, handled>>

\* The identity of the utterance just read is set, and the transcript is
\* given to the interaction controller.
HandleInput ==
    /\ pc["main"] = "handle"
    /\ handled' = Append(handled, [identity |-> audio, text |-> text])
    /\ Goto("main", "idle", TRUE)
    /\ UNCHANGED <<sleeping, session, stream, wake, work, queues, joining, left,
                   submitted, timeouts>>

-----------------------------------------------------------------------------
(* SleepManager.                                                           *)

EnterSleep ==
    /\ pc["power"] = "idle" /\ ~sleeping /\ left.stops > 0
    /\ left' = [left EXCEPT !.stops = @ - 1]
    /\ Goto("power", "stopWake", TRUE)
    /\ UNCHANGED <<sleeping, session, stream, wake, work, queues, joining, history>>

Asleep ==
    /\ pc["power"] = "stopped"
    /\ sleeping' = TRUE
    /\ Goto("power", "idle", TRUE)
    /\ UNCHANGED <<session, stream, wake, work, queues, joining, left, history>>

Wake ==
    /\ pc["power"] = "idle" /\ sleeping
    /\ Goto("power", "startWorker", TRUE)
    /\ UNCHANGED <<sleeping, session, stream, wake, work, queues, joining, left, history>>

-----------------------------------------------------------------------------
Engines(p) ==
    \/ StartWorker(p) \/ StartWake(p)
    \/ StopWake(p) \/ JoinWake(p) \/ ClearWake(p)
    \/ StopWorker(p) \/ JoinWorker(p) \/ ReleaseSlot(p) \/ ClearSlot(p)

SessionStep ==
    \/ RunOnce \/ StartStream \/ CheckDevice \/ WaitForWake \/ ReadUtterance
    \/ SubmitAudio \/ PutAudio \/ GetTranscription \/ HandleInput \/ SessionStopped

WorkerStep(w) ==
    \/ WorkerTop(w) \/ WorkerTakes(w) \/ WorkerTranscribes(w)
    \/ WorkerChecks(w) \/ WorkerEnqueues(w)

ListenerStep(k) == ListenerTurn(k) \/ ListenerSignals(k)

VoiceNext ==
    \/ PushChunk
    \/ \E k \in Listeners : ListenerStep(k)
    \/ \E w \in Workers : WorkerStep(w) \/ WorkerDies(w)
    \/ \E p \in Callers : Engines(p)
    \/ SessionStep \/ SessionStop
    \/ EnterSleep \/ Asleep \/ Wake

VoiceSpec == VoiceInit /\ [][VoiceNext]_vars

\* Every thread that can move does: the loops only ever wait with a bound.
\* Nobody is obliged to stop the session or to put the device to sleep, but
\* the main loop calls run_once for ever and a call that was made goes on.
\* The sleep manager's lock, released again and again by a wake() that is
\* retried while no slot is free, is obtained in the end.
VoiceFairSpec ==
    /\ VoiceSpec
    /\ \A k \in Listeners : WF_vars(ListenerStep(k))
    /\ \A w \in Workers : WF_vars(WorkerStep(w))
    /\ WF_vars(SessionStep \/ Engines("main")) /\ SF_vars(CheckDevice)
    /\ WF_vars(Asleep \/ Engines("power"))

-----------------------------------------------------------------------------
(* Properties.                                                             *)

\* Transcripts are handled, and wait to be handled, in the order their
\* utterances were spoken and at most once each, also when a worker outlived the join of
\* stop() and a second one was started next to it.
HandledInOrder ==
    LET texts == [i \in DOMAIN handled |-> handled[i].text] \o textQ.items
    IN  \A i, j \in DOMAIN texts : i < j => texts[i] < texts[j]

\* run_once pairs the identity of the utterance it has just read with the
\* oldest transcript in the queue.  The two differ by at most as many
\* submissions as waits for a transcript have timed out, so a session in
\* which none timed out attributes every command to its own utterance.
LagBounded ==
    \A i \in DOMAIN handled : \E a, b \in DOMAIN submitted :
        /\ handled[i].text = submitted[a] /\ handled[i].identity = submitted[b]
        /\ b - a <= timeouts

\* The limiter counts neither below zero nor past its slots, also when
\* session.stop and enter_sleep both return the worker's only slot.  While
\* every join ended with its thread gone and no start or stop ran beside
\* another, there is at most one live transcription worker and one live
\* wake-word thread, and between starts and stops the limiter counts the
\* worker's slot, which a live worker has and a stopped one has returned,
\* and those of workers that died and were started again.
OneWorkerPerSlot ==
    /\ inUse \in 0..MaxThreads
    /\ clean => /\ \A v, w \in Workers : Live(worker[v]) /\ Live(worker[w]) => v = w
                /\ \A j, k \in Listeners : Live(listener[j]) /\ Live(listener[k]) => j = k
                /\ (\A p \in Callers : pc[p] \notin StartLabels \cup StopLabels) =>
                     /\ inUse = leaked + (IF slotAcquired THEN 1 ELSE 0)
                     /\ Registered(worker, workThread) => slotAcquired
                     /\ slotAcquired => workThread # None

\* Once the worker has been stopped for good, every worker thread ends,
\* the ones whose join timed out included; the same for wake-word threads.
StoppedThreadsEnd ==
    /\ <>[](workThread = None) => <>[](\A w \in Workers : ~Live(worker[w]))
    /\ <>[](listenThread = None) => <>[](\A k \in Listeners : ~Live(listener[k]))

\* run_once and stop always return: no start, stop, join or wait on the
\* sleep manager's lock holds the main thread for ever.
MainReturns == []<>(pc["main"] = "idle")

\* "Leave sleep mode and resume runtime components." (sleep_manager.py:43):
\* after a wake() that returned True, with nobody starting or stopping
\* anything, the worker accepts audio.
WakeResumes ==
    [][(pc["power"] = "startWake" /\ pc'["power"] = "idle" /\ clean /\ started)
          => ~audioQ'.closed]_vars
=============================================================================
