------------------------ MODULE VoicePipelineProofs -------------------------
(***************************************************************************)
(* The threads of the voice runtime, for every number of slots, workers    *)
(* and listeners, queue and buffer size and load: the types, and what the  *)
(* limiter counts.                                                         *)
(***************************************************************************)
EXTENDS VoicePipeline, TLAPS

(* Zenon tries every leaf that names no other prover.                      *)
USE Zenon

-----------------------------------------------------------------------------
(* Sequences.                                                              *)

(* An element of a sequence is one of its set.                             *)
LEMMA SeqElement ==
    ASSUME NEW S, NEW q \in Seq(S), NEW i \in 1..Len(q)
    PROVE  q[i] \in S
  BY SMT

(* The empty sequence, and the length of any other.                        *)
LEMMA SeqEmpty ==
    ASSUME NEW S
    PROVE  /\ <<>> \in Seq(S) /\ Len(<<>>) = 0
           /\ \A q \in Seq(S) : q # <<>> => Len(q) \in Nat \ {0}
  BY SMT

(* The length and the positions of a sequence.                             *)
LEMMA SeqLength ==
    ASSUME NEW S, NEW q \in Seq(S)
    PROVE  /\ Len(q) \in Nat
           /\ q \in [1..Len(q) -> S] /\ DOMAIN q = 1..Len(q)
  BY SMT

(* A sequence with one element more.                                       *)
LEMMA SeqAppend ==
    ASSUME NEW S, NEW q \in Seq(S), NEW e \in S
    PROVE  /\ Append(q, e) \in Seq(S) /\ Append(q, e) # <<>>
           /\ Len(Append(q, e)) = Len(q) + 1 /\ Append(q, e)[Len(q) + 1] = e
           /\ \A i \in 1..Len(q) : Append(q, e)[i] = q[i]
  BY SMT

(* The first element of a sequence and the others.                         *)
LEMMA SeqHeadTail ==
    ASSUME NEW S, NEW q \in Seq(S), q # <<>>
    PROVE  /\ Head(q) \in S
           /\ Tail(q) \in Seq(S) /\ Len(Tail(q)) = Len(q) - 1
           /\ \A i \in 1..Len(Tail(q)) : Tail(q)[i] = q[i + 1]
  BY SMT

(* Two sequences, one after the other.                                     *)
LEMMA SeqConcat ==
    ASSUME NEW S, NEW q \in Seq(S), NEW r \in Seq(S)
    PROVE  /\ q \o r \in Seq(S) /\ Len(q \o r) = Len(q) + Len(r)
           /\ \A i \in 1..(Len(q) + Len(r)) :
                (q \o r)[i] = IF i <= Len(q) THEN q[i] ELSE r[i - Len(q)]
  BY SMT

(* Appending is concatenating one element.                                 *)
LEMMA SeqAppendConcat ==
    ASSUME NEW S, NEW q \in Seq(S), NEW e \in S
    PROVE  Append(q, e) = q \o <<e>>
  BY SMT

-----------------------------------------------------------------------------
(* The invariants.                                                         *)

\* The types of what the properties are about.
Thread == [at : {"none", "top", "hit", "take", "asr", "check", "enqueue", "done"},
           holds : Nat]

Labels == {"idle", "device", "wait", "read", "submit", "put", "get", "handle"}
              \cup StartLabels \cup StopLabels

Queue == [items : Seq(Nat), closed : BOOLEAN]

\* The state of the runtime is well formed.
VoiceType ==
    /\ pc \in [Callers -> Labels] /\ joining \in [Callers -> Nat]
    /\ streaming \in BOOLEAN /\ buffer \in Seq(Nat) /\ heard \in Nat
    /\ listener \in [Listeners -> Thread] /\ listenThread \in Listeners \cup {None}
    /\ worker \in [Workers -> Thread] /\ workThread \in Workers \cup {None}
    /\ slotAcquired \in BOOLEAN /\ inUse \in Nat /\ leaked \in Nat
    /\ audioQ \in Queue /\ textQ \in Queue
    /\ audio \in Nat /\ text \in Nat
    /\ submitted \in Seq(Nat) /\ timeouts \in Nat
    /\ handled \in Seq([identity : Nat, text : Nat])
    /\ clean \in BOOLEAN

\* Whether caller p is inside start() or stop().
Busy(p) == pc[p] \in StartLabels \cup StopLabels

\* Whether caller p is between the locked part of the worker's stop() and
\* its end.
Stopping(p) == pc[p] \in {"joinWorker", "releaseSlot", "clearSlot"}

\* While no join gave up and no two calls overlapped: a live thread is the
\* registered one or the one being joined, and every slot in use is the
\* worker's or a forgotten one, except between release_slot and the
\* assignment after it.
CleanInv ==
    /\ \A p, q \in Callers : Busy(p) /\ Busy(q) => p = q
    /\ \A w \in Workers : Live(worker[w]) =>
         w = workThread \/ \E p \in Callers : pc[p] = "joinWorker" /\ joining[p] = w
    /\ \A p \in Callers : Stopping(p) => workThread = None
    /\ \A k \in Listeners : Live(listener[k]) =>
         k = listenThread \/ \E p \in Callers : pc[p] = "joinWake" /\ joining[p] = k
    /\ \A p \in Callers : pc[p] = "joinWake" => listenThread = None
    /\ \A p \in Callers : pc[p] = "clearSlot" => slotAcquired
    /\ inUse = leaked + (IF slotAcquired /\ ~ \E p \in Callers : pc[p] = "clearSlot"
                         THEN 1 ELSE 0)
    /\ Registered(worker, workThread) => slotAcquired
    /\ slotAcquired => workThread # None \/ \E p \in Callers : Stopping(p)

\* The inductive invariant of the slots.
SlotInv == inUse <= MaxThreads /\ (clean => CleanInv)

-----------------------------------------------------------------------------
(* Types.                                                                  *)

\* Taking the oldest chunk leaves a sequence of chunks.
LEMMA ReadType ==
    ASSUME VoiceType
    PROVE  ReadChunk \in Nat /\ AfterRead \in Seq(Nat)
BY SeqHeadTail, SeqEmpty DEF VoiceType, ReadChunk, AfterRead, None

\* Moving a caller to a label keeps the types of what that changes.
LEMMA GotoType ==
    ASSUME VoiceType, NEW p \in Callers, NEW l \in Labels, NEW ok \in BOOLEAN, Goto(p, l, ok)
    PROVE  pc' \in [Callers -> Labels] /\ clean' \in BOOLEAN
BY DEF VoiceType, Goto

\* The initial state is well typed.
LEMMA VoiceTypeInit ==
    VoiceInit => VoiceType
<1> SUFFICES ASSUME VoiceInit PROVE VoiceType
  OBVIOUS
<1>1. pc \in [Callers -> Labels] /\ joining \in [Callers -> Nat]
  BY DEF VoiceInit, None, Labels
<1>2. listener \in [Listeners -> Thread] /\ worker \in [Workers -> Thread]
  BY DEF VoiceInit, Idle, Thread, None
<1>3. audioQ \in Queue /\ textQ \in Queue
  BY SMT DEF VoiceInit, Queue
<1>4. buffer \in Seq(Nat) /\ submitted \in Seq(Nat)
  BY SMT DEF VoiceInit
<1>5. handled \in Seq([identity : Nat, text : Nat])
  BY SMT DEF VoiceInit
<1> QED BY <1>1, <1>2, <1>3, <1>4, <1>5 DEF VoiceInit, VoiceType, None

\* Every step of a worker or a wake-word thread, and of the microphone,
\* keeps the types.
LEMMA ThreadsKeepType ==
    ASSUME VoiceType, 
           \/ PushChunk
           \/ \E k \in Listeners : ListenerStep(k)
           \/ \E w \in Workers : WorkerStep(w) \/ WorkerDies(w)
    PROVE  VoiceType'
<1>a. /\ worker \in [Workers -> Thread] /\ listener \in [Listeners -> Thread]
      /\ audioQ \in Queue /\ textQ \in Queue
  BY DEF VoiceType
<1>1. CASE PushChunk
  <2>1. buffer' \in Seq(Nat)
    <3>1. Tail(buffer) \in Seq(Nat) \/ Len(buffer) # BufferChunks
      BY SeqHeadTail, SeqEmpty, VoiceAssumption DEF VoiceType
    <3>2. /\ heard + 1 \in Nat /\ buffer \in Seq(Nat)
      BY SMT DEF VoiceType
    <3>3. buffer' = IF ~streaming THEN buffer
                    ELSE (IF Len(buffer) = BufferChunks THEN Tail(buffer) ELSE buffer)
                         \o <<heard + 1>>
      BY <1>1 DEF PushChunk
    <3> QED BY <3>1, <3>2, <3>3, SMT
  <2> QED BY <1>1, <2>1, SMTT(20) DEF PushChunk, VoiceType, session, wake, work, queues, history
<1>2. ASSUME NEW k \in Listeners, ListenerStep(k) PROVE VoiceType'
  <2>1. CASE ListenerTurn(k)
    <3>1. listener' \in [Listeners -> Thread]
      BY <1>a, <2>1, SMT DEF ListenerTurn, Thread
    <3>2. buffer' \in Seq(Nat)
      BY <2>1, ReadType DEF ListenerTurn, VoiceType
    <3> QED BY <2>1, <3>1, <3>2 DEF ListenerTurn, VoiceType, session, work, queues, history
  <2>2. CASE ListenerSignals(k)
    <3>1. listener' \in [Listeners -> Thread]
      BY <1>a, <2>2 DEF ListenerSignals, Thread
    <3> QED
      BY <2>2, <3>1 DEF ListenerSignals, VoiceType, session, stream, work, queues, history
  <2> QED BY <1>2, <2>1, <2>2 DEF ListenerStep
<1>3. ASSUME NEW w \in Workers, WorkerStep(w) \/ WorkerDies(w) PROVE VoiceType'
  <2>1. worker[w].holds \in Nat
    BY <1>a DEF Thread
  <2>2. ASSUME worker' \in [Workers -> Thread], audioQ' \in Queue, textQ' \in Queue, WorkerOnly
        PROVE  VoiceType'
    BY <2>2 DEF WorkerOnly, VoiceType, session, stream, wake, history
  <2>3. CASE WorkerTakes(w)
    <3>1. CASE audioQ.items = <<>>
      <4>1. worker' \in [Workers -> Thread]
        <5>1. worker' = [worker EXCEPT ![w] = [at |-> "top", holds |-> None]]
          BY <2>3, <3>1 DEF WorkerTakes, MoveWorker
        <5> QED BY <1>a, <5>1 DEF None, Thread
      <4> QED BY <1>a, <2>2, <2>3, <3>1, <4>1 DEF WorkerTakes
    <3>2. CASE audioQ.items # <<>>
      <4>1. Head(audioQ.items) \in Nat /\ Tail(audioQ.items) \in Seq(Nat)
        BY <1>a, <3>2, SeqHeadTail DEF Queue
      <4>2. audioQ' \in Queue
        BY <1>a, <2>3, <3>2, <4>1 DEF WorkerTakes, Queue
      <4>3. worker' \in [Workers -> Thread]
        <5>1. worker' = [worker EXCEPT ![w] = [at |-> "asr", holds |-> Head(audioQ.items)]]
          BY <2>3, <3>2 DEF WorkerTakes, MoveWorker
        <5> QED BY <1>a, <4>1, <5>1 DEF Thread
      <4> QED BY <1>a, <2>2, <2>3, <3>2, <4>2, <4>3 DEF WorkerTakes
    <3> QED BY <3>1, <3>2
  <2>4. CASE WorkerEnqueues(w)
    <3>1. textQ' \in Queue
      <4>1. Append(textQ.items, worker[w].holds) \in Seq(Nat)
        BY <1>a, <2>1, SMT DEF Queue
      <4> QED BY <1>a, <4>1, <2>4 DEF WorkerEnqueues, Queue
    <3>2. worker' \in [Workers -> Thread]
      BY <1>a, <2>4 DEF WorkerEnqueues, None, MoveWorker, Thread
    <3> QED BY <1>a, <2>2, <2>4, <3>1, <3>2 DEF WorkerEnqueues
  <2>5. CASE WorkerTop(w) \/ WorkerTranscribes(w) \/ WorkerChecks(w) \/ WorkerDies(w)
    <3>1. worker' \in [Workers -> Thread]
      BY <1>a, <2>1, <2>5, SMT
         DEF WorkerTop, WorkerTranscribes, WorkerChecks, WorkerDies, None, MoveWorker, Thread
    <3> QED
      BY <1>a, <2>2, <2>5, <3>1
         DEF WorkerTop, WorkerTranscribes, WorkerChecks, WorkerDies, queues
  <2> QED BY <1>3, <2>3, <2>4, <2>5 DEF WorkerStep
<1> QED BY <1>1, <1>2, <1>3

\* Every step of start() and stop() of the two engines keeps the types.
LEMMA EnginesKeepType ==
    ASSUME VoiceType, NEW p \in Callers, Engines(p)
    PROVE  VoiceType'
<1>a. /\ worker \in [Workers -> Thread] /\ listener \in [Listeners -> Thread]
      /\ audioQ \in Queue /\ textQ \in Queue /\ joining \in [Callers -> Nat]
      /\ workThread \in Workers \cup {None} /\ listenThread \in Listeners \cup {None}
      /\ inUse \in Nat /\ leaked \in Nat /\ slotAcquired \in BOOLEAN
      /\ buffer \in Seq(Nat) /\ streaming \in BOOLEAN
  BY DEF VoiceType
<1>b. workThread \in Nat /\ listenThread \in Nat
  BY <1>a, VoiceAssumption, SMT DEF None
<1>c. /\ StartLabels \cup StopLabels \cup {"idle", "device"} \subseteq Labels
      /\ "idle" \in Labels /\ "device" \in Labels
  BY DEF Labels
<1>d. \A l \in Labels, ok \in BOOLEAN :
         Goto(p, l, ok) => pc' \in [Callers -> Labels] /\ clean' \in BOOLEAN
  BY GotoType
<1>1. CASE StartWorker(p)
  <2>1. ASSUME NEW r \in BOOLEAN, WorkerStarted(p, r)
        PROVE  /\ pc' \in [Callers -> Labels] /\ clean' \in BOOLEAN
               /\ buffer' \in Seq(Nat) /\ streaming' \in BOOLEAN
    <3>1. pc' \in [Callers -> Labels] /\ clean' \in BOOLEAN
      BY <2>1, <1>c, <1>d DEF WorkerStarted, StartLabels
    <3>2. buffer' \in Seq(Nat) /\ streaming' \in BOOLEAN
      <4>1. \/ streaming' = FALSE /\ buffer' = <<>>
            \/ streaming' = streaming /\ buffer' = buffer
        BY <2>1 DEF WorkerStarted
      <4>2. <<>> \in Seq(Nat)
        BY SMT
      <4> QED BY <1>a, <4>1, <4>2
    <3> QED BY <3>1, <3>2
  <2>2. ASSUME worker' \in [Workers -> Thread], workThread' \in Workers \cup {None},
               inUse' \in Nat, leaked' \in Nat, slotAcquired' \in BOOLEAN,
               NEW r \in BOOLEAN, WorkerStarted(p, r)
        PROVE  VoiceType'
    BY <1>1, <2>1, <2>2 DEF StartWorker, VoiceType, session, wake, queues, history
  <2>3. CASE KeepWorker(p)
    BY <1>a, <2>2, <2>3 DEF KeepWorker, work
  <2>4. CASE NoSlot(p)
    <3>1. leaked' \in Nat
      BY <1>a, <2>4, SMT DEF NoSlot
    <3>2. WorkerStarted(p, FALSE)
      BY <2>4 DEF NoSlot
    <3> QED BY <1>a, <2>2, <2>4, <3>1, <3>2 DEF NoSlot
  <2>5. CASE SpawnWorker(p)
    <3>1. worker' \in [Workers -> Thread] /\ workThread' \in Workers
      <4>1. PICK w \in Workers : /\ worker' = [worker EXCEPT ![w].at = "top"]
                                 /\ workThread' = w
        BY <2>5 DEF SpawnWorker
      <4> QED BY <1>a, <4>1 DEF Thread
    <3>2. inUse' \in Nat /\ leaked' \in Nat /\ slotAcquired' \in BOOLEAN
      BY <1>a, <2>5, SMT DEF SpawnWorker
    <3>3. WorkerStarted(p, TRUE)
      BY <2>5 DEF SpawnWorker
    <3> QED BY <2>2, <3>1, <3>2, <3>3
  <2> QED BY <1>1, <2>3, <2>4, <2>5 DEF StartWorker
<1>2. CASE StartWake(p)
  <2>1. pc' \in [Callers -> Labels] /\ clean' \in BOOLEAN
    BY <1>2, <1>c, <1>d DEF StartWake
  <2>2. listener' \in [Listeners -> Thread] /\ listenThread' \in Listeners \cup {None}
    <3>1. CASE Registered(listener, listenThread)
      BY <1>2, <1>a, <3>1 DEF StartWake
    <3>2. CASE ~Registered(listener, listenThread)
      <4>1. PICK k \in Listeners : /\ listener' = [listener EXCEPT ![k].at = "top"]
                                   /\ listenThread' = k
        BY <1>2, <3>2 DEF StartWake
      <4> QED BY <1>a, <4>1 DEF Thread
    <3> QED BY <3>1, <3>2
  <2> QED BY <1>2, <2>1, <2>2 DEF StartWake, VoiceType, stream, work, queues, history
<1>3. CASE StopWake(p)
  <2>1. pc' \in [Callers -> Labels] /\ clean' \in BOOLEAN
    BY <1>3, <1>c, <1>d DEF StopWake, StopLabels
  <2>2. joining' \in [Callers -> Nat] /\ listenThread' = None
    BY <1>3, <1>a, <1>b DEF StopWake
  <2> QED BY <1>3, <2>1, <2>2 DEF StopWake, VoiceType, session, stream, work, queues, history
<1>4. CASE JoinWake(p)
  <2>1. pc' \in [Callers -> Labels] /\ clean' \in BOOLEAN
    BY <1>4, <1>c, <1>d DEF JoinWake, StopLabels, Registered
  <2> QED BY <1>4, <2>1 DEF JoinWake, VoiceType, session, stream, wake, work, queues, history
<1>5. CASE ClearWake(p)
  <2>1. pc' \in [Callers -> Labels] /\ clean' \in BOOLEAN
    BY <1>5, <1>c, <1>d DEF ClearWake, StopLabels
  <2> QED BY <1>5, <2>1 DEF ClearWake, VoiceType, session, stream, work, queues, history
<1>6. CASE StopWorker(p)
  <2>1. pc' \in [Callers -> Labels] /\ clean' \in BOOLEAN
    BY <1>6, <1>c, <1>d DEF StopWorker, StopLabels
  <2>2. joining' \in [Callers -> Nat] /\ workThread' = None
    BY <1>6, <1>a, <1>b DEF StopWorker
  <2>3. audioQ' \in Queue /\ textQ' \in Queue
    BY <1>6, <1>a DEF StopWorker, Queue
  <2> QED BY <1>6, <2>1, <2>2, <2>3 DEF StopWorker, VoiceType, session, stream, wake, history
<1>7. CASE JoinWorker(p)
  <2>1. pc' \in [Callers -> Labels] /\ clean' \in BOOLEAN
    BY <1>7, <1>c, <1>d DEF JoinWorker, StopLabels, Registered
  <2> QED BY <1>7, <2>1 DEF JoinWorker, VoiceType, session, stream, wake, work, queues, history
<1>8. CASE ReleaseSlot(p)
  <2>1. pc' \in [Callers -> Labels] /\ clean' \in BOOLEAN
    BY <1>8, <1>c, <1>d DEF ReleaseSlot, StopLabels
  <2>2. inUse' \in Nat
    BY <1>8, <1>a, SMT DEF ReleaseSlot
  <2> QED BY <1>8, <2>1, <2>2 DEF ReleaseSlot, VoiceType, session, stream, wake, queues, history
<1>9. CASE ClearSlot(p)
  <2>1. pc' \in [Callers -> Labels] /\ clean' \in BOOLEAN
    BY <1>9, <1>c, <1>d DEF ClearSlot, StopLabels
  <2> QED BY <1>9, <2>1 DEF ClearSlot, VoiceType, session, stream, wake, queues, history
<1> QED BY <1>1, <1>2, <1>3, <1>4, <1>5, <1>6, <1>7, <1>8, <1>9 DEF Engines

\* Every other step of the main thread and of the power thread keeps the
\* types.
LEMMA SessionKeepsType ==
    ASSUME VoiceType, SessionStep \/ SessionStop \/ EnterSleep \/ Asleep \/ Wake
    PROVE  VoiceType'
<1>a. /\ audioQ \in Queue /\ textQ \in Queue /\ audio \in Nat /\ text \in Nat
      /\ submitted \in Seq(Nat) /\ handled \in Seq([identity : Nat, text : Nat])
      /\ timeouts \in Nat /\ buffer \in Seq(Nat) /\ streaming \in BOOLEAN
  BY DEF VoiceType
<1>c. {"main", "power"} \subseteq Callers /\ \A l \in StartLabels \cup StopLabels : l \in Labels
  BY DEF Callers, Labels
<1>d. \A p \in Callers, l \in Labels :
         Goto(p, l, TRUE) => pc' \in [Callers -> Labels] /\ clean' \in BOOLEAN
  BY GotoType
<1>1. pc' \in [Callers -> Labels] /\ clean' \in BOOLEAN
  <2>1. PICK p \in Callers, l \in Labels : Goto(p, l, TRUE)
    <3>1. CASE SessionStep
      BY <3>1, <1>c DEF SessionStep, RunOnce, StartStream, CheckDevice, WaitForWake,
         ReadUtterance, SubmitAudio, PutAudio, GetTranscription, HandleInput,
         SessionStopped, Labels, StartLabels, StopLabels
    <3>2. CASE SessionStop \/ EnterSleep \/ Asleep \/ Wake
      BY <3>2, <1>c DEF SessionStop, EnterSleep, Asleep, Wake, Labels, StartLabels, StopLabels
    <3> QED BY <3>1, <3>2
  <2> QED BY <2>1, <1>d
<1>2. CASE ReadUtterance
  BY <1>1, <1>2, ReadType DEF ReadUtterance, VoiceType, wake, work, queues, history
<1>3. CASE PutAudio
  <2>1. Append(audioQ.items, audio) \in Seq(Nat) /\ Append(submitted, audio) \in Seq(Nat)
    BY <1>a, SMT DEF Queue
  <2>2. audioQ' \in Queue /\ submitted' \in Seq(Nat)
    BY <1>3, <1>a, <2>1 DEF PutAudio, Queue
  <2> QED BY <1>1, <1>3, <2>2 DEF PutAudio, VoiceType, session, stream, wake, work
<1>4. CASE GetTranscription
  <2>1. textQ' \in Queue /\ text' \in Nat /\ timeouts' \in Nat
    <3>1. CASE textQ.items = <<>>
      BY <1>4, <1>a, <3>1, SMT DEF GetTranscription
    <3>2. CASE textQ.items # <<>>
      <4>1. Head(textQ.items) \in Nat /\ Tail(textQ.items) \in Seq(Nat)
        BY <1>a, <3>2, SeqHeadTail DEF Queue
      <4> QED BY <1>4, <1>a, <3>2, <4>1 DEF GetTranscription, Queue
    <3> QED BY <3>1, <3>2
  <2> QED BY <1>1, <1>4, <2>1 DEF GetTranscription, VoiceType, stream, wake, work
<1>5. CASE HandleInput
  <2>1. handled' \in Seq([identity : Nat, text : Nat])
    BY <1>5, <1>a, SMT DEF HandleInput
  <2> QED BY <1>1, <1>5, <2>1 DEF HandleInput, VoiceType, session, stream, wake, work, queues
<1>6. CASE RunOnce \/ StartStream \/ SessionStopped
  <2>1. /\ audio' \in Nat /\ text' \in Nat /\ buffer' \in Seq(Nat)
        /\ streaming' \in BOOLEAN /\ heard' = heard
    <3>1. \/ streaming' = FALSE /\ buffer' = <<>>
          \/ streaming' = TRUE /\ buffer' = buffer
          \/ streaming' = streaming /\ buffer' = buffer
      BY <1>6 DEF RunOnce, StartStream, SessionStopped, stream
    <3>2. <<>> \in Seq(Nat)
      BY SMT
    <3>3. audio' \in Nat /\ text' \in Nat /\ heard' = heard
      <4>1. \/ audio' = 0 /\ text' = 0 /\ heard' = heard
            \/ audio' = audio /\ text' = text /\ heard' = heard
        BY <1>6 DEF RunOnce, StartStream, SessionStopped, None, session, stream
      <4> QED BY <1>a, <4>1, SMT
    <3> QED BY <1>a, <3>1, <3>2, <3>3
  <2> QED
    BY <1>1, <1>6, <2>1 DEF RunOnce, StartStream, SessionStopped, VoiceType,
       wake, work, queues, history
<1>7. CASE CheckDevice \/ WaitForWake \/ SubmitAudio
  BY <1>1, <1>7 DEF CheckDevice, WaitForWake, SubmitAudio, VoiceType,
     session, stream, wake, work, queues, history
<1>8. CASE SessionStop \/ EnterSleep \/ Asleep \/ Wake
  BY <1>1, <1>8 DEF SessionStop, EnterSleep, Asleep, Wake, VoiceType,
     session, stream, wake, work, queues, history
<1> QED BY <1>2, <1>3, <1>4, <1>5, <1>6, <1>7, <1>8 DEF SessionStep

\* The types hold in every reachable state.
LEMMA VoiceTypeNext ==
    VoiceType /\ [VoiceNext]_vars => VoiceType'
<1>1. VoiceType /\ VoiceNext => VoiceType'
  BY ThreadsKeepType, EnginesKeepType, SessionKeepsType DEF VoiceNext
<1>2. VoiceType /\ UNCHANGED vars => VoiceType'
  BY DEF VoiceType, vars, session, stream, wake, work, queues, history
<1> QED BY <1>1, <1>2

-----------------------------------------------------------------------------
(* Threads and slots.                                                      *)

\* The labels CleanInv tells apart.
Special == {"joinWake", "joinWorker", "releaseSlot", "clearSlot"}

\* After a move that left `clean` set the caller's join had not given up, and
\* nobody else is inside start() or stop() if the caller is.
LEMMA GotoClean ==
    ASSUME VoiceType, SlotInv, NEW p \in Callers, NEW l, NEW ok \in BOOLEAN,
           Goto(p, l, ok), clean'
    PROVE  /\ clean /\ ok /\ CleanInv
           /\ pc'[p] = l /\ \A q \in Callers : q # p => pc'[q] = pc[q]
           /\ \A q, r \in Callers : Busy(q)' /\ Busy(r)' => q = r
           /\ Busy(p) => \A q \in Callers : q # p => pc[q] \notin Special /\ ~Busy(q)
<1>1. clean /\ ok /\ CleanInv
  BY DEF Goto, SlotInv
<1>2. pc'[p] = l /\ \A q \in Callers : q # p => pc'[q] = pc[q]
  BY DEF Goto, VoiceType
<1>3. \A q, r \in Callers : Busy(q) /\ Busy(r) => q = r
  BY <1>1 DEF CleanInv
<1>4. l \in StartLabels \cup StopLabels => \A q \in Callers : q # p => ~Busy(q)
  BY DEF Goto, Busy
<1>5. \A q, r \in Callers : Busy(q)' /\ Busy(r)' => q = r
  BY <1>2, <1>3, <1>4 DEF Busy
<1>6. Special \subseteq StartLabels \cup StopLabels
  BY DEF Special, StartLabels, StopLabels
<1>7. Busy(p) => \A q \in Callers : q # p => pc[q] \notin Special /\ ~Busy(q)
  BY <1>3, <1>6 DEF Busy
<1> QED BY <1>1, <1>2, <1>5, <1>7

\* A step that starts no thread, changes neither registrations nor slots
\* and moves callers only between other labels keeps CleanInv.
LEMMA CleanFrame ==
    ASSUME CleanInv,
           \A p \in Callers : pc'[p] = pc[p] \/ (pc[p] \notin Special /\ pc'[p] \notin Special),
           \A p, q \in Callers : Busy(p)' /\ Busy(q)' => p = q,
           UNCHANGED <<workThread, listenThread, slotAcquired, inUse, leaked, joining>>,
           \A w \in Workers : Live(worker[w])' => Live(worker[w]),
           \A k \in Listeners : Live(listener[k])' => Live(listener[k]),
           workThread \in Workers \cup {None}
    PROVE  CleanInv'
<1>1. \A p \in Callers, l \in Special : pc'[p] = l <=> pc[p] = l
  OBVIOUS
<1>2. \A p \in Callers : Stopping(p)' <=> Stopping(p)
  BY <1>1 DEF Stopping, Special
<1>3. Registered(worker, workThread)' => Registered(worker, workThread)
  BY DEF Registered
<1>4. \A w \in Workers : Live(worker[w])' =>
        w = workThread' \/ \E p \in Callers : pc'[p] = "joinWorker" /\ joining'[p] = w
  BY <1>1, SMT DEF CleanInv, Special
<1>5. \A k \in Listeners : Live(listener[k])' =>
        k = listenThread' \/ \E p \in Callers : pc'[p] = "joinWake" /\ joining'[p] = k
  BY <1>1, SMT DEF CleanInv, Special
<1>6. inUse' = leaked' + (IF slotAcquired' /\ ~ \E p \in Callers : pc'[p] = "clearSlot"
                          THEN 1 ELSE 0)
  BY <1>1, SMT DEF CleanInv, Special
<1>7. \A p \in Callers : /\ Stopping(p)' => workThread' = None
                         /\ pc'[p] = "joinWake" => listenThread' = None
                         /\ pc'[p] = "clearSlot" => slotAcquired'
  BY <1>1, <1>2 DEF CleanInv, Special
<1>8. /\ Registered(worker, workThread)' => slotAcquired'
      /\ slotAcquired' => workThread' # None \/ \E p \in Callers : Stopping(p)'
  BY <1>2, <1>3 DEF CleanInv
<1> QED BY <1>4, <1>5, <1>6, <1>7, <1>8 DEF CleanInv

\* Nothing but start() and stop() changes what the limiter counts, and no
\* other step makes a thread.
LEMMA SlotsByThreads ==
    ASSUME VoiceType, SlotInv,
           \/ PushChunk
           \/ \E k \in Listeners : ListenerStep(k)
           \/ \E w \in Workers : WorkerStep(w) \/ WorkerDies(w)
    PROVE  SlotInv'
<1>a. worker \in [Workers -> Thread] /\ listener \in [Listeners -> Thread]
  BY DEF VoiceType
<1>1. UNCHANGED <<pc, workThread, listenThread, slotAcquired, inUse, leaked, joining, clean>>
  <2>1. CASE PushChunk
    BY <2>1 DEF PushChunk, wake, work
  <2>2. ASSUME NEW k \in Listeners, ListenerStep(k)
        PROVE  UNCHANGED <<pc, workThread, listenThread, slotAcquired, inUse, leaked,
                           joining, clean>>
    BY <2>2 DEF ListenerStep, ListenerTurn, ListenerSignals, work
  <2>3. ASSUME NEW w \in Workers, WorkerStep(w) \/ WorkerDies(w)
        PROVE  UNCHANGED <<pc, workThread, listenThread, slotAcquired, inUse, leaked,
                           joining, clean>>
    <3>1. WorkerOnly
      BY <2>3 DEF WorkerStep, WorkerTop, WorkerTakes, WorkerTranscribes, WorkerChecks,
         WorkerEnqueues, WorkerDies
    <3> QED BY <3>1 DEF WorkerOnly, wake
  <2> QED BY <2>1, <2>2, <2>3
<1>2. \A w \in Workers : Live(worker[w])' => Live(worker[w])
  <2>1. CASE UNCHANGED worker
    BY <2>1
  <2>2. ASSUME NEW w \in Workers, WorkerStep(w) \/ WorkerDies(w)
        PROVE  Live(worker[w]) /\ \A v \in Workers : v # w => worker'[v] = worker[v]
    <3>1. Live(worker[w])
      BY <2>2 DEF WorkerStep, WorkerTop, WorkerTakes, WorkerTranscribes, WorkerChecks,
         WorkerEnqueues, WorkerDies, Live
    <3>2. PICK l, x : MoveWorker(w, l, x)
      BY <2>2 DEF WorkerStep, WorkerTop, WorkerTakes, WorkerTranscribes, WorkerChecks,
         WorkerEnqueues, WorkerDies
    <3> QED BY <1>a, <3>1, <3>2 DEF MoveWorker
  <2>3. CASE PushChunk \/ \E k \in Listeners : ListenerStep(k)
    BY <2>1, <2>3 DEF PushChunk, ListenerStep, ListenerTurn, ListenerSignals, work
  <2> QED BY <2>2, <2>3
<1>3. \A k \in Listeners : Live(listener[k])' => Live(listener[k])
  <2>1. CASE UNCHANGED listener
    BY <2>1
  <2>2. ASSUME NEW k \in Listeners, ListenerStep(k)
        PROVE  Live(listener[k]) /\ \A j \in Listeners : j # k => listener'[j] = listener[j]
    BY <1>a, <2>2 DEF ListenerStep, ListenerTurn, ListenerSignals, Live
  <2>3. ASSUME NEW w \in Workers, WorkerStep(w) \/ WorkerDies(w)
        PROVE  UNCHANGED listener
    <3>1. WorkerOnly
      BY <2>3 DEF WorkerStep, WorkerTop, WorkerTakes, WorkerTranscribes, WorkerChecks,
         WorkerEnqueues, WorkerDies
    <3> QED BY <3>1 DEF WorkerOnly, wake
  <2>4. CASE PushChunk
    BY <2>1, <2>4 DEF PushChunk, wake
  <2> QED BY <2>1, <2>2, <2>3, <2>4
<1>4. CASE clean
  <2>1. CleanInv
    BY <1>4 DEF SlotInv
  <2>2. workThread \in Workers \cup {None}
    BY DEF VoiceType
  <2>3. \A p, q \in Callers : Busy(p)' /\ Busy(q)' => p = q
    BY <1>1, <2>1 DEF CleanInv, Busy
  <2>4. CleanInv'
    BY <1>1, <1>2, <1>3, <2>1, <2>2, <2>3, CleanFrame
  <2> QED BY <1>1, <2>4 DEF SlotInv
<1> QED BY <1>1, <1>4 DEF SlotInv

\* The steps of run_once, and the beginnings and ends of stop(), enter_sleep
\* and wake(), leave the engines alone.
LEMMA SlotsBySession ==
    ASSUME VoiceType, SlotInv, SessionStep \/ SessionStop \/ EnterSleep \/ Asleep \/ Wake
    PROVE  SlotInv'
<1>1. UNCHANGED <<worker, listener, workThread, listenThread, slotAcquired, inUse, leaked,
                  joining>>
  <2>1. CASE SessionStep
    BY <2>1 DEF SessionStep, RunOnce, StartStream, CheckDevice, WaitForWake,
       ReadUtterance, SubmitAudio, PutAudio, GetTranscription, HandleInput,
       SessionStopped, wake, work
  <2>2. CASE SessionStop \/ EnterSleep \/ Asleep \/ Wake
    BY <2>2 DEF SessionStop, EnterSleep, Asleep, Wake, wake, work
  <2> QED BY <2>1, <2>2
<1>2. PICK p \in Callers, l \in Labels \ Special :
         Goto(p, l, TRUE) /\ pc[p] \notin Special
  <2>1. CASE SessionStep
    BY <2>1 DEF SessionStep, RunOnce, StartStream, CheckDevice, WaitForWake,
       ReadUtterance, SubmitAudio, PutAudio, GetTranscription, HandleInput,
       SessionStopped, Labels, StartLabels, StopLabels, Special, Callers
  <2>2. CASE SessionStop \/ EnterSleep \/ Asleep \/ Wake
    BY <2>2 DEF SessionStop, EnterSleep, Asleep, Wake, Labels, StartLabels, StopLabels,
       Special, Callers
  <2> QED BY <2>1, <2>2
<1>3. CASE clean'
  <2>1. /\ CleanInv /\ pc'[p] = l /\ \A q \in Callers : q # p => pc'[q] = pc[q]
        /\ \A q, r \in Callers : Busy(q)' /\ Busy(r)' => q = r
    BY <1>2, <1>3, GotoClean
  <2>2. workThread \in Workers \cup {None}
    BY DEF VoiceType
  <2>3. \A q \in Callers : pc'[q] = pc[q] \/ (pc[q] \notin Special /\ pc'[q] \notin Special)
    BY <1>2, <2>1
  <2>4. CleanInv'
    BY <1>1, <2>1, <2>2, <2>3, CleanFrame
  <2> QED BY <1>1, <2>4 DEF SlotInv
<1> QED BY <1>1, <1>3 DEF SlotInv

\* TranscriptionWorker.start keeps a live worker, or registers a new one with
\* a slot of its own when the registered one has ended.
LEMMA SlotsByStartWorker ==
    ASSUME VoiceType, SlotInv, NEW p \in Callers, StartWorker(p)
    PROVE  SlotInv'
<1>a. /\ worker \in [Workers -> Thread] /\ workThread \in Workers \cup {None}
      /\ inUse \in Nat /\ leaked \in Nat /\ inUse <= MaxThreads /\ MaxThreads \in Nat
  BY VoiceAssumption DEF VoiceType, SlotInv
<1>b. UNCHANGED <<listener, listenThread, joining>> /\ Busy(p)
  BY DEF StartWorker, wake, Busy, StartLabels
<1>c. None \notin Workers
  BY VoiceAssumption DEF None
<1>1. ASSUME NEW r \in BOOLEAN, WorkerStarted(p, r), clean'
      PROVE  /\ CleanInv /\ pc[p] \notin Special
             /\ \A q \in Callers : pc[q] \notin Special /\ pc'[q] \notin Special
             /\ \A q, s \in Callers : Busy(q)' /\ Busy(s)' => q = s
  <2>1. PICK l \in {"startWake", "idle"} : Goto(p, l, TRUE)
    BY <1>1 DEF WorkerStarted
  <2>2. pc[p] \notin Special
    BY DEF StartWorker, Special
  <2>3. /\ CleanInv /\ pc'[p] = l /\ \A q \in Callers : q # p => pc'[q] = pc[q]
        /\ \A q, s \in Callers : Busy(q)' /\ Busy(s)' => q = s
        /\ Busy(p) => \A q \in Callers : q # p => pc[q] \notin Special /\ ~Busy(q)
    BY <1>1, <2>1, GotoClean
  <2>4. \A q \in Callers : q # p => pc[q] \notin Special
    BY <2>3, <1>b
  <2>5. l \notin Special
    BY <2>1 DEF Special
  <2>6. \A q \in Callers : pc[q] \notin Special /\ pc'[q] \notin Special
    BY <2>2, <2>3, <2>4, <2>5
  <2> QED BY <2>2, <2>3, <2>6
<1>2. CASE KeepWorker(p)
  <2>1. CASE clean'
    <3>1. CleanInv'
      BY <1>1, <1>2, <1>a, <1>b, <2>1, CleanFrame DEF KeepWorker, work
    <3> QED BY <1>2, <3>1 DEF KeepWorker, work, SlotInv
  <2> QED BY <1>2, <2>1 DEF KeepWorker, work, SlotInv
<1>3. ASSUME CleanInv, ~Registered(worker, workThread), \A q \in Callers : pc[q] \notin Special
      PROVE  /\ \A w \in Workers : ~Live(worker[w])
             /\ inUse = leaked + (IF slotAcquired THEN 1 ELSE 0)
  <2>1. \A q \in Callers : pc[q] # "joinWorker" /\ pc[q] # "clearSlot"
    BY <1>3 DEF Special
  <2>2. \A w \in Workers : Live(worker[w]) => w = workThread
    BY <1>3, <2>1 DEF CleanInv
  <2> QED BY <1>3, <1>c, <2>1, <2>2, SMT DEF CleanInv, Registered
<1>4. CASE NoSlot(p) /\ ~Registered(worker, workThread)
  <2>1. CASE clean'
    <3>1. /\ CleanInv /\ \A q \in Callers : pc[q] \notin Special /\ pc'[q] \notin Special
          /\ \A q, s \in Callers : Busy(q)' /\ Busy(s)' => q = s
      BY <1>1, <1>4, <2>1 DEF NoSlot
    <3>2. /\ \A w \in Workers : ~Live(worker[w])
          /\ inUse = leaked + (IF slotAcquired THEN 1 ELSE 0)
      BY <1>3, <1>4, <3>1
    <3>3. /\ slotAcquired' = FALSE /\ inUse' = leaked'
          /\ worker' = worker /\ workThread' = workThread
      BY <1>a, <1>4, <3>2, SMT DEF NoSlot
    <3>4. \A q \in Callers : pc'[q] \notin {"joinWorker", "joinWake", "releaseSlot", "clearSlot"}
                             /\ pc[q] # "joinWake"
      BY <3>1 DEF Special
    <3>5. \A k \in Listeners : Live(listener[k])' => k = listenThread'
      BY <1>b, <3>1, <3>4 DEF CleanInv
    <3>6. inUse' = leaked' + (IF slotAcquired' /\ ~ \E q \in Callers : pc'[q] = "clearSlot"
                              THEN 1 ELSE 0)
      BY <3>3, <1>a, <1>4, SMT DEF NoSlot
    <3>7. ~Registered(worker, workThread)'
      BY <1>4, <3>3
    <3>8. CleanInv'
      BY <3>1, <3>2, <3>3, <3>4, <3>5, <3>6, <3>7 DEF CleanInv, Stopping
    <3> QED BY <1>4, <3>8 DEF NoSlot, SlotInv
  <2> QED BY <1>4, <2>1 DEF NoSlot, SlotInv
<1>5. CASE SpawnWorker(p) /\ ~Registered(worker, workThread)
  <2>0. inUse' = inUse + 1 /\ inUse < MaxThreads
    BY <1>5 DEF SpawnWorker
  <2>1. CASE clean'
    <3>1. /\ CleanInv /\ \A q \in Callers : pc[q] \notin Special /\ pc'[q] \notin Special
          /\ \A q, s \in Callers : Busy(q)' /\ Busy(s)' => q = s
      BY <1>1, <1>5, <2>1 DEF SpawnWorker
    <3>2. /\ \A w \in Workers : ~Live(worker[w])
          /\ inUse = leaked + (IF slotAcquired THEN 1 ELSE 0)
      BY <1>3, <1>5, <3>1
    <3>3. slotAcquired' = TRUE /\ inUse' = leaked' + 1
      BY <1>a, <1>5, <3>2, SMT DEF SpawnWorker
    <3>4. \A q \in Callers : pc'[q] \notin {"joinWorker", "joinWake", "releaseSlot", "clearSlot"}
                             /\ pc[q] # "joinWake"
      BY <3>1 DEF Special
    <3>5. \A k \in Listeners : Live(listener[k])' => k = listenThread'
      BY <1>b, <3>1, <3>4 DEF CleanInv
    <3>6. PICK w \in Workers : /\ worker' = [worker EXCEPT ![w].at = "top"]
                               /\ workThread' = w
      BY <1>5 DEF SpawnWorker
    <3>7. \A v \in Workers : v # w => worker'[v] = worker[v]
      BY <1>a, <3>6
    <3>8. \A v \in Workers : Live(worker[v])' => v = workThread'
      BY <3>2, <3>6, <3>7
    <3>9. workThread' # None
      BY <3>6, <1>c
    <3>10. inUse' = leaked' + (IF slotAcquired' /\ ~ \E q \in Callers : pc'[q] = "clearSlot"
                               THEN 1 ELSE 0)
      BY <3>3, <3>4
    <3>11. CleanInv'
      BY <3>1, <3>3, <3>4, <3>5, <3>8, <3>9, <3>10 DEF CleanInv, Stopping
    <3> QED BY <1>a, <2>0, <3>11, SMT DEF SlotInv
  <2> QED BY <1>a, <2>0, <2>1, SMT DEF SlotInv
<1> QED BY <1>2, <1>4, <1>5 DEF StartWorker

\* WakeWordEngine.start makes a thread only when the registered one ended.
LEMMA SlotsByStartWake ==
    ASSUME VoiceType, SlotInv, NEW p \in Callers, StartWake(p)
    PROVE  SlotInv'
<1>a. /\ listener \in [Listeners -> Thread] /\ listenThread \in Listeners \cup {None}
      /\ workThread \in Workers \cup {None} /\ None \notin Listeners
  BY VoiceAssumption DEF VoiceType, None
<1>b. UNCHANGED <<worker, workThread, slotAcquired, inUse, leaked, joining>> /\ Busy(p)
  BY DEF StartWake, work, Busy, StartLabels
<1>1. CASE clean'
  <2>1. PICK l \in {"device", "idle"} : Goto(p, l, TRUE)
    BY DEF StartWake
  <2>2. pc[p] \notin Special /\ l \notin Special
    BY <2>1 DEF StartWake, Special
  <2>3. /\ CleanInv /\ pc'[p] = l /\ \A q \in Callers : q # p => pc'[q] = pc[q]
        /\ \A q, s \in Callers : Busy(q)' /\ Busy(s)' => q = s
        /\ \A q \in Callers : q # p => pc[q] \notin Special
    BY <1>1, <1>b, <2>1, GotoClean
  <2>4. \A q \in Callers : pc[q] \notin Special /\ pc'[q] \notin Special
    BY <2>2, <2>3
  <2>5. CASE Registered(listener, listenThread)
    <3>1. CleanInv'
      BY <1>a, <1>b, <2>3, <2>4, <2>5, CleanFrame DEF StartWake
    <3> QED BY <1>b, <3>1 DEF SlotInv
  <2>6. CASE ~Registered(listener, listenThread)
    <3>1. PICK k \in Listeners : /\ listener' = [listener EXCEPT ![k].at = "top"]
                                 /\ listenThread' = k
      BY <2>6 DEF StartWake
    <3>2. \A j \in Listeners : ~Live(listener[j])
      BY <1>a, <2>3, <2>4, <2>6, SMT DEF CleanInv, Registered, Special
    <3>3. \A j \in Listeners : Live(listener[j])' => j = listenThread'
      BY <1>a, <3>1, <3>2
    <3>4. \A q \in Callers : /\ pc[q] \notin {"joinWorker", "joinWake", "releaseSlot", "clearSlot"}
                             /\ pc'[q] \notin {"joinWorker", "joinWake", "releaseSlot", "clearSlot"}
      BY <2>4 DEF Special
    <3>5. /\ \A w \in Workers : Live(worker[w])' => w = workThread'
          /\ inUse' = leaked' + (IF slotAcquired' /\ ~ \E q \in Callers : pc'[q] = "clearSlot"
                                 THEN 1 ELSE 0)
          /\ Registered(worker, workThread)' => slotAcquired'
          /\ slotAcquired' => workThread' # None
      BY <1>b, <2>3, <3>4 DEF CleanInv, Stopping
    <3>6. CleanInv'
      BY <2>3, <3>3, <3>4, <3>5 DEF CleanInv, Stopping
    <3> QED BY <1>b, <3>6 DEF SlotInv
  <2> QED BY <2>5, <2>6
<1> QED BY <1>1, <1>b DEF SlotInv

\* The stop() of the wake-word engine: the thread it takes out of the
\* registration is the one it joins, and a join that did not give up leaves
\* no thread behind.
LEMMA SlotsByStopWake ==
    ASSUME VoiceType, SlotInv, NEW p \in Callers, StopWake(p) \/ JoinWake(p) \/ ClearWake(p)
    PROVE  SlotInv'
<1>a. /\ joining \in [Callers -> Nat] /\ listenThread \in Listeners \cup {None}
      /\ workThread \in Workers \cup {None} /\ None \notin Listeners
  BY VoiceAssumption DEF VoiceType, None
<1>b. UNCHANGED <<worker, listener, workThread, slotAcquired, inUse, leaked>> /\ Busy(p)
  BY DEF StopWake, JoinWake, ClearWake, work, wake, Busy, StopLabels
<1>1. CASE clean'
  <2>1. PICK l \in {"joinWake", "clearWake", "stopWorker"}, ok \in BOOLEAN :
           /\ Goto(p, l, ok)
           /\ l = "joinWake" <=> StopWake(p)
           /\ l = "clearWake" <=> JoinWake(p)
           /\ JoinWake(p) => ok = ~Registered(listener, joining[p])
    BY DEF StopWake, JoinWake, ClearWake, Registered
  <2>2. /\ CleanInv /\ ok /\ pc'[p] = l /\ \A q \in Callers : q # p => pc'[q] = pc[q]
        /\ \A q, s \in Callers : Busy(q)' /\ Busy(s)' => q = s
        /\ \A q \in Callers : q # p => pc[q] \notin Special
    BY <1>1, <1>b, <2>1, GotoClean
  <2>3. \A q \in Callers : /\ pc[q] \notin {"joinWorker", "releaseSlot", "clearSlot"}
                           /\ pc'[q] \notin {"joinWorker", "releaseSlot", "clearSlot"}
                           /\ q # p => pc[q] # "joinWake" /\ pc'[q] # "joinWake"
    BY <2>1, <2>2 DEF Special, StopWake, JoinWake, ClearWake
  <2>4. /\ \A w \in Workers : Live(worker[w])' => w = workThread'
        /\ \A q \in Callers : Stopping(q)' => workThread' = None
        /\ inUse' = leaked' + (IF slotAcquired' /\ ~ \E q \in Callers : pc'[q] = "clearSlot"
                               THEN 1 ELSE 0)
        /\ Registered(worker, workThread)' => slotAcquired'
        /\ slotAcquired' => workThread' # None
    BY <1>b, <2>2, <2>3 DEF CleanInv, Stopping
  <2>5. /\ \A k \in Listeners : Live(listener[k])' =>
             k = listenThread' \/ \E q \in Callers : pc'[q] = "joinWake" /\ joining'[q] = k
        /\ \A q \in Callers : pc'[q] = "joinWake" => listenThread' = None
    <3>1. CASE StopWake(p)
      <4>1. \A k \in Listeners : Live(listener[k]) => k = listenThread
        BY <2>2, <2>3, <3>1 DEF CleanInv, StopWake
      <4>2. joining'[p] = listenThread /\ pc'[p] = "joinWake" /\ listenThread' = None
        BY <1>a, <2>1, <2>2, <3>1 DEF StopWake
      <4> QED BY <1>b, <4>1, <4>2
    <3>2. CASE JoinWake(p)
      <4>1. listenThread = None /\ listenThread' = None /\ ~Registered(listener, joining[p])
        BY <2>1, <2>2, <3>2 DEF CleanInv, JoinWake, wake
      <4>2. \A k \in Listeners : Live(listener[k]) => k = joining[p]
        BY <1>a, <2>2, <2>3, <4>1 DEF CleanInv
      <4>3. \A k \in Listeners : ~Live(listener[k])
        BY <1>a, <4>1, <4>2 DEF Registered
      <4> QED BY <1>b, <4>1, <4>3
    <3>3. CASE ClearWake(p)
      <4>1. listenThread' = listenThread /\ joining' = joining
        BY <3>3 DEF ClearWake
      <4>2. \A q \in Callers : pc[q] # "joinWake" /\ pc'[q] # "joinWake"
        BY <2>1, <2>2, <2>3, <3>3 DEF ClearWake, StopWake
      <4> QED BY <1>b, <2>2, <4>1, <4>2 DEF CleanInv
    <3> QED BY <3>1, <3>2, <3>3
  <2>6. CleanInv'
    BY <2>2, <2>3, <2>4, <2>5 DEF CleanInv
  <2> QED BY <1>b, <2>6 DEF SlotInv
<1> QED BY <1>1, <1>b DEF SlotInv

\* The stop() of the worker: the thread it takes out of the registration is
\* the one it joins; after a join that did not give up no worker is left,
\* and the slot is returned before the flag that records it is cleared.
LEMMA SlotsByStopWorker ==
    ASSUME VoiceType, SlotInv, NEW p \in Callers,
           StopWorker(p) \/ JoinWorker(p) \/ ReleaseSlot(p) \/ ClearSlot(p)
    PROVE  SlotInv'
<1>a. /\ joining \in [Callers -> Nat] /\ workThread \in Workers \cup {None}
      /\ None \notin Workers /\ inUse \in Nat /\ leaked \in Nat /\ MaxThreads \in Nat
      /\ slotAcquired \in BOOLEAN /\ inUse <= MaxThreads
  BY VoiceAssumption DEF VoiceType, None, SlotInv
<1>b. UNCHANGED <<worker, listener, listenThread, leaked>> /\ Busy(p)
  BY DEF StopWorker, JoinWorker, ReleaseSlot, ClearSlot, work, wake, Busy, StopLabels
<1>c. inUse' <= MaxThreads
  <2>1. inUse' = inUse \/ inUse' = inUse - 1
    BY DEF StopWorker, JoinWorker, ReleaseSlot, ClearSlot, work
  <2> QED BY <1>a, <2>1, SMT
<1>1. CASE clean'
  <2>1. PICK l \in {"joinWorker", "releaseSlot", "clearSlot", "stopped"}, ok \in BOOLEAN :
           /\ Goto(p, l, ok)
           /\ l = "joinWorker" <=> StopWorker(p)
           /\ l = "releaseSlot" <=> JoinWorker(p)
           /\ l = "clearSlot" <=> ReleaseSlot(p) /\ slotAcquired
           /\ JoinWorker(p) => ok = ~Registered(worker, joining[p])
    BY <1>a DEF StopWorker, JoinWorker, ReleaseSlot, ClearSlot, Registered
  <2>2. /\ CleanInv /\ ok /\ pc'[p] = l /\ \A q \in Callers : q # p => pc'[q] = pc[q]
        /\ \A q, s \in Callers : Busy(q)' /\ Busy(s)' => q = s
        /\ \A q \in Callers : q # p => pc[q] \notin Special
    BY <1>1, <1>b, <2>1, GotoClean
  <2>3. /\ pc[p] # "joinWake" /\ pc'[p] # "joinWake"
        /\ \A q \in Callers : q # p =>
             /\ pc[q] \notin {"joinWake", "joinWorker", "releaseSlot", "clearSlot"}
             /\ pc'[q] \notin {"joinWake", "joinWorker", "releaseSlot", "clearSlot"}
    BY <2>1, <2>2 DEF Special, StopWorker, JoinWorker, ReleaseSlot, ClearSlot
  <2>4. /\ \A k \in Listeners : Live(listener[k])' => k = listenThread'
        /\ \A q \in Callers : pc'[q] # "joinWake"
    BY <1>b, <2>2, <2>3 DEF CleanInv
  <2>5. CASE StopWorker(p)
    <3>1. \A w \in Workers : Live(worker[w]) => w = workThread
      BY <2>2, <2>3, <2>5 DEF CleanInv, StopWorker
    <3>2. /\ joining'[p] = workThread /\ pc'[p] = "joinWorker" /\ workThread' = None
          /\ slotAcquired' = slotAcquired /\ inUse' = inUse /\ pc[p] = "stopWorker"
      BY <1>a, <2>1, <2>2, <2>5 DEF StopWorker
    <3>3. inUse' = leaked' + (IF slotAcquired' /\ ~ \E q \in Callers : pc'[q] = "clearSlot"
                              THEN 1 ELSE 0)
      <4>1. \A q \in Callers : pc[q] # "clearSlot" /\ pc'[q] # "clearSlot"
        BY <2>3, <3>2
      <4> QED BY <1>b, <2>2, <3>2, <4>1 DEF CleanInv
    <3>4. \A w \in Workers : Live(worker[w])' =>
             \E q \in Callers : pc'[q] = "joinWorker" /\ joining'[q] = w
      BY <1>b, <3>1, <3>2
    <3>5. Stopping(p)' /\ ~Registered(worker, workThread)' /\ \A q \in Callers : pc'[q] # "clearSlot"
      BY <2>3, <3>2 DEF Stopping, Registered
    <3>6. CleanInv'
      BY <2>2, <2>4, <3>2, <3>3, <3>4, <3>5 DEF CleanInv
    <3> QED BY <1>c, <3>6 DEF SlotInv
  <2>6. CASE ~StopWorker(p)
    <3>1. Stopping(p) /\ workThread = None /\ workThread' = None /\ joining' = joining
      <4>1. Stopping(p) /\ UNCHANGED <<workThread, joining>>
        BY <2>6 DEF Stopping, JoinWorker, ReleaseSlot, ClearSlot, work
      <4> QED BY <2>2, <4>1 DEF CleanInv
    <3>2. \A w \in Workers : ~Live(worker[w])
      <4>1. CASE JoinWorker(p)
        <5>1. \A w \in Workers : Live(worker[w]) => w = joining[p]
          BY <1>a, <2>2, <2>3, <3>1, ZenonT(30) DEF CleanInv
        <5> QED BY <1>a, <2>1, <2>2, <4>1, <5>1 DEF Registered
      <4>2. CASE ReleaseSlot(p) \/ ClearSlot(p)
        <5>1. \A q \in Callers : pc[q] # "joinWorker"
          BY <2>3, <4>2 DEF ReleaseSlot, ClearSlot
        <5> QED BY <1>a, <2>2, <3>1, <5>1 DEF CleanInv
      <4> QED BY <2>6, <4>1, <4>2
    <3>3. /\ pc'[p] = "clearSlot" => slotAcquired'
          /\ slotAcquired' => Stopping(p)'
          /\ inUse' = leaked' + (IF slotAcquired' /\ pc'[p] # "clearSlot" THEN 1 ELSE 0)
      <4>1. /\ inUse = leaked + (IF slotAcquired /\ pc[p] # "clearSlot" THEN 1 ELSE 0)
            /\ pc[p] = "clearSlot" => slotAcquired
        <5>1. (\E q \in Callers : pc[q] = "clearSlot") <=> pc[p] = "clearSlot"
          BY <2>3
        <5> QED BY <2>2, <5>1 DEF CleanInv
      <4>2. CASE JoinWorker(p)
        <5>1. pc[p] = "joinWorker" /\ pc'[p] = "releaseSlot" /\ UNCHANGED <<slotAcquired, inUse>>
          BY <2>1, <2>2, <4>2 DEF JoinWorker, work
        <5> QED BY <1>b, <4>1, <5>1 DEF Stopping
      <4>3. CASE ReleaseSlot(p)
        <5>1. /\ pc[p] = "releaseSlot" /\ UNCHANGED slotAcquired
              /\ inUse' = IF slotAcquired /\ inUse > 0 THEN inUse - 1 ELSE inUse
          BY <4>3 DEF ReleaseSlot
        <5>2. pc'[p] = IF slotAcquired THEN "clearSlot" ELSE "stopped"
          BY <2>1, <2>2, <4>3, <5>1 DEF StopWorker, JoinWorker
        <5>3. CASE slotAcquired
          BY <1>a, <1>b, <4>1, <5>1, <5>2, <5>3, SMT DEF Stopping
        <5>4. CASE ~slotAcquired
          BY <1>a, <1>b, <4>1, <5>1, <5>2, <5>4 DEF Stopping
        <5> QED BY <5>3, <5>4
      <4>4. CASE ClearSlot(p)
        <5>1. /\ pc[p] = "clearSlot" /\ pc'[p] = "stopped"
              /\ inUse' = inUse /\ slotAcquired' = FALSE
          BY <2>1, <2>2, <4>4 DEF ClearSlot, StopWorker, JoinWorker, ReleaseSlot
        <5> QED BY <1>a, <1>b, <4>1, <5>1
      <4> QED BY <2>6, <4>2, <4>3, <4>4
    <3>4. /\ \A q \in Callers : pc'[q] = "clearSlot" => slotAcquired'
          /\ inUse' = leaked' + (IF slotAcquired' /\ ~ \E q \in Callers : pc'[q] = "clearSlot"
                                 THEN 1 ELSE 0)
      BY <2>3, <3>3
    <3>5. CleanInv'
      BY <1>b, <2>2, <2>4, <3>1, <3>2, <3>3, <3>4 DEF CleanInv, Registered
    <3> QED BY <1>c, <3>5 DEF SlotInv
  <2> QED BY <2>5, <2>6
<1> QED BY <1>1, <1>c DEF SlotInv

\* SlotInv is inductive.
LEMMA SlotInvNext ==
    VoiceType /\ SlotInv /\ [VoiceNext]_vars => SlotInv'
<1>1. VoiceType /\ SlotInv /\ VoiceNext => SlotInv'
  BY SlotsByThreads, SlotsBySession, SlotsByStartWorker, SlotsByStartWake, SlotsByStopWake,
     SlotsByStopWorker DEF VoiceNext, Engines
<1>2. SlotInv /\ UNCHANGED vars => SlotInv'
  BY SMT DEF SlotInv, CleanInv, Busy, Stopping, Registered, Live, vars, wake, work
<1> QED BY <1>1, <1>2

\* SlotInv holds initially.
LEMMA SlotInvInit ==
    VoiceInit => SlotInv
<1> SUFFICES ASSUME VoiceInit PROVE SlotInv
  OBVIOUS
<1>1. \A p \in Callers : pc[p] = "idle"
  BY DEF VoiceInit
<1>2. /\ \A w \in Workers : ~Live(worker[w])
      /\ \A k \in Listeners : ~Live(listener[k])
  BY DEF VoiceInit, Idle, Live
<1>3. slotAcquired = FALSE /\ inUse = 0 /\ leaked = 0 /\ workThread = None
  BY DEF VoiceInit
<1>4. CleanInv
  BY <1>1, <1>2, <1>3, SMT DEF CleanInv, Busy, Stopping, StartLabels, StopLabels, Registered
<1> QED BY <1>3, <1>4, VoiceAssumption, SMT DEF SlotInv

\* The limiter's count stays within its slots and, while no join gave up and
\* no two calls overlapped, accounts for every slot: SlotInv gives each part
\* of OneWorkerPerSlot.
THEOREM OneWorkerPerSlotHolds ==
    VoiceSpec => []OneWorkerPerSlot
<1>1. VoiceType /\ SlotInv => OneWorkerPerSlot
  <2> SUFFICES ASSUME VoiceType, SlotInv PROVE OneWorkerPerSlot
    OBVIOUS
  <2>1. inUse \in 0..MaxThreads
    BY VoiceAssumption, SMT DEF VoiceType, SlotInv
  <2>3. CASE clean
    <3>1. CleanInv
      BY <2>3 DEF SlotInv
    <3>2. \A p, q \in Callers : /\ pc[p] = "joinWorker" /\ pc[q] = "joinWorker" => p = q
                                /\ pc[p] = "joinWake" /\ pc[q] = "joinWake" => p = q
      BY <3>1, SMT DEF CleanInv, Busy, StopLabels
    <3>3. None \notin Workers /\ None \notin Listeners
      BY VoiceAssumption DEF None
    <3>4. ASSUME NEW v \in Workers, NEW w \in Workers, Live(worker[v]), Live(worker[w])
          PROVE  v = w
      <4>1. CASE \E p \in Callers : pc[p] = "joinWorker"
        <5>1. workThread = None
          BY <3>1, <4>1 DEF CleanInv, Stopping
        <5>2. PICK p \in Callers : pc[p] = "joinWorker" /\ joining[p] = v
          BY <3>1, <3>3, <3>4, <5>1 DEF CleanInv
        <5>3. PICK q \in Callers : pc[q] = "joinWorker" /\ joining[q] = w
          BY <3>1, <3>3, <3>4, <5>1 DEF CleanInv
        <5>4. p = q
          BY <3>2, <5>2, <5>3
        <5> QED BY <5>2, <5>3, <5>4
      <4>2. CASE \A p \in Callers : pc[p] # "joinWorker"
        BY <3>1, <3>4, <4>2 DEF CleanInv
      <4> QED BY <4>1, <4>2
    <3>5. ASSUME NEW j \in Listeners, NEW k \in Listeners, Live(listener[j]), Live(listener[k])
          PROVE  j = k
      <4>1. CASE \E p \in Callers : pc[p] = "joinWake"
        <5>1. listenThread = None
          BY <3>1, <4>1 DEF CleanInv
        <5>2. PICK p \in Callers : pc[p] = "joinWake" /\ joining[p] = j
          BY <3>1, <3>3, <3>5, <5>1 DEF CleanInv
        <5>3. PICK q \in Callers : pc[q] = "joinWake" /\ joining[q] = k
          BY <3>1, <3>3, <3>5, <5>1 DEF CleanInv
        <5>4. p = q
          BY <3>2, <5>2, <5>3
        <5> QED BY <5>2, <5>3, <5>4
      <4>2. CASE \A p \in Callers : pc[p] # "joinWake"
        BY <3>1, <3>5, <4>2 DEF CleanInv
      <4> QED BY <4>1, <4>2
    <3>6. ASSUME \A p \in Callers : pc[p] \notin StartLabels \cup StopLabels
          PROVE  /\ inUse = leaked + (IF slotAcquired THEN 1 ELSE 0)
                 /\ Registered(worker, workThread) => slotAcquired
                 /\ slotAcquired => workThread # None
      <4>1. \A p \in Callers : pc[p] # "clearSlot" /\ ~Stopping(p)
        BY <3>6 DEF StopLabels, Stopping
      <4> QED BY <3>1, <4>1 DEF CleanInv
    <3> QED BY <2>1, <3>4, <3>5, <3>6 DEF OneWorkerPerSlot
  <2> QED BY <2>1, <2>3 DEF OneWorkerPerSlot
<1> QED BY <1>1, VoiceTypeInit, VoiceTypeNext, SlotInvInit, SlotInvNext, PTL DEF VoiceSpec
=============================================================================
