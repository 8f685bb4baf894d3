-------------------------- MODULE VoiceOrderProofs --------------------------
(***************************************************************************)
(* The utterances and their transcripts, for every queue and buffer size,  *)
(* number of threads and load: transcripts stay in the order of their      *)
(* utterances, and how far the identity may run ahead of the transcript.   *)
(***************************************************************************)
EXTENDS VoicePipelineProofs

(* Zenon tries every leaf that names no other prover.                      *)
USE Zenon

-----------------------------------------------------------------------------
(* The invariants.                                                         *)

\* Whether main holds an utterance it has not put on the queue yet, and
\* whether it waits for or holds a transcript.
Offering == pc["main"] \in {"submit", "put"}

Waiting == pc["main"] \in {"get", "handle"}

\* The chunks in the buffer, the utterances submitted and the one in main's
\* hands are in the order the microphone delivered them.
StreamInv ==
    /\ \A i, j \in DOMAIN buffer : i < j => buffer[i] < buffer[j]
    /\ \A i \in DOMAIN buffer : buffer[i] \in 1..heard
    /\ \A i, j \in DOMAIN submitted : i < j => submitted[i] < submitted[j]
    /\ \A j \in DOMAIN submitted : submitted[j] \in 1..heard
    /\ \A j \in DOMAIN submitted, i \in DOMAIN buffer : submitted[j] < buffer[i]
    /\ Offering => /\ audio \in 1..heard
                   /\ \A j \in DOMAIN submitted : submitted[j] < audio
                   /\ \A i \in DOMAIN buffer : audio < buffer[i]

\* x was put on the audio queue.
WasSubmitted(x) == \E j \in DOMAIN submitted : submitted[j] = x

\* Worker w has an utterance or its text.
Holding(w) == worker[w].at \in {"asr", "check", "enqueue"}

\* What the queues, the workers and main hold was submitted.
SourceInv ==
    /\ \A k \in DOMAIN audioQ.items : WasSubmitted(audioQ.items[k])
    /\ \A k \in DOMAIN textQ.items : WasSubmitted(textQ.items[k])
    /\ \A w \in Workers : Holding(w) => WasSubmitted(worker[w].holds)
    /\ Waiting => WasSubmitted(audio)
    /\ pc["main"] = "handle" => WasSubmitted(text)

\* Every wait that ended has timed out or was handled, and a handled
\* transcript lags behind its identity by no more than the waits that timed
\* out: the i-th one is of the i-th or a later submission.
LagInv ==
    /\ Len(submitted) = timeouts + Len(handled) + (IF Waiting THEN 1 ELSE 0)
    /\ \A i \in DOMAIN handled : \E a, b \in DOMAIN submitted :
         /\ submitted[a] = handled[i].text /\ a >= i
         /\ submitted[b] = handled[i].identity /\ b - a <= timeouts

\* x is newer than every transcript that was handled, is in main's hands or
\* waits in the queue.
Newer(x) ==
    /\ \A i \in DOMAIN handled : handled[i].text < x
    /\ pc["main"] = "handle" => text < x
    /\ \A k \in DOMAIN textQ.items : textQ.items[k] < x

\* The transcripts that left the workers are in order, and at most one
\* worker is past the test for a closed queue, with a newer one.
TextInv ==
    /\ \A i, j \in DOMAIN handled : i < j => handled[i].text < handled[j].text
    /\ \A i, j \in DOMAIN textQ.items : i < j => textQ.items[i] < textQ.items[j]
    /\ \A i \in DOMAIN handled, k \in DOMAIN textQ.items : handled[i].text < textQ.items[k]
    /\ pc["main"] = "handle" =>
         /\ \A i \in DOMAIN handled : handled[i].text < text
         /\ \A k \in DOMAIN textQ.items : text < textQ.items[k]
    /\ \A w \in Workers : worker[w].at = "enqueue" => Newer(worker[w].holds)
    /\ \A v, w \in Workers : worker[v].at = "enqueue" /\ worker[w].at = "enqueue" => v = w

\* Until the first stop() of the worker closes the queues there is one
\* worker, and all that is on its way to it is in order and newer.
OpenInv ==
    ~textQ.closed =>
        /\ \A w \in Workers : Live(worker[w]) => w = workThread
        /\ \A w \in Workers : Holding(w) =>
             /\ Newer(worker[w].holds)
             /\ \A k \in DOMAIN audioQ.items : worker[w].holds < audioQ.items[k]
        /\ \A k \in DOMAIN audioQ.items : Newer(audioQ.items[k])
        /\ \A i, j \in DOMAIN audioQ.items : i < j => audioQ.items[i] < audioQ.items[j]

\* The inductive invariant of the order.
OrderInv == StreamInv /\ SourceInv /\ LagInv /\ TextInv /\ OpenInv

-----------------------------------------------------------------------------
(* The order of utterances and transcripts.                                *)

\* The steps that handle no utterance: start() and stop(), the beginning of
\* run_once up to the wake word, and the power thread.
Elsewhere ==
    \/ \E p \in Callers : Engines(p)
    \/ RunOnce \/ StartStream \/ CheckDevice \/ WaitForWake \/ SessionStopped
    \/ SessionStop \/ EnterSleep \/ Asleep \/ Wake

\* The labels of run_once at which it has an utterance.
Carrying == {"submit", "put", "get", "handle"}

\* Those steps move main only between labels at which it has no utterance.
LEMMA ElsewherePhase ==
    ASSUME VoiceType, Elsewhere
    PROVE  \/ pc'["main"] = pc["main"]
           \/ pc["main"] \notin Carrying /\ pc'["main"] \notin Carrying
<1>1. PICK p, l, ok : /\ p \in Callers /\ Goto(p, l, ok)
                      /\ l \notin Carrying /\ pc[p] \notin Carrying
  <2>1. ASSUME NEW p \in Callers, Engines(p)
        PROVE  \E l, ok : /\ Goto(p, l, ok)
                          /\ l \notin Carrying /\ pc[p] \notin Carrying
    <3>1. CASE StartWorker(p)
      BY <3>1 DEF StartWorker, KeepWorker, NoSlot, SpawnWorker, WorkerStarted, Carrying
    <3>2. CASE StartWake(p) \/ StopWake(p) \/ JoinWake(p) \/ ClearWake(p)
      BY <3>2 DEF StartWake, StopWake, JoinWake, ClearWake, Carrying
    <3>3. CASE StopWorker(p) \/ JoinWorker(p) \/ ReleaseSlot(p) \/ ClearSlot(p)
      BY <3>3 DEF StopWorker, JoinWorker, ReleaseSlot, ClearSlot, Carrying
    <3> QED BY <2>1, <3>1, <3>2, <3>3 DEF Engines
  <2>2. CASE RunOnce \/ StartStream \/ CheckDevice \/ WaitForWake \/ SessionStopped
    BY <2>2 DEF RunOnce, StartStream, CheckDevice, WaitForWake, SessionStopped, Callers, Carrying
  <2>3. CASE SessionStop \/ EnterSleep \/ Asleep \/ Wake
    BY <2>3 DEF SessionStop, EnterSleep, Asleep, Wake, Callers, Carrying
  <2> QED BY <2>1, <2>2, <2>3 DEF Elsewhere
<1>2. pc' = [pc EXCEPT ![p] = l]
  BY <1>1 DEF Goto
<1>3. pc \in [Callers -> Labels] /\ "main" \in Callers
  BY DEF VoiceType, Callers
<1> QED BY <1>1, <1>2, <1>3

\* Those steps leave the contents of the queues and the histories alone,
\* and what main holds.
LEMMA ElsewhereFacts ==
    ASSUME VoiceType, Elsewhere
    PROVE  /\ UNCHANGED <<heard, submitted, handled, timeouts>>
           /\ audioQ'.items = audioQ.items /\ textQ'.items = textQ.items
           /\ textQ.closed => textQ'.closed
           /\ buffer' = buffer \/ buffer' = <<>>
           /\ Offering' <=> Offering
           /\ Waiting' <=> Waiting
           /\ pc'["main"] = "handle" <=> pc["main"] = "handle"
           /\ Offering \/ Waiting => UNCHANGED <<audio, text>>
<1>1. /\ Offering' <=> Offering
      /\ Waiting' <=> Waiting
      /\ pc'["main"] = "handle" <=> pc["main"] = "handle"
  BY ElsewherePhase DEF Carrying, Offering, Waiting
<1>2. UNCHANGED <<heard, submitted, handled, timeouts>>
  <2>1. ASSUME NEW p \in Callers, Engines(p)
        PROVE  UNCHANGED <<heard, submitted, handled, timeouts>>
    BY <2>1 DEF Engines, StartWorker, StartWake, StopWake, JoinWake, ClearWake, StopWorker,
       JoinWorker, ReleaseSlot, ClearSlot, stream, history
  <2>2. CASE ~ \E p \in Callers : Engines(p)
    BY <2>2 DEF Elsewhere, RunOnce, StartStream, CheckDevice, WaitForWake, SessionStopped,
       SessionStop, EnterSleep, Asleep, Wake, stream, history
  <2> QED BY <2>1, <2>2
<1>3. /\ audioQ'.items = audioQ.items /\ textQ'.items = textQ.items
      /\ textQ.closed => textQ'.closed
  <2>1. audioQ \in Queue /\ textQ \in Queue
    BY DEF VoiceType
  <2>2. CASE UNCHANGED queues
    BY <2>2 DEF queues
  <2>3. ASSUME NEW p \in Callers, Engines(p), ~UNCHANGED queues
        PROVE  /\ audioQ' = [audioQ EXCEPT !.closed = TRUE]
               /\ textQ' = [textQ EXCEPT !.closed = TRUE]
    BY <2>3 DEF Engines, StartWorker, StartWake, StopWake, JoinWake, ClearWake, StopWorker,
       JoinWorker, ReleaseSlot, ClearSlot
  <2>4. CASE ~ \E p \in Callers : Engines(p)
    <3>1. UNCHANGED queues
      BY <2>4 DEF Elsewhere, RunOnce, StartStream, CheckDevice, WaitForWake, SessionStopped,
         SessionStop, EnterSleep, Asleep, Wake
    <3> QED BY <2>2, <3>1
  <2>5. CASE \E p \in Callers : Engines(p)
    <3>1. CASE ~UNCHANGED queues
      <4>1. /\ audioQ' = [audioQ EXCEPT !.closed = TRUE]
            /\ textQ' = [textQ EXCEPT !.closed = TRUE]
        BY <2>3, <2>5, <3>1
      <4> QED BY <2>1, <4>1 DEF Queue
    <3> QED BY <2>2, <3>1
  <2> QED BY <2>4, <2>5
<1>4. buffer' = buffer \/ buffer' = <<>>
  <2>1. ASSUME NEW p \in Callers, Engines(p)
        PROVE  buffer' = buffer \/ buffer' = <<>>
    BY <2>1 DEF Engines, StartWorker, KeepWorker, NoSlot, SpawnWorker, WorkerStarted,
       StartWake, StopWake, JoinWake, ClearWake, StopWorker,
       JoinWorker, ReleaseSlot, ClearSlot, stream
  <2>2. CASE ~ \E p \in Callers : Engines(p)
    BY <2>2 DEF Elsewhere, RunOnce, StartStream, CheckDevice, WaitForWake, SessionStopped,
       SessionStop, EnterSleep, Asleep, Wake, stream
  <2> QED BY <2>1, <2>2
<1>5. Offering \/ Waiting => UNCHANGED <<audio, text>>
  <2>1. ASSUME NEW p \in Callers, Engines(p)
        PROVE  UNCHANGED <<audio, text>>
    BY <2>1 DEF Engines, StartWorker, StartWake, StopWake, JoinWake, ClearWake, StopWorker,
       JoinWorker, ReleaseSlot, ClearSlot, session
  <2>2. CASE ~ \E p \in Callers : Engines(p)
    BY <2>2 DEF Elsewhere, RunOnce, StartStream, CheckDevice, WaitForWake, SessionStopped,
       SessionStop, EnterSleep, Asleep, Wake, session, Offering, Waiting
  <2> QED BY <2>1, <2>2
<1> QED BY <1>1, <1>2, <1>3, <1>4, <1>5

\* Where a move of main takes it.
LEMMA MainGoes ==
    ASSUME VoiceType, NEW l, NEW ok, Goto("main", l, ok)
    PROVE  pc'["main"] = l
BY DEF Goto, VoiceType, Callers

\* The elements of a sequence without its first one.
LEMMA TailFacts ==
    ASSUME NEW S, NEW s \in Seq(S), s # <<>>
    PROVE  /\ Tail(s) \in Seq(S) /\ Head(s) = s[1] /\ Head(s) \in S
           /\ 1 \in DOMAIN s
           /\ DOMAIN s \subseteq Nat
           /\ DOMAIN Tail(s) \subseteq Nat
           /\ \A i \in DOMAIN Tail(s) : i + 1 \in DOMAIN s /\ 1 < i + 1 /\ Tail(s)[i] = s[i + 1]
<1>1. Tail(s) \in Seq(S) /\ Len(Tail(s)) = Len(s) - 1 /\ Head(s) = s[1] /\ Head(s) \in S
  BY SeqHeadTail, SMT
<1>2. Len(s) \in Nat /\ Len(s) # 0
  BY SeqEmpty
<1>3. \A i \in 1..Len(Tail(s)) : Tail(s)[i] = s[i + 1]
  BY SeqHeadTail
<1>4. DOMAIN s = 1..Len(s) /\ DOMAIN Tail(s) = 1..Len(Tail(s))
  BY <1>1, SeqLength
<1> QED BY <1>1, <1>2, <1>3, <1>4, SMT

\* The elements of a sequence with one more at its end.
LEMMA AppendFacts ==
    ASSUME NEW S, NEW s \in Seq(S), NEW x \in S
    PROVE  /\ Append(s, x) \in Seq(S) /\ Len(Append(s, x)) = Len(s) + 1
           /\ DOMAIN s \subseteq Nat /\ Len(s) + 1 \notin DOMAIN s
           /\ DOMAIN Append(s, x) = DOMAIN s \cup {Len(s) + 1}
           /\ Append(s, x)[Len(s) + 1] = x
           /\ \A i \in DOMAIN s : i < Len(s) + 1 /\ Append(s, x)[i] = s[i]
           /\ s \o <<x>> = Append(s, x)
<1>1. /\ Append(s, x) \in Seq(S) /\ Len(Append(s, x)) = Len(s) + 1
      /\ Append(s, x)[Len(s) + 1] = x
      /\ \A i \in 1..Len(s) : Append(s, x)[i] = s[i]
  BY SeqAppend, SMT
<1>2. Len(s) \in Nat /\ DOMAIN s = 1..Len(s) /\ DOMAIN Append(s, x) = 1..Len(s) + 1
  BY <1>1, SeqLength
<1>3. s \o <<x>> = Append(s, x)
  BY SeqAppendConcat
<1> QED BY <1>1, <1>2, <1>3, SMT

\* What is left of the buffer after one chunk was taken, and the chunk.
LEMMA ReadFacts ==
    ASSUME VoiceType, StreamInv
    PROVE  /\ \A i \in DOMAIN AfterRead : \E j \in DOMAIN buffer : AfterRead[i] = buffer[j]
           /\ \A i, j \in DOMAIN AfterRead : i < j => AfterRead[i] < AfterRead[j]
           /\ ReadChunk # None => /\ \E i \in DOMAIN buffer : ReadChunk = buffer[i]
                                  /\ \A i \in DOMAIN AfterRead : ReadChunk < AfterRead[i]
<1>1. CASE streaming /\ buffer # <<>>
  <2>1. AfterRead = Tail(buffer) /\ ReadChunk = Head(buffer)
    BY <1>1 DEF AfterRead, ReadChunk
  <2>2. buffer \in Seq(Nat)
    BY DEF VoiceType
  <2>3. /\ buffer[1] = Head(buffer) /\ 1 \in DOMAIN buffer
        /\ DOMAIN buffer \subseteq Nat /\ DOMAIN Tail(buffer) \subseteq Nat
        /\ \A i \in DOMAIN Tail(buffer) :
             i + 1 \in DOMAIN buffer /\ 1 < i + 1 /\ Tail(buffer)[i] = buffer[i + 1]
    BY <1>1, <2>2, TailFacts
  <2>4. \A i, j \in DOMAIN buffer : i < j => buffer[i] < buffer[j]
    BY DEF StreamInv
  <2> QED BY <2>1, <2>3, <2>4, SMT
<1>2. CASE ~(streaming /\ buffer # <<>>)
  BY <1>2 DEF AfterRead, ReadChunk, StreamInv, None
<1> QED BY <1>1, <1>2

\* Chunks and submissions stay in order.
LEMMA StreamInvNext ==
    ASSUME VoiceType, StreamInv, VoiceNext
    PROVE  StreamInv'
<1>a. buffer \in Seq(Nat) /\ heard \in Nat /\ submitted \in Seq(Nat) /\ audio \in Nat
  BY DEF VoiceType
<1>1. CASE Elsewhere
  <2>1. /\ UNCHANGED <<heard, submitted>>
        /\ buffer' = buffer \/ buffer' = <<>>
        /\ Offering' <=> Offering
        /\ Offering => audio' = audio
    BY <1>1, ElsewhereFacts
  <2>2. DOMAIN <<>> = {}
    BY SMT
  <2>3. CASE buffer' = buffer
    BY <2>1, <2>3 DEF StreamInv
  <2>4. CASE buffer' = <<>>
    BY <2>1, <2>2, <2>4 DEF StreamInv
  <2> QED BY <2>1, <2>3, <2>4
<1>2. CASE PushChunk
  <2>0. /\ heard' = heard + 1 /\ UNCHANGED <<submitted, audio, pc, streaming>>
        /\ buffer' = IF ~streaming THEN buffer
                     ELSE (IF Len(buffer) = BufferChunks THEN Tail(buffer) ELSE buffer)
                          \o <<heard + 1>>
    BY <1>2 DEF PushChunk, session, history
  <2>1. Offering' <=> Offering
    BY <2>0 DEF Offering
  <2>2. CASE ~streaming
    BY <1>a, <2>0, <2>1, <2>2, SMT DEF StreamInv
  <2>3. CASE streaming
    <3>1. PICK b \in Seq(Nat) :
             /\ buffer' = b \o <<heard + 1>>
             /\ \A i \in DOMAIN b : \E j \in DOMAIN buffer : b[i] = buffer[j]
             /\ \A i, j \in DOMAIN b : i < j => b[i] < b[j]
      <4>1. CASE Len(buffer) = BufferChunks
        <5>1. buffer # <<>>
          BY <1>a, <4>1, VoiceAssumption, SeqEmpty
        <5>2. AfterRead = Tail(buffer) /\ Tail(buffer) \in Seq(Nat)
          BY <1>a, <2>3, <5>1, SeqHeadTail DEF AfterRead
        <5> QED BY <2>0, <2>3, <4>1, <5>2, ReadFacts
      <4>2. CASE Len(buffer) # BufferChunks
        BY <1>a, <2>0, <2>3, <4>2 DEF StreamInv
      <4> QED BY <4>1, <4>2
    <3>2. heard + 1 \in Nat
      BY <1>a, SMT
    <3>3. /\ buffer' = Append(b, heard + 1)
          /\ DOMAIN buffer' = DOMAIN b \cup {Len(b) + 1} /\ Len(b) + 1 \notin DOMAIN b
          /\ DOMAIN b \subseteq Nat
          /\ buffer'[Len(b) + 1] = heard + 1
          /\ \A i \in DOMAIN b : i < Len(b) + 1 /\ buffer'[i] = b[i]
      BY <3>1, <3>2, AppendFacts, SMT
    <3>4. \A i \in DOMAIN b : b[i] \in 1..heard
      BY <3>1 DEF StreamInv
    <3>5. \A i \in DOMAIN b, j \in DOMAIN submitted : submitted[j] < b[i]
      BY <3>1 DEF StreamInv
    <3>6. Offering => \A i \in DOMAIN b : audio < b[i]
      BY <3>1 DEF StreamInv
    <3>7. \A i, j \in DOMAIN buffer' : i < j => buffer'[i] < buffer'[j]
      <4> HIDE DEF StreamInv
      <4>1. Len(b) \in Nat
        BY <3>1, SeqLength
      <4>2. ASSUME NEW i \in DOMAIN b PROVE buffer'[i] < buffer'[Len(b) + 1]
        <5>1. b[i] \in 1..heard /\ buffer'[i] = b[i] /\ buffer'[Len(b) + 1] = heard + 1
          BY <3>3, <3>4
        <5> QED BY <1>a, <5>1, SMT
      <4>3. ASSUME NEW i \in DOMAIN b PROVE ~(Len(b) + 1 < i)
        <5>1. i \in Nat /\ i < Len(b) + 1
          BY <3>3
        <5> QED BY <4>1, <5>1, SMT
      <4>4. ~(Len(b) + 1 < Len(b) + 1)
        BY <4>1, SMT
      <4> QED BY <3>1, <3>3, <4>2, <4>3, <4>4
    <3>8. \A i \in DOMAIN buffer' : buffer'[i] \in 1..heard'
      <4>1. \A i \in DOMAIN b : buffer'[i] \in 1..heard
        BY <3>3, <3>4
      <4>2. buffer'[Len(b) + 1] \in 1..(heard + 1) /\ 1..heard \subseteq 1..(heard + 1)
        BY <1>a, <3>3, SMT
      <4>3. heard' = heard + 1 /\ DOMAIN buffer' = DOMAIN b \cup {Len(b) + 1}
        BY <2>0, <3>3
      <4> QED BY <4>1, <4>2, <4>3
    <3>9. \A j \in DOMAIN submitted, i \in DOMAIN buffer' : submitted[j] < buffer'[i]
      BY <1>a, <3>3, <3>5, SMTT(20) DEF StreamInv
    <3>10. Offering => audio \in 1..heard' /\ \A i \in DOMAIN buffer' : audio < buffer'[i]
      <4>1. SUFFICES ASSUME Offering
                     PROVE  audio \in 1..heard' /\ \A i \in DOMAIN buffer' : audio < buffer'[i]
        OBVIOUS
      <4>2. audio \in 1..heard
        BY <4>1 DEF StreamInv
      <4>3. heard' = heard + 1 /\ DOMAIN buffer' = DOMAIN b \cup {Len(b) + 1}
        BY <2>0, <3>3
      <4>4. audio < buffer'[Len(b) + 1] /\ audio \in 1..(heard + 1)
        BY <1>a, <3>3, <4>2, SMT
      <4>5. \A i \in DOMAIN b : audio < buffer'[i]
        BY <3>3, <3>6, <4>1
      <4> QED BY <4>3, <4>4, <4>5
    <3>11. \A j \in DOMAIN submitted : submitted[j] \in 1..heard'
      BY <1>a, <2>0, SMT DEF StreamInv
    <3> QED BY <2>0, <2>1, <3>7, <3>8, <3>9, <3>10, <3>11 DEF StreamInv
  <2> QED BY <2>2, <2>3
<1>3. ASSUME UNCHANGED <<heard, submitted, audio>>, Offering' <=> Offering,
             buffer' = buffer \/ buffer' = AfterRead
      PROVE  StreamInv'
  BY <1>3, ReadFacts DEF StreamInv
<1>4. ASSUME NEW k \in Listeners, ListenerStep(k) PROVE StreamInv'
  BY <1>3, <1>4
     DEF ListenerStep, ListenerTurn, ListenerSignals, session, stream, history, Offering
<1>5. ASSUME NEW w \in Workers, WorkerStep(w) \/ WorkerDies(w) PROVE StreamInv'
  <2>1. WorkerOnly
    BY <1>5 DEF WorkerStep, WorkerTop, WorkerTakes, WorkerTranscribes, WorkerChecks,
       WorkerEnqueues, WorkerDies
  <2> QED BY <1>3, <2>1 DEF WorkerOnly, session, stream, history, Offering
<1>6. CASE ReadUtterance
  <2>1. /\ buffer' = AfterRead /\ audio' = ReadChunk /\ UNCHANGED <<heard, submitted>>
        /\ pc'["main"] = IF ReadChunk = None THEN "idle" ELSE "submit"
    BY <1>6, MainGoes DEF ReadUtterance, history
  <2>2. Offering' <=> ReadChunk # None
    BY <2>1 DEF Offering
  <2> QED BY <2>1, <2>2, ReadFacts DEF StreamInv
<1>7. CASE SubmitAudio
  <2>1. UNCHANGED <<buffer, heard, submitted, audio>> /\ Offering
    BY <1>7 DEF SubmitAudio, session, stream, history, Offering
  <2> QED BY <2>1 DEF StreamInv
<1>8. CASE PutAudio
  <2>1. UNCHANGED <<buffer, heard, audio>> /\ Offering /\ ~Offering'
    <3>1. pc'["main"] \in {"get", "idle"}
      BY <1>8, MainGoes DEF PutAudio
    <3> QED BY <1>8, <3>1 DEF PutAudio, session, stream, Offering
  <2>2. CASE submitted' = submitted
    BY <2>1, <2>2 DEF StreamInv
  <2>3. CASE submitted' = Append(submitted, audio)
    <3>1. /\ DOMAIN submitted' = DOMAIN submitted \cup {Len(submitted) + 1}
          /\ Len(submitted) + 1 \notin DOMAIN submitted /\ DOMAIN submitted \subseteq Nat
          /\ submitted'[Len(submitted) + 1] = audio
          /\ \A i \in DOMAIN submitted : i < Len(submitted) + 1 /\ submitted'[i] = submitted[i]
      BY <1>a, <2>3, AppendFacts, SMTT(20)
    <3>2. Len(submitted) \in Nat
      BY <1>a, SeqLength
    <3>3. \A i, j \in DOMAIN submitted' : i < j => submitted'[i] < submitted'[j]
      BY <2>1, <3>1, <3>2, SMT DEF StreamInv
    <3>4. \A j \in DOMAIN submitted' : /\ submitted'[j] \in 1..heard
                                       /\ \A i \in DOMAIN buffer : submitted'[j] < buffer[i]
      BY <2>1, <3>1 DEF StreamInv
    <3> QED BY <2>1, <3>3, <3>4 DEF StreamInv
  <2> QED BY <1>8, <2>2, <2>3 DEF PutAudio
<1>9. CASE GetTranscription \/ HandleInput
  <2>1. pc'["main"] \in {"idle", "handle"}
    BY <1>9, MainGoes DEF GetTranscription, HandleInput
  <2>2. UNCHANGED <<buffer, heard, submitted>> /\ ~Offering'
    BY <1>9, <2>1 DEF GetTranscription, HandleInput, stream, Offering
  <2> QED BY <2>2 DEF StreamInv
<1> QED BY <1>1, <1>2, <1>4, <1>5, <1>6, <1>7, <1>8, <1>9 DEF VoiceNext, SessionStep, Elsewhere

\* What a step of worker w does to what it holds and to the queues.
LEMMA WorkerFacts ==
    ASSUME VoiceType, NEW w \in Workers, WorkerStep(w) \/ WorkerDies(w)
    PROVE  /\ UNCHANGED <<pc, audio, text, submitted, handled, timeouts, workThread>>
           /\ \A v \in Workers : v # w => worker'[v] = worker[v]
           /\ Live(worker[w]) /\ textQ'.closed = textQ.closed
           /\ \/ ~Holding(w)' /\ UNCHANGED queues
              \/ /\ audioQ.items # <<>> /\ worker'[w] = [at |-> "asr", holds |-> Head(audioQ.items)]
                 /\ audioQ'.items = Tail(audioQ.items) /\ UNCHANGED textQ
              \/ /\ worker[w].at = "asr" /\ UNCHANGED queues
                 /\ worker'[w] = [at |-> "check", holds |-> worker[w].holds]
              \/ /\ worker[w].at = "check" /\ ~textQ.closed /\ UNCHANGED queues
                 /\ worker'[w] = [at |-> "enqueue", holds |-> worker[w].holds]
              \/ /\ worker[w].at = "enqueue" /\ ~Holding(w)' /\ UNCHANGED audioQ
                 /\ \/ textQ'.items = textQ.items
                    \/ textQ'.items = Append(textQ.items, worker[w].holds)
<1>a. worker \in [Workers -> Thread] /\ audioQ \in Queue /\ textQ \in Queue
  BY DEF VoiceType
<1>1. UNCHANGED <<pc, audio, text, submitted, handled, timeouts, workThread>>
  <2>1. WorkerOnly
    BY DEF WorkerStep, WorkerTop, WorkerTakes, WorkerTranscribes, WorkerChecks,
       WorkerEnqueues, WorkerDies
  <2> QED BY <2>1 DEF WorkerOnly, session, history
<1>2. \A l, x : MoveWorker(w, l, x) =>
         /\ worker'[w] = [at |-> l, holds |-> x] /\ worker'[w].at = l
         /\ \A v \in Workers : v # w => worker'[v] = worker[v]
  BY <1>a, SMT DEF MoveWorker
<1>2a. MoveWorker(w, "top", None) => ~Holding(w)'
  BY <1>a, SMT DEF MoveWorker, Holding
<1>3. Live(worker[w])
  BY DEF WorkerStep, WorkerTop, WorkerTakes, WorkerTranscribes, WorkerChecks,
     WorkerEnqueues, WorkerDies, Live
<1>4. CASE WorkerTop(w) \/ WorkerDies(w)
  <2>1. PICK l \in {"top", "take", "done"} : MoveWorker(w, l, None)
    BY <1>4 DEF WorkerTop, WorkerDies
  <2>2. UNCHANGED queues
    BY <1>4 DEF WorkerTop, WorkerDies
  <2>3. ~Holding(w)'
    BY <1>2, <2>1 DEF Holding
  <2> QED BY <1>1, <1>2, <1>3, <2>1, <2>2, <2>3 DEF queues
<1>5. CASE WorkerTakes(w)
  <2>1. CASE audioQ.items = <<>>
    <3>1. MoveWorker(w, "top", None) /\ UNCHANGED queues
      BY <1>5, <2>1 DEF WorkerTakes, queues
    <3>2. ~Holding(w)'
      BY <1>2a, <3>1
    <3> QED BY <1>1, <1>2, <1>3, <3>1, <3>2 DEF queues
  <2>2. CASE audioQ.items # <<>>
    <3>1. MoveWorker(w, "asr", Head(audioQ.items)) /\ UNCHANGED textQ
      BY <1>5, <2>2 DEF WorkerTakes
    <3>2. audioQ'.items = Tail(audioQ.items)
      BY <1>5, <1>a, <2>2 DEF WorkerTakes, Queue
    <3> QED BY <1>1, <1>2, <1>3, <2>2, <3>1, <3>2
  <2> QED BY <2>1, <2>2
<1>6. CASE WorkerTranscribes(w)
  <2>1. UNCHANGED queues /\ worker[w].at = "asr"
    BY <1>6 DEF WorkerTranscribes
  <2>2. CASE MoveWorker(w, "check", worker[w].holds)
    BY <1>1, <1>2, <1>3, <2>1, <2>2 DEF queues
  <2>3. CASE MoveWorker(w, "top", None)
    <3>1. ~Holding(w)'
      BY <1>2a, <2>3
    <3> QED BY <1>1, <1>2, <1>3, <2>1, <2>3, <3>1 DEF queues
  <2> QED BY <1>6, <2>2, <2>3 DEF WorkerTranscribes
<1>7. CASE WorkerChecks(w)
  <2>1. UNCHANGED queues /\ worker[w].at = "check"
    BY <1>7 DEF WorkerChecks
  <2>2. CASE textQ.closed
    <3>1. MoveWorker(w, "top", None)
      BY <1>7, <2>2 DEF WorkerChecks
    <3>2. ~Holding(w)'
      BY <1>2a, <3>1
    <3> QED BY <1>1, <1>2, <1>3, <2>1, <3>1, <3>2 DEF queues
  <2>3. CASE ~textQ.closed
    <3>1. MoveWorker(w, "enqueue", worker[w].holds)
      BY <1>7, <2>3 DEF WorkerChecks
    <3> QED BY <1>1, <1>2, <1>3, <2>1, <2>3, <3>1 DEF queues
  <2> QED BY <2>2, <2>3
<1>8. CASE WorkerEnqueues(w)
  <2>1. /\ MoveWorker(w, "top", None) /\ worker[w].at = "enqueue" /\ UNCHANGED audioQ
    BY <1>8 DEF WorkerEnqueues
  <2>2. /\ textQ'.closed = textQ.closed
        /\ \/ textQ'.items = textQ.items
           \/ textQ'.items = Append(textQ.items, worker[w].holds)
    BY <1>8, <1>a DEF WorkerEnqueues, Queue
  <2>3. ~Holding(w)'
    BY <1>2a, <2>1
  <2> QED BY <1>1, <1>2, <1>3, <2>1, <2>2, <2>3
<1> QED BY <1>4, <1>5, <1>6, <1>7, <1>8 DEF WorkerStep

\* What the steps that handle no utterance do to the workers: nothing, or
\* they close the queues, or they register a new one.
LEMMA ElsewhereWorkers ==
    ASSUME VoiceType, Elsewhere
    PROVE  \/ UNCHANGED <<worker, workThread, textQ>>
           \/ UNCHANGED worker /\ textQ'.closed
           \/ /\ ~Registered(worker, workThread) /\ UNCHANGED textQ
              /\ \E w \in Workers : /\ worker' = [worker EXCEPT ![w].at = "top"]
                                    /\ workThread' = w
<1>1. ASSUME NEW p \in Callers, StartWorker(p)
      PROVE  \/ UNCHANGED <<worker, workThread, textQ>>
             \/ /\ ~Registered(worker, workThread) /\ UNCHANGED textQ
                /\ \E w \in Workers : /\ worker' = [worker EXCEPT ![w].at = "top"]
                                      /\ workThread' = w
  <2>1. UNCHANGED textQ
    BY <1>1 DEF StartWorker, queues
  <2>2. CASE KeepWorker(p) \/ NoSlot(p)
    BY <2>1, <2>2 DEF KeepWorker, NoSlot, work
  <2>3. CASE ~Registered(worker, workThread) /\ SpawnWorker(p)
    <3>1. \E w \in Workers : /\ worker' = [worker EXCEPT ![w].at = "top"]
                             /\ workThread' = w
      BY <2>3 DEF SpawnWorker
    <3> QED BY <2>1, <2>3, <3>1
  <2> QED BY <1>1, <2>2, <2>3 DEF StartWorker
<1>2. ASSUME NEW p \in Callers, StopWorker(p)
      PROVE  UNCHANGED worker /\ textQ'.closed
  <2>1. textQ \in Queue
    BY DEF VoiceType
  <2> QED BY <1>2, <2>1 DEF StopWorker, Queue
<1>3. ASSUME NEW p \in Callers, Engines(p), ~StartWorker(p), ~StopWorker(p)
      PROVE  UNCHANGED <<worker, workThread, textQ>>
  BY <1>3 DEF Engines, StartWake, StopWake, JoinWake, ClearWake, JoinWorker, ReleaseSlot,
     ClearSlot, work, queues
<1>4. CASE ~ \E p \in Callers : Engines(p)
  BY <1>4 DEF Elsewhere, RunOnce, StartStream, CheckDevice, WaitForWake, SessionStopped,
     SessionStop, EnterSleep, Asleep, Wake, work, queues
<1> QED BY <1>1, <1>2, <1>3, <1>4

\* They give no worker anything.
LEMMA ElsewhereHolds ==
    ASSUME VoiceType, Elsewhere
    PROVE  \A w \in Workers : Holding(w)' => Holding(w) /\ worker'[w] = worker[w]
<1>1. worker \in [Workers -> Thread]
  BY DEF VoiceType
<1>2. CASE UNCHANGED worker
  BY <1>2 DEF Holding
<1>3. ASSUME NEW w \in Workers, worker' = [worker EXCEPT ![w].at = "top"]
      PROVE  \A v \in Workers : Holding(v)' => Holding(v) /\ worker'[v] = worker[v]
  BY <1>1, <1>3, SMT DEF Holding
<1> QED BY <1>2, <1>3, ElsewhereWorkers

\* The microphone and the wake-word threads touch neither queues nor workers.
LEMMA MicFacts ==
    ASSUME PushChunk \/ \E k \in Listeners : ListenerStep(k)
    PROVE  UNCHANGED <<pc, audio, text, submitted, handled, timeouts, worker, workThread,
                       audioQ, textQ>>
BY DEF PushChunk, ListenerStep, ListenerTurn, ListenerSignals, session, work, queues, history

\* The steps of run_once that handle an utterance: where they take main and
\* what they change.
LEMMA CarryFacts ==
    ASSUME VoiceType,
           ReadUtterance \/ SubmitAudio \/ PutAudio \/ GetTranscription \/ HandleInput
    PROVE  /\ UNCHANGED <<worker, workThread>>
           /\ textQ'.closed = textQ.closed
           /\ ReadUtterance \/ SubmitAudio =>
                /\ UNCHANGED <<text, submitted, handled, timeouts, audioQ, textQ>>
                /\ ~Waiting /\ ~Waiting' /\ pc["main"] # "handle" /\ pc'["main"] # "handle"
           /\ PutAudio =>
                /\ UNCHANGED <<audio, text, handled, timeouts, textQ>>
                /\ Offering /\ ~Waiting /\ pc["main"] # "handle" /\ pc'["main"] # "handle"
                /\ \/ UNCHANGED <<submitted, audioQ>> /\ ~Waiting'
                   \/ /\ submitted' = Append(submitted, audio) /\ Waiting'
                      /\ audioQ'.items = Append(audioQ.items, audio)
           /\ GetTranscription =>
                /\ UNCHANGED <<audio, submitted, handled, audioQ>>
                /\ Waiting /\ pc["main"] # "handle"
                /\ \/ /\ timeouts' = timeouts + 1 /\ UNCHANGED <<text, textQ>>
                      /\ ~Waiting' /\ pc'["main"] # "handle"
                   \/ /\ textQ.items # <<>> /\ UNCHANGED timeouts
                      /\ text' = Head(textQ.items) /\ textQ'.items = Tail(textQ.items)
                      /\ Waiting' /\ pc'["main"] = "handle"
           /\ HandleInput =>
                /\ UNCHANGED <<audio, text, submitted, timeouts, audioQ, textQ>>
                /\ Waiting /\ ~Waiting' /\ pc["main"] = "handle" /\ pc'["main"] # "handle"
                /\ handled' = Append(handled, [identity |-> audio, text |-> text])
<1>a. audioQ \in Queue /\ textQ \in Queue
  BY DEF VoiceType
<1>b. \A l : Goto("main", l, TRUE) => pc'["main"] = l
  BY MainGoes
<1>0. UNCHANGED <<worker, workThread>>
  BY DEF ReadUtterance, SubmitAudio, PutAudio, GetTranscription, HandleInput, work
<1>1. CASE ReadUtterance \/ SubmitAudio
  <2>1. /\ UNCHANGED <<text, submitted, handled, timeouts, audioQ, textQ>>
        /\ pc["main"] \in {"read", "submit"}
    BY <1>1 DEF ReadUtterance, SubmitAudio, session, queues, history
  <2>2. pc'["main"] \in {"idle", "submit", "put"}
    BY <1>1, <1>b DEF ReadUtterance, SubmitAudio
  <2>3. ~PutAudio /\ ~GetTranscription /\ ~HandleInput
    BY <2>1 DEF PutAudio, GetTranscription, HandleInput
  <2> QED BY <1>0, <2>1, <2>2, <2>3 DEF Waiting
<1>2. CASE PutAudio
  <2>1. pc["main"] = "put" /\ UNCHANGED <<audio, text, handled, timeouts, textQ>>
    BY <1>2 DEF PutAudio, session
  <2>2. ~ReadUtterance /\ ~SubmitAudio /\ ~GetTranscription /\ ~HandleInput
    BY <2>1 DEF ReadUtterance, SubmitAudio, GetTranscription, HandleInput
  <2>3. \/ UNCHANGED <<submitted, audioQ>> /\ pc'["main"] = "idle"
        \/ /\ submitted' = Append(submitted, audio) /\ pc'["main"] = "get"
           /\ audioQ'.items = Append(audioQ.items, audio)
    <3>1. CASE Len(audioQ.items) < QueueSize
      <4>1. Goto("main", "get", TRUE)
        BY <1>2, <3>1 DEF PutAudio
      <4> QED BY <1>2, <1>a, <3>1, <4>1, MainGoes DEF PutAudio, Queue
    <3>2. CASE ~(Len(audioQ.items) < QueueSize)
      <4>1. Goto("main", "idle", TRUE) /\ UNCHANGED <<submitted, audioQ>>
        BY <1>2, <3>2 DEF PutAudio
      <4> QED BY <4>1, MainGoes
    <3> QED BY <3>1, <3>2
  <2> QED BY <1>0, <2>1, <2>2, <2>3 DEF Waiting, Offering
<1>3. CASE GetTranscription
  <2>1. pc["main"] = "get" /\ UNCHANGED <<audio, submitted, handled, audioQ>>
    BY <1>3 DEF GetTranscription
  <2>2. ~ReadUtterance /\ ~SubmitAudio /\ ~PutAudio /\ ~HandleInput
    BY <2>1 DEF ReadUtterance, SubmitAudio, PutAudio, HandleInput
  <2>3. CASE textQ.items = <<>>
    <3>1. timeouts' = timeouts + 1 /\ UNCHANGED <<text, textQ>> /\ Goto("main", "idle", TRUE)
      BY <1>3, <2>3 DEF GetTranscription
    <3>2. pc'["main"] = "idle"
      BY <3>1, MainGoes
    <3> QED BY <1>0, <2>1, <2>2, <3>1, <3>2 DEF Waiting
  <2>4. CASE textQ.items # <<>>
    <3>1. /\ UNCHANGED timeouts /\ text' = Head(textQ.items) /\ Goto("main", "handle", TRUE)
          /\ textQ' = [textQ EXCEPT !.items = Tail(@)]
      BY <1>3, <2>4 DEF GetTranscription
    <3>2. pc'["main"] = "handle" /\ textQ'.items = Tail(textQ.items) /\ textQ'.closed = textQ.closed
      BY <1>a, <3>1, MainGoes DEF Queue
    <3> QED BY <1>0, <2>1, <2>2, <2>4, <3>1, <3>2 DEF Waiting
  <2> QED BY <2>3, <2>4
<1>4. CASE HandleInput
  <2>1. /\ pc["main"] = "handle" /\ UNCHANGED <<audio, text, submitted, timeouts, audioQ, textQ>>
        /\ handled' = Append(handled, [identity |-> audio, text |-> text])
        /\ Goto("main", "idle", TRUE)
    BY <1>4 DEF HandleInput, session, queues
  <2>2. ~ReadUtterance /\ ~SubmitAudio /\ ~PutAudio /\ ~GetTranscription
    BY <2>1 DEF ReadUtterance, SubmitAudio, PutAudio, GetTranscription
  <2>3. pc'["main"] = "idle"
    BY <2>1, MainGoes
  <2> QED BY <1>0, <2>1, <2>2, <2>3 DEF Waiting
<1> QED BY <1>1, <1>2, <1>3, <1>4

\* A submission is never taken back.
LEMMA SubmittedKept ==
    ASSUME VoiceType, NEW x, WasSubmitted(x),
           \/ submitted' = submitted
           \/ submitted' = Append(submitted, audio)
    PROVE  WasSubmitted(x)'
<1>1. CASE submitted' = submitted
  BY <1>1 DEF WasSubmitted
<1>2. CASE submitted' = Append(submitted, audio)
  <2>1. submitted \in Seq(Nat) /\ audio \in Nat
    BY DEF VoiceType
  <2>2. /\ DOMAIN submitted' = DOMAIN submitted \cup {Len(submitted) + 1}
        /\ \A i \in DOMAIN submitted : submitted'[i] = submitted[i]
    BY <1>2, <2>1, AppendFacts, SMTT(20)
  <2> QED BY <2>2 DEF WasSubmitted
<1> QED BY <1>1, <1>2

\* What the queues, the workers and main hold was submitted.
LEMMA SourceInvNext ==
    ASSUME VoiceType, SourceInv, VoiceNext
    PROVE  SourceInv'
<1>a. /\ audioQ.items \in Seq(Nat) /\ textQ.items \in Seq(Nat) /\ audio \in Nat
      /\ submitted \in Seq(Nat) /\ \A w \in Workers : worker[w].holds \in Nat
  BY DEF VoiceType, Queue, Thread
<1>1. CASE Elsewhere
  <2>1. /\ UNCHANGED submitted
        /\ audioQ'.items = audioQ.items /\ textQ'.items = textQ.items
        /\ Waiting' <=> Waiting
        /\ pc'["main"] = "handle" <=> pc["main"] = "handle"
        /\ Waiting => UNCHANGED <<audio, text>>
        /\ pc["main"] = "handle" => Waiting
    BY <1>1, ElsewhereFacts DEF Waiting
  <2>2. \A w \in Workers : Holding(w)' => Holding(w) /\ worker'[w] = worker[w]
    BY <1>1, ElsewhereHolds
  <2> QED BY <2>1, <2>2, SMT DEF SourceInv, WasSubmitted
<1>2. CASE PushChunk \/ \E k \in Listeners : ListenerStep(k)
  BY <1>2, MicFacts, SMT DEF SourceInv, WasSubmitted, Holding, Waiting
<1>3. ASSUME NEW w \in Workers, WorkerStep(w) \/ WorkerDies(w)
      PROVE  SourceInv'
  <2>1. /\ UNCHANGED <<pc, audio, text, submitted>>
        /\ \A v \in Workers : v # w => worker'[v] = worker[v]
    BY <1>3, WorkerFacts
  <2>2. \A x : WasSubmitted(x)' <=> WasSubmitted(x)
    BY <2>1 DEF WasSubmitted
  <2>3. \A v \in Workers : v # w /\ Holding(v)' => WasSubmitted(worker[v].holds)'
    BY <2>1, <2>2 DEF SourceInv, Holding
  <2>4. ASSUME Holding(w)' => WasSubmitted(worker[w].holds)',
               \A k \in DOMAIN audioQ'.items : WasSubmitted(audioQ'.items[k]),
               \A k \in DOMAIN textQ'.items : WasSubmitted(textQ'.items[k])
        PROVE  SourceInv'
    BY <2>1, <2>2, <2>3, <2>4 DEF SourceInv, Waiting
  <2>5. CASE ~Holding(w)' /\ UNCHANGED queues
    BY <2>4, <2>5 DEF queues, SourceInv
  <2>6. CASE /\ audioQ.items # <<>>
             /\ worker'[w] = [at |-> "asr", holds |-> Head(audioQ.items)]
             /\ audioQ'.items = Tail(audioQ.items) /\ UNCHANGED textQ
    <3>1. /\ WasSubmitted(Head(audioQ.items))
          /\ \A k \in DOMAIN Tail(audioQ.items) : WasSubmitted(Tail(audioQ.items)[k])
      BY <1>a, <2>6, TailFacts, SMT DEF SourceInv
    <3>2. worker'[w].holds = Head(audioQ.items)
      BY <2>6, SMT
    <3> QED BY <2>2, <2>4, <2>6, <3>1, <3>2 DEF SourceInv
  <2>7. CASE /\ Holding(w) /\ UNCHANGED queues /\ worker'[w].holds = worker[w].holds
    BY <2>2, <2>4, <2>7 DEF SourceInv, queues
  <2>8. CASE /\ worker[w].at = "enqueue" /\ ~Holding(w)' /\ UNCHANGED audioQ
             /\ \/ textQ'.items = textQ.items
                \/ textQ'.items = Append(textQ.items, worker[w].holds)
    <3>1. WasSubmitted(worker[w].holds)
      BY <2>8 DEF SourceInv, Holding
    <3>2. \A k \in DOMAIN textQ'.items : WasSubmitted(textQ'.items[k])
      <4>1. CASE textQ'.items = textQ.items
        BY <4>1 DEF SourceInv
      <4>2. CASE textQ'.items = Append(textQ.items, worker[w].holds)
        BY <1>a, <3>1, <4>2, AppendFacts, SMTT(20) DEF SourceInv
      <4> QED BY <2>8, <4>1, <4>2
    <3> QED BY <2>4, <2>8, <3>2 DEF SourceInv
  <2> QED
    <3>1. \/ worker[w].at = "asr" /\ worker'[w] = [at |-> "check", holds |-> worker[w].holds]
          \/ worker[w].at = "check" /\ worker'[w] = [at |-> "enqueue", holds |-> worker[w].holds]
          => Holding(w) /\ worker'[w].holds = worker[w].holds
      BY SMT DEF Holding
    <3> QED BY <1>3, <2>5, <2>6, <2>7, <2>8, <3>1, WorkerFacts
<1>4. CASE ReadUtterance \/ SubmitAudio
  BY <1>4, CarryFacts, SMT DEF SourceInv, WasSubmitted, Holding
<1>5. CASE PutAudio
  <2>1. /\ UNCHANGED <<audio, textQ, worker>> /\ pc'["main"] # "handle"
        /\ \/ UNCHANGED <<submitted, audioQ>> /\ ~Waiting'
           \/ /\ submitted' = Append(submitted, audio)
              /\ audioQ'.items = Append(audioQ.items, audio)
    BY <1>5, CarryFacts
  <2>2. \A x : WasSubmitted(x) => WasSubmitted(x)'
    BY <2>1, SubmittedKept
  <2>3. CASE UNCHANGED <<submitted, audioQ>> /\ ~Waiting'
    BY <2>1, <2>2, <2>3 DEF SourceInv, Holding
  <2>4. CASE submitted' = Append(submitted, audio) /\ audioQ'.items = Append(audioQ.items, audio)
    <3>1. WasSubmitted(audio)'
      BY <1>a, <2>1, <2>4, AppendFacts, SMT DEF WasSubmitted
    <3>2. \A k \in DOMAIN audioQ'.items : WasSubmitted(audioQ.items[k])'
      <4>1. /\ DOMAIN audioQ'.items = DOMAIN audioQ.items \cup {Len(audioQ.items) + 1}
            /\ audioQ'.items[Len(audioQ.items) + 1] = audio
            /\ \A i \in DOMAIN audioQ.items : audioQ'.items[i] = audioQ.items[i]
        <5> DEFINE s == audioQ.items
        <5>1. /\ DOMAIN Append(s, audio) = DOMAIN s \cup {Len(s) + 1}
              /\ Append(s, audio)[Len(s) + 1] = audio
              /\ \A i \in DOMAIN s : Append(s, audio)[i] = s[i]
          <6> HIDE DEF s
          <6>1. s \in Seq(Nat) /\ audio \in Nat
            BY <1>a DEF s
          <6> QED BY <6>1, AppendFacts, SMT
        <5> QED BY <2>4, <5>1
      <4> QED BY <2>1, <2>2, <3>1, <4>1 DEF SourceInv
    <3> QED BY <2>1, <2>2, <3>1, <3>2 DEF SourceInv, Holding
  <2> QED BY <2>1, <2>3, <2>4
<1>6. CASE GetTranscription
  <2>1. /\ UNCHANGED <<audio, submitted, worker, audioQ>> /\ Waiting
        /\ \/ UNCHANGED textQ /\ pc'["main"] # "handle"
           \/ /\ textQ.items # <<>>
              /\ text' = Head(textQ.items) /\ textQ'.items = Tail(textQ.items)
    BY <1>6, CarryFacts
  <2>2. CASE UNCHANGED textQ /\ pc'["main"] # "handle"
    BY <2>1, <2>2 DEF SourceInv, WasSubmitted, Holding
  <2>3. CASE /\ textQ.items # <<>>
             /\ text' = Head(textQ.items) /\ textQ'.items = Tail(textQ.items)
    <3>1. /\ WasSubmitted(text') /\ \A k \in DOMAIN textQ'.items : WasSubmitted(textQ'.items[k])
      BY <1>a, <2>3, TailFacts, SMT DEF SourceInv
    <3> QED BY <2>1, <3>1 DEF SourceInv, WasSubmitted, Holding
  <2> QED BY <2>1, <2>2, <2>3
<1>7. CASE HandleInput
  BY <1>7, CarryFacts, SMT DEF SourceInv, WasSubmitted, Holding
<1> QED BY <1>1, <1>2, <1>3, <1>4, <1>5, <1>6, <1>7 DEF VoiceNext, SessionStep, Elsewhere

\* A step that leaves the histories and the phase of main's wait alone keeps
\* LagInv.
LEMMA LagFrame ==
    ASSUME LagInv, UNCHANGED <<submitted, handled, timeouts>>, Waiting' <=> Waiting
    PROVE  LagInv'
BY DEF LagInv

\* The lag between a transcript and the identity it is handled under.
LEMMA LagInvNext ==
    ASSUME VoiceType, StreamInv, SourceInv, TextInv, LagInv, VoiceNext
    PROVE  LagInv'
<1>a. /\ submitted \in Seq(Nat) /\ handled \in Seq([identity : Nat, text : Nat])
      /\ audio \in Nat /\ text \in Nat /\ timeouts \in Nat
  BY DEF VoiceType
<1>b. /\ Len(submitted) \in Nat /\ DOMAIN submitted = 1..Len(submitted)
      /\ Len(handled) \in Nat /\ DOMAIN handled = 1..Len(handled)
  BY <1>a, SeqLength
<1>1. CASE Elsewhere
  BY <1>1, ElsewhereFacts, LagFrame
<1>2. CASE PushChunk \/ \E k \in Listeners : ListenerStep(k)
  BY <1>2, MicFacts, LagFrame DEF Waiting
<1>3. ASSUME NEW w \in Workers, WorkerStep(w) \/ WorkerDies(w)
      PROVE  LagInv'
  BY <1>3, WorkerFacts, LagFrame DEF Waiting
<1>4. CASE ReadUtterance \/ SubmitAudio
  BY <1>4, CarryFacts, LagFrame
<1>5. CASE PutAudio
  <2>1. /\ UNCHANGED <<handled, timeouts>> /\ ~Waiting
        /\ \/ UNCHANGED submitted /\ ~Waiting'
           \/ submitted' = Append(submitted, audio) /\ Waiting'
    BY <1>5, CarryFacts
  <2>2. CASE UNCHANGED submitted /\ ~Waiting'
    BY <2>1, <2>2, LagFrame
  <2>3. CASE submitted' = Append(submitted, audio) /\ Waiting'
    <3>1. /\ Len(submitted') = Len(submitted) + 1
          /\ DOMAIN submitted \subseteq DOMAIN submitted'
          /\ \A i \in DOMAIN submitted : submitted'[i] = submitted[i]
      BY <1>a, <2>3, AppendFacts, SMTT(20)
    <3>2. Len(submitted) = timeouts + Len(handled)
      BY <1>a, <1>b, <2>1, SMTT(20) DEF LagInv
    <3>3. Len(submitted') = timeouts' + Len(handled') + (IF Waiting' THEN 1 ELSE 0)
      BY <1>a, <1>b, <2>1, <2>3, <3>1, <3>2
    <3>4. ASSUME NEW i \in DOMAIN handled
          PROVE  \E a, b \in DOMAIN submitted' :
                   /\ submitted'[a] = handled[i].text /\ a >= i
                   /\ submitted'[b] = handled[i].identity /\ b - a <= timeouts
      <4>1. PICK a \in DOMAIN submitted, b \in DOMAIN submitted :
                   /\ submitted[a] = handled[i].text /\ a >= i
                   /\ submitted[b] = handled[i].identity /\ b - a <= timeouts
        BY DEF LagInv
      <4>2. a \in DOMAIN submitted' /\ b \in DOMAIN submitted'
            /\ submitted'[a] = submitted[a] /\ submitted'[b] = submitted[b]
        BY <3>1
      <4> QED BY <4>1, <4>2
    <3> QED BY <2>1, <3>3, <3>4 DEF LagInv
  <2> QED BY <2>1, <2>2, <2>3
<1>6. CASE GetTranscription
  <2>1. /\ UNCHANGED <<submitted, handled>> /\ Waiting
        /\ \/ timeouts' = timeouts + 1 /\ ~Waiting'
           \/ UNCHANGED timeouts /\ Waiting'
    BY <1>6, CarryFacts
  <2>2. CASE UNCHANGED timeouts /\ Waiting'
    BY <2>1, <2>2, LagFrame
  <2>3. CASE timeouts' = timeouts + 1 /\ ~Waiting'
    <3>1. Len(submitted) = timeouts + Len(handled) + 1
      BY <2>1 DEF LagInv
    <3>2. Len(submitted') = timeouts' + Len(handled') + (IF Waiting' THEN 1 ELSE 0)
      BY <1>a, <1>b, <2>1, <2>3, <3>1, SMT
    <3>3. ASSUME NEW i \in DOMAIN handled
          PROVE  \E a, b \in DOMAIN submitted :
                   /\ submitted[a] = handled[i].text /\ a >= i
                   /\ submitted[b] = handled[i].identity /\ b - a <= timeouts'
      <4>1. PICK a \in DOMAIN submitted, b \in DOMAIN submitted :
                   /\ submitted[a] = handled[i].text /\ a >= i
                   /\ submitted[b] = handled[i].identity /\ b - a <= timeouts
        BY DEF LagInv
      <4>2. b - a <= timeouts'
        BY <1>a, <1>b, <2>3, <4>1, SMT
      <4> QED BY <4>1, <4>2
    <3> QED BY <2>1, <3>2, <3>3 DEF LagInv
  <2> QED BY <2>1, <2>2, <2>3
<1>7. CASE HandleInput
  <2>1. /\ UNCHANGED <<submitted, timeouts>> /\ Waiting /\ ~Waiting' /\ pc["main"] = "handle"
        /\ handled' = Append(handled, [identity |-> audio, text |-> text])
    BY <1>7, CarryFacts
  <2>2. Len(submitted) = timeouts + Len(handled) + 1
    BY <2>1 DEF LagInv
  <2> DEFINE r == [identity |-> audio, text |-> text]
             n == Len(handled) + 1
  <2>3. r \in [identity : Nat, text : Nat] /\ r.text = text /\ r.identity = audio
    BY <1>a
  <2>4. handled' = Append(handled, r) /\ n \in Nat
    BY <1>b, <2>1, SMT
  <2> HIDE DEF r
  <2>5. /\ Len(handled') = n /\ DOMAIN handled' = DOMAIN handled \cup {n} /\ handled'[n] = r
        /\ \A i \in DOMAIN handled : handled'[i] = handled[i]
    BY <1>a, <2>3, <2>4, AppendFacts, SMTT(20)
  <2>6. \E a, b \in DOMAIN submitted :
          /\ submitted[a] = text /\ a >= n
          /\ submitted[b] = audio /\ b - a <= timeouts
    <3>1. PICK a \in DOMAIN submitted, b \in DOMAIN submitted :
             submitted[a] = text /\ submitted[b] = audio
      BY <2>1 DEF SourceInv, WasSubmitted
    <3>2. a >= n
      <4>1. CASE handled = <<>>
        BY <1>b, <4>1, SMT
      <4>2. CASE handled # <<>>
        <5>1. Len(handled) \in DOMAIN handled
          BY <1>a, <1>b, <4>2, SeqEmpty, SMT
        <5>2. PICK c \in DOMAIN submitted :
                 submitted[c] = handled[Len(handled)].text /\ c >= Len(handled)
          BY <5>1 DEF LagInv
        <5>3. handled[Len(handled)].text < text
          BY <2>1, <5>1 DEF TextInv
        <5>4. submitted[c] < submitted[a]
          BY <3>1, <5>2, <5>3
        <5>5. submitted[a] \in Nat /\ submitted[c] \in Nat
          BY <1>a, <1>b, SeqElement
        <5>6. c < a
          <6>1. CASE a = c
            BY <5>4, <5>5, <6>1, SMT
          <6>2. CASE a < c
            BY <5>4, <5>5, <6>2, SMT DEF StreamInv
          <6> QED BY <1>b, <6>1, <6>2, SMT
        <5> QED BY <1>b, <5>2, <5>6, SMT
      <4> QED BY <4>1, <4>2
    <3>3. b - a <= timeouts
      BY <1>a, <1>b, <2>2, <3>2, SMT
    <3> QED BY <3>1, <3>2, <3>3
  <2>7. \A i \in DOMAIN handled' : \E a, b \in DOMAIN submitted :
          /\ submitted[a] = handled'[i].text /\ a >= i
          /\ submitted[b] = handled'[i].identity /\ b - a <= timeouts
    <3> SUFFICES ASSUME NEW i \in DOMAIN handled'
                 PROVE  \E a, b \in DOMAIN submitted :
                          /\ submitted[a] = handled'[i].text /\ a >= i
                          /\ submitted[b] = handled'[i].identity /\ b - a <= timeouts
      OBVIOUS
    <3>1. CASE i \in DOMAIN handled
      BY <2>5, <3>1 DEF LagInv
    <3>2. CASE i = n
      BY <2>3, <2>5, <2>6, <3>2
    <3> QED BY <2>5, <3>1, <3>2
  <2>8. Len(submitted') = timeouts' + Len(handled') + (IF Waiting' THEN 1 ELSE 0)
    BY <1>a, <1>b, <2>1, <2>2, <2>5, SMTT(20)
  <2> QED BY <2>1, <2>7, <2>8 DEF LagInv
<1> QED BY <1>1, <1>2, <1>3, <1>4, <1>5, <1>6, <1>7 DEF VoiceNext, SessionStep, Elsewhere

\* No step of main or of the power thread makes a transcript as new as one
\* that was newer than all.
LEMMA NewerKept ==
    ASSUME VoiceType, NEW x, Newer(x),
           \/ Elsewhere
           \/ PushChunk \/ \E k \in Listeners : ListenerStep(k)
           \/ ReadUtterance \/ SubmitAudio \/ PutAudio \/ GetTranscription \/ HandleInput
    PROVE  Newer(x)'
<1>a. /\ textQ.items \in Seq(Nat) /\ handled \in Seq([identity : Nat, text : Nat])
      /\ audio \in Nat /\ text \in Nat
  BY DEF VoiceType, Queue
<1>1. ASSUME UNCHANGED handled, textQ'.items = textQ.items,
             pc'["main"] = "handle" => pc["main"] = "handle" /\ text' = text
      PROVE  Newer(x)'
  BY <1>1 DEF Newer
<1>2. CASE Elsewhere
  BY <1>1, <1>2, ElsewhereFacts DEF Waiting
<1>3. CASE PushChunk \/ \E k \in Listeners : ListenerStep(k)
  BY <1>1, <1>3, MicFacts
<1>4. CASE ReadUtterance \/ SubmitAudio \/ PutAudio
  BY <1>1, <1>4, CarryFacts
<1>5. CASE GetTranscription
  <2>1. /\ UNCHANGED handled
        /\ \/ UNCHANGED textQ /\ pc'["main"] # "handle"
           \/ /\ textQ.items # <<>>
              /\ text' = Head(textQ.items) /\ textQ'.items = Tail(textQ.items)
    BY <1>5, CarryFacts
  <2>2. CASE UNCHANGED textQ /\ pc'["main"] # "handle"
    BY <1>1, <2>1, <2>2
  <2>3. CASE /\ textQ.items # <<>>
             /\ text' = Head(textQ.items) /\ textQ'.items = Tail(textQ.items)
    <3>1. text' < x /\ \A k \in DOMAIN textQ'.items : textQ'.items[k] < x
      BY <1>a, <2>3, TailFacts, SMT DEF Newer
    <3> QED BY <2>1, <3>1 DEF Newer
  <2> QED BY <2>1, <2>2, <2>3
<1>6. CASE HandleInput
  <2>1. /\ UNCHANGED textQ /\ pc["main"] = "handle" /\ pc'["main"] # "handle"
        /\ handled' = Append(handled, [identity |-> audio, text |-> text])
    BY <1>6, CarryFacts
  <2>2. /\ DOMAIN handled' = DOMAIN handled \cup {Len(handled) + 1}
        /\ handled'[Len(handled) + 1].text = text
        /\ \A i \in DOMAIN handled : handled'[i] = handled[i]
    <3>1. [identity |-> audio, text |-> text] \in [identity : Nat, text : Nat]
      BY <1>a
    <3> QED BY <1>a, <2>1, <3>1, AppendFacts, SMTT(20)
  <2> QED BY <2>1, <2>2 DEF Newer
<1> QED BY <1>2, <1>3, <1>4, <1>5, <1>6

\* A transcript put behind the others is newer than they are.
LEMMA NewerAppend ==
    ASSUME VoiceType, NEW x, NEW y \in Nat, Newer(x), y < x, UNCHANGED <<pc, text, handled>>,
           textQ'.items = textQ.items \/ textQ'.items = Append(textQ.items, y)
    PROVE  Newer(x)'
<1>1. textQ.items \in Seq(Nat)
  BY DEF VoiceType, Queue
<1>2. \A k \in DOMAIN textQ'.items : textQ'.items[k] < x
  <2>1. CASE textQ'.items = textQ.items
    BY <2>1 DEF Newer
  <2>2. CASE textQ'.items = Append(textQ.items, y)
    BY <1>1, <2>2, AppendFacts, SMT DEF Newer
  <2> QED BY <2>1, <2>2
<1> QED BY <1>2 DEF Newer

\* The order of what left the workers.
LEMMA TextInvNext ==
    ASSUME VoiceType, TextInv, OpenInv, VoiceNext
    PROVE  TextInv'
<1>a. /\ textQ.items \in Seq(Nat) /\ handled \in Seq([identity : Nat, text : Nat])
      /\ audio \in Nat /\ text \in Nat /\ \A w \in Workers : worker[w].holds \in Nat
  BY DEF VoiceType, Queue, Thread
<1>1. ASSUME UNCHANGED handled, textQ'.items = textQ.items,
             pc'["main"] = "handle" => pc["main"] = "handle" /\ text' = text,
             \A w \in Workers : worker'[w].at = "enqueue" => worker'[w] = worker[w],
             \A x : Newer(x) => Newer(x)'
      PROVE  TextInv'
  BY <1>1 DEF TextInv
<1>2. CASE Elsewhere
  <2>1. \A w \in Workers : worker'[w].at = "enqueue" => worker'[w] = worker[w]
    BY <1>2, ElsewhereHolds DEF Holding
  <2>2. \A x : Newer(x) => Newer(x)'
    BY <1>2, NewerKept
  <2> QED BY <1>1, <1>2, <2>1, <2>2, ElsewhereFacts DEF Waiting
<1>3. CASE PushChunk \/ \E k \in Listeners : ListenerStep(k)
  <2>1. \A x : Newer(x) => Newer(x)'
    BY <1>3, NewerKept
  <2> QED BY <1>1, <1>3, <2>1, MicFacts
<1>4. CASE ReadUtterance \/ SubmitAudio \/ PutAudio
  <2>1. \A x : Newer(x) => Newer(x)'
    BY <1>4, NewerKept
  <2> QED BY <1>1, <1>4, <2>1, CarryFacts
<1>5. ASSUME NEW w \in Workers, WorkerStep(w) \/ WorkerDies(w)
      PROVE  TextInv'
  <2>1. /\ UNCHANGED <<pc, text, handled, workThread>>
        /\ \A v \in Workers : v # w => worker'[v] = worker[v]
        /\ Live(worker[w])
    BY <1>5, WorkerFacts
  <2>2. ASSUME UNCHANGED textQ, worker'[w].at # "enqueue"
        PROVE  TextInv'
    <3>1. \A x : Newer(x) => Newer(x)'
      BY <2>1, <2>2 DEF Newer
    <3> QED BY <1>1, <2>1, <2>2, <3>1
  <2>3. CASE /\ worker[w].at = "check" /\ ~textQ.closed /\ UNCHANGED queues
             /\ worker'[w] = [at |-> "enqueue", holds |-> worker[w].holds]
    <3>1. \A x : Newer(x) => Newer(x)'
      BY <2>1, <2>3 DEF Newer, queues
    <3>2. Newer(worker[w].holds) /\ worker'[w].holds = worker[w].holds
      BY <2>3, SMT DEF OpenInv, Holding
    <3>3. \A v \in Workers : worker[v].at = "enqueue" => v = w
      BY <2>1, <2>3 DEF OpenInv, Live
    <3>4. \A v \in Workers : worker'[v].at = "enqueue" => v = w
      BY <2>1, <3>3
    <3>5. \A v \in Workers : worker'[v].at = "enqueue" => Newer(worker[v].holds)'
      BY <3>1, <3>2, <3>4
    <3> QED BY <2>1, <2>3, <3>4, <3>5 DEF TextInv, queues
  <2>4. CASE /\ worker[w].at = "enqueue" /\ ~Holding(w)'
             /\ \/ textQ'.items = textQ.items
                \/ textQ'.items = Append(textQ.items, worker[w].holds)
    <3>1. \A v \in Workers : worker'[v].at # "enqueue"
      BY <2>1, <2>4 DEF TextInv, Holding
    <3>2. Newer(worker[w].holds)
      BY <2>4 DEF TextInv
    <3>3. CASE textQ'.items = textQ.items
      BY <2>1, <3>1, <3>3 DEF TextInv
    <3>4. CASE textQ'.items = Append(textQ.items, worker[w].holds)
      <4> DEFINE n == Len(textQ.items) + 1
      <4>1. /\ DOMAIN textQ'.items = DOMAIN textQ.items \cup {n} /\ DOMAIN textQ.items \subseteq Nat
            /\ textQ'.items[n] = worker[w].holds /\ n \notin DOMAIN textQ.items
            /\ \A i \in DOMAIN textQ.items : i < n /\ textQ'.items[i] = textQ.items[i]
        BY <1>a, <3>4, AppendFacts, SMTT(20)
      <4>2. n \in Nat
        BY <1>a, SeqLength, SMTT(20)
      <4> HIDE DEF n
      <4>3. \A i, j \in DOMAIN textQ'.items : i < j => textQ'.items[i] < textQ'.items[j]
        BY <3>2, <4>1, <4>2, SMT DEF TextInv, Newer
      <4>4. \A i \in DOMAIN handled, k \in DOMAIN textQ'.items : handled[i].text < textQ'.items[k]
        BY <3>2, <4>1 DEF TextInv, Newer
      <4>5. pc["main"] = "handle" => \A k \in DOMAIN textQ'.items : text < textQ'.items[k]
        BY <3>2, <4>1 DEF TextInv, Newer
      <4> QED BY <2>1, <3>1, <4>3, <4>4, <4>5 DEF TextInv
    <3> QED BY <2>4, <3>3, <3>4
  <2> QED
    <3>1. CASE ~Holding(w)' /\ UNCHANGED queues
      BY <2>2, <3>1 DEF Holding, queues
    <3>2. CASE worker'[w] = [at |-> "asr", holds |-> Head(audioQ.items)] /\ UNCHANGED textQ
      BY <2>2, <3>2, SMT
    <3>3. CASE worker'[w] = [at |-> "check", holds |-> worker[w].holds] /\ UNCHANGED queues
      BY <2>2, <3>3, SMT DEF queues
    <3> QED BY <1>5, <2>3, <2>4, <3>1, <3>2, <3>3, WorkerFacts
<1>6. CASE GetTranscription
  <2>1. /\ UNCHANGED <<worker, handled>> /\ pc["main"] # "handle"
        /\ \/ UNCHANGED textQ /\ pc'["main"] # "handle"
           \/ /\ textQ.items # <<>>
              /\ text' = Head(textQ.items) /\ textQ'.items = Tail(textQ.items)
    BY <1>6, CarryFacts
  <2>2. \A x : Newer(x) => Newer(x)'
    BY <1>6, NewerKept
  <2>3. CASE UNCHANGED textQ /\ pc'["main"] # "handle"
    BY <1>1, <2>1, <2>2, <2>3
  <2>4. CASE /\ textQ.items # <<>>
             /\ text' = Head(textQ.items) /\ textQ'.items = Tail(textQ.items)
    <3>1. /\ text' = textQ.items[1] /\ 1 \in DOMAIN textQ.items
          /\ DOMAIN textQ.items \subseteq Nat /\ DOMAIN textQ'.items \subseteq Nat
          /\ \A i \in DOMAIN textQ'.items :
               i + 1 \in DOMAIN textQ.items /\ 1 < i + 1 /\ textQ'.items[i] = textQ.items[i + 1]
      BY <1>a, <2>4, TailFacts, SMTT(20)
    <3>2. \A i, j \in DOMAIN textQ'.items : i < j => textQ'.items[i] < textQ'.items[j]
      BY <3>1, SMTT(20) DEF TextInv
    <3>3. /\ \A i \in DOMAIN handled, k \in DOMAIN textQ'.items : handled[i].text < textQ'.items[k]
          /\ \A i \in DOMAIN handled : handled[i].text < text'
          /\ \A k \in DOMAIN textQ'.items : text' < textQ'.items[k]
      BY <3>1 DEF TextInv
    <3> QED BY <2>1, <2>2, <3>2, <3>3 DEF TextInv
  <2> QED BY <2>1, <2>3, <2>4
<1>7. CASE HandleInput
  <2>1. /\ UNCHANGED <<worker, textQ>> /\ pc["main"] = "handle" /\ pc'["main"] # "handle"
        /\ handled' = Append(handled, [identity |-> audio, text |-> text])
    BY <1>7, CarryFacts
  <2>2. \A x : Newer(x) => Newer(x)'
    BY <1>7, NewerKept
  <2> DEFINE n == Len(handled) + 1
  <2>3. /\ DOMAIN handled' = DOMAIN handled \cup {n} /\ DOMAIN handled \subseteq Nat
        /\ handled'[n].text = text /\ n \notin DOMAIN handled
        /\ \A i \in DOMAIN handled : i < n /\ handled'[i] = handled[i]
    <3>1. [identity |-> audio, text |-> text] \in [identity : Nat, text : Nat]
      BY <1>a
    <3> QED BY <1>a, <2>1, <3>1, AppendFacts, SMTT(20)
  <2>4. n \in Nat
    BY <1>a, SeqLength, SMTT(20)
  <2> HIDE DEF n
  <2>5. \A i, j \in DOMAIN handled' : i < j => handled'[i].text < handled'[j].text
    BY <2>1, <2>3, <2>4, SMT DEF TextInv
  <2>6. \A i \in DOMAIN handled', k \in DOMAIN textQ.items : handled'[i].text < textQ.items[k]
    BY <2>1, <2>3 DEF TextInv
  <2> QED BY <2>1, <2>2, <2>5, <2>6 DEF TextInv
<1> QED BY <1>2, <1>3, <1>4, <1>5, <1>6, <1>7 DEF VoiceNext, SessionStep, Elsewhere

\* What is on its way to the one worker, as long as the queues are open.
LEMMA OpenInvNext ==
    ASSUME VoiceType, StreamInv, SourceInv, LagInv, OpenInv, VoiceNext
    PROVE  OpenInv'
<1>a. /\ audioQ.items \in Seq(Nat) /\ textQ.items \in Seq(Nat) /\ audio \in Nat
      /\ worker \in [Workers -> Thread] /\ workThread \in Workers \cup {None}
      /\ None \notin Workers /\ \A w \in Workers : worker[w].holds \in Nat
  BY VoiceAssumption DEF VoiceType, Queue, Thread, None
<1> SUFFICES ASSUME ~textQ'.closed PROVE OpenInv'
  BY DEF OpenInv
<1>b. ASSUME ~textQ.closed
      PROVE  /\ \A w \in Workers : Live(worker[w]) => w = workThread
             /\ \A w \in Workers : Holding(w) =>
                  /\ Newer(worker[w].holds)
                  /\ \A k \in DOMAIN audioQ.items : worker[w].holds < audioQ.items[k]
             /\ \A k \in DOMAIN audioQ.items : Newer(audioQ.items[k])
             /\ \A i, j \in DOMAIN audioQ.items : i < j => audioQ.items[i] < audioQ.items[j]
  BY <1>b DEF OpenInv
<1>1. ASSUME ~textQ.closed, audioQ'.items = audioQ.items,
             \A w \in Workers : Live(worker[w])' => w = workThread',
             \A w \in Workers : Holding(w)' => Holding(w) /\ worker'[w] = worker[w],
             \A x : Newer(x) => Newer(x)'
      PROVE  OpenInv'
  <2>1. \A w \in Workers : Holding(w)' =>
          /\ Newer(worker[w].holds)'
          /\ \A k \in DOMAIN audioQ'.items : worker'[w].holds < audioQ'.items[k]
    BY <1>1, <1>b
  <2>2. \A k \in DOMAIN audioQ'.items : Newer(audioQ.items[k])'
    BY <1>1, <1>b
  <2> QED BY <1>1, <1>b, <2>1, <2>2 DEF OpenInv
<1>2. CASE Elsewhere
  <2>1. audioQ'.items = audioQ.items /\ ~textQ.closed
    BY <1>2, ElsewhereFacts
  <2>2. \A w \in Workers : Live(worker[w])' => w = workThread'
    <3>1. CASE UNCHANGED <<worker, workThread>>
      BY <1>b, <2>1, <3>1
    <3>2. ASSUME ~Registered(worker, workThread), NEW w \in Workers,
                 worker' = [worker EXCEPT ![w].at = "top"], workThread' = w
          PROVE  \A v \in Workers : Live(worker[v])' => v = workThread'
      <4>1. \A v \in Workers : ~Live(worker[v])
        BY <1>a, <1>b, <2>1, <3>2 DEF Registered
      <4>2. \A v \in Workers : v # w => worker'[v] = worker[v]
        BY <1>a, <3>2
      <4> QED BY <3>2, <4>1, <4>2
    <3> QED BY <1>2, <3>1, <3>2, ElsewhereWorkers
  <2>3. \A x : Newer(x) => Newer(x)'
    BY <1>2, NewerKept
  <2> QED BY <1>1, <1>2, <2>1, <2>2, <2>3, ElsewhereHolds
<1>3. CASE PushChunk \/ \E k \in Listeners : ListenerStep(k)
  <2>1. \A x : Newer(x) => Newer(x)'
    BY <1>3, NewerKept
  <2>2. UNCHANGED <<worker, workThread, audioQ, textQ>>
    BY <1>3, MicFacts
  <2> QED BY <1>1, <1>b, <2>1, <2>2 DEF Holding
<1>4. CASE ReadUtterance \/ SubmitAudio \/ GetTranscription \/ HandleInput
  <2>1. \A x : Newer(x) => Newer(x)'
    BY <1>4, NewerKept
  <2>2. UNCHANGED <<worker, workThread, audioQ>> /\ ~textQ.closed
    BY <1>4, CarryFacts
  <2> QED BY <1>1, <1>b, <2>1, <2>2 DEF Holding
<1>5. CASE PutAudio
  <2>1. /\ UNCHANGED <<worker, workThread, handled, textQ>> /\ pc["main"] # "handle" /\ Offering
        /\ \/ UNCHANGED audioQ
           \/ audioQ'.items = Append(audioQ.items, audio)
    BY <1>5, CarryFacts
  <2>2. \A x : Newer(x) => Newer(x)'
    BY <1>5, NewerKept
  <2>3. CASE UNCHANGED audioQ
    BY <1>1, <1>b, <2>1, <2>2, <2>3 DEF Holding
  <2>4. CASE audioQ'.items = Append(audioQ.items, audio)
    <3>1. \A x : WasSubmitted(x) => x < audio
      BY <2>1 DEF StreamInv, WasSubmitted
    <3>2. Newer(audio)
      <4>1. \A i \in DOMAIN handled : WasSubmitted(handled[i].text)
        BY DEF LagInv, WasSubmitted
      <4>2. \A k \in DOMAIN textQ.items : WasSubmitted(textQ.items[k])
        BY DEF SourceInv
      <4> QED BY <2>1, <3>1, <4>1, <4>2 DEF Newer
    <3>3. /\ \A k \in DOMAIN audioQ.items : audioQ.items[k] < audio
          /\ \A w \in Workers : Holding(w) => worker[w].holds < audio
      BY <3>1 DEF SourceInv
    <3> DEFINE n == Len(audioQ.items) + 1
    <3>4. /\ DOMAIN audioQ'.items = DOMAIN audioQ.items \cup {n}
          /\ DOMAIN audioQ.items \subseteq Nat
          /\ audioQ'.items[n] = audio /\ n \notin DOMAIN audioQ.items
          /\ \A i \in DOMAIN audioQ.items : i < n /\ audioQ'.items[i] = audioQ.items[i]
      BY <1>a, <2>4, AppendFacts, SMTT(20)
    <3>5. n \in Nat
      BY <1>a, SeqLength, SMTT(20)
    <3> HIDE DEF n
    <3>6. \A i, j \in DOMAIN audioQ'.items : i < j => audioQ'.items[i] < audioQ'.items[j]
      BY <1>b, <2>1, <3>3, <3>4, <3>5, SMT
    <3>7. \A k \in DOMAIN audioQ'.items : Newer(audioQ.items[k])'
      BY <1>b, <2>1, <2>2, <3>2, <3>4
    <3>8. \A w \in Workers : Holding(w)' =>
            /\ Newer(worker[w].holds)'
            /\ \A k \in DOMAIN audioQ'.items : worker'[w].holds < audioQ'.items[k]
      BY <1>b, <2>1, <2>2, <3>3, <3>4 DEF Holding
    <3> QED BY <1>b, <2>1, <3>6, <3>7, <3>8 DEF OpenInv
  <2> QED BY <2>1, <2>3, <2>4
<1>6. ASSUME NEW w \in Workers, WorkerStep(w) \/ WorkerDies(w)
      PROVE  OpenInv'
  <2>1. /\ UNCHANGED <<pc, text, handled, workThread>> /\ ~textQ.closed
        /\ \A v \in Workers : v # w => worker'[v] = worker[v]
        /\ Live(worker[w])
    BY <1>6, WorkerFacts
  <2>2. w = workThread /\ \A v \in Workers : Live(worker[v])' => v = workThread'
    BY <1>b, <2>1
  <2>3. \A v \in Workers : v # w => ~Holding(v)'
    <3>1. \A v \in Workers : Holding(v)' => Live(worker[v])'
      BY DEF Holding, Live
    <3> QED BY <2>1, <2>2, <3>1
  <2>4. ASSUME UNCHANGED textQ PROVE \A x : Newer(x) => Newer(x)'
    BY <2>1, <2>4 DEF Newer
  <2>5. CASE ~Holding(w)' /\ UNCHANGED queues
    <3>1. \A x : Newer(x) => Newer(x)'
      BY <2>4, <2>5 DEF queues
    <3> QED BY <1>1, <2>1, <2>2, <2>3, <2>5, <3>1 DEF queues
  <2>6. CASE /\ audioQ.items # <<>>
             /\ worker'[w] = [at |-> "asr", holds |-> Head(audioQ.items)]
             /\ audioQ'.items = Tail(audioQ.items) /\ UNCHANGED textQ
    <3>1. /\ worker'[w].holds = audioQ.items[1] /\ 1 \in DOMAIN audioQ.items
          /\ DOMAIN audioQ.items \subseteq Nat /\ DOMAIN audioQ'.items \subseteq Nat
          /\ \A i \in DOMAIN audioQ'.items :
               i + 1 \in DOMAIN audioQ.items /\ 1 < i + 1 /\ audioQ'.items[i] = audioQ.items[i + 1]
      <4>1. worker'[w].holds = Head(audioQ.items)
        BY <2>6, SMT
      <4> QED BY <1>a, <2>6, <4>1, TailFacts, SMTT(20)
    <3>2. \A x : Newer(x) => Newer(x)'
      BY <2>4, <2>6
    <3>3. \A i, j \in DOMAIN audioQ'.items : i < j => audioQ'.items[i] < audioQ'.items[j]
      BY <1>b, <2>1, <3>1, SMT
    <3>4. \A k \in DOMAIN audioQ'.items : Newer(audioQ.items[k])'
      BY <1>b, <2>1, <3>1, <3>2
    <3>5. /\ Newer(worker[w].holds)'
          /\ \A k \in DOMAIN audioQ'.items : worker'[w].holds < audioQ'.items[k]
      BY <1>b, <2>1, <3>1, <3>2
    <3> QED BY <2>2, <2>3, <3>3, <3>4, <3>5 DEF OpenInv
  <2>7. CASE /\ Holding(w) /\ UNCHANGED queues /\ worker'[w].holds = worker[w].holds
    <3>1. \A x : Newer(x) => Newer(x)'
      BY <2>4, <2>7 DEF queues
    <3>2. /\ Newer(worker[w].holds)'
          /\ \A k \in DOMAIN audioQ'.items : worker'[w].holds < audioQ'.items[k]
      BY <1>b, <2>1, <2>7, <3>1 DEF queues
    <3>3. \A k \in DOMAIN audioQ'.items : Newer(audioQ.items[k])'
      BY <1>b, <2>1, <2>7, <3>1 DEF queues
    <3> QED BY <1>b, <2>1, <2>2, <2>3, <2>7, <3>2, <3>3 DEF OpenInv, queues
  <2>8. CASE /\ worker[w].at = "enqueue" /\ ~Holding(w)' /\ UNCHANGED audioQ
             /\ \/ textQ'.items = textQ.items
                \/ textQ'.items = Append(textQ.items, worker[w].holds)
    <3>1. Holding(w)
      BY <2>8 DEF Holding
    <3>2. \A k \in DOMAIN audioQ.items :
             Newer(audioQ.items[k]) /\ worker[w].holds < audioQ.items[k]
      BY <1>b, <2>1, <3>1
    <3>3. \A k \in DOMAIN audioQ'.items : Newer(audioQ.items[k])'
      <4>1. \A x : Newer(x) /\ worker[w].holds < x => Newer(x)'
        BY <1>a, <2>1, <2>8, NewerAppend
      <4> QED BY <2>8, <3>2, <4>1
    <3> QED BY <1>b, <2>1, <2>2, <2>3, <2>8, <3>3 DEF OpenInv
  <2> QED
    <3>1. \/ worker[w].at = "asr" /\ worker'[w] = [at |-> "check", holds |-> worker[w].holds]
          \/ worker[w].at = "check" /\ worker'[w] = [at |-> "enqueue", holds |-> worker[w].holds]
          => Holding(w) /\ worker'[w].holds = worker[w].holds
      BY SMT DEF Holding
    <3> QED BY <1>6, <2>5, <2>6, <2>7, <2>8, <3>1, WorkerFacts
<1> QED BY <1>2, <1>3, <1>4, <1>5, <1>6 DEF VoiceNext, SessionStep, Elsewhere

\* The order invariant holds initially.
LEMMA OrderInvInit ==
    VoiceInit => OrderInv
<1> SUFFICES ASSUME VoiceInit PROVE OrderInv
  OBVIOUS
<1>1. /\ buffer = <<>> /\ submitted = <<>> /\ handled = <<>> /\ timeouts = 0
      /\ audioQ.items = <<>> /\ textQ.items = <<>> /\ pc["main"] = "idle"
      /\ \A w \in Workers : worker[w].at = "none"
  BY DEF VoiceInit, Idle, Callers
<1>2. DOMAIN <<>> = {} /\ Len(<<>>) = 0
  BY SMT
<1>3. ~Offering /\ ~Waiting /\ \A w \in Workers : ~Holding(w) /\ ~Live(worker[w])
  BY <1>1 DEF Offering, Waiting, Holding, Live
<1>4. LagInv
  BY <1>1, <1>2, <1>3, SMT DEF LagInv
<1>5. StreamInv /\ SourceInv
  BY <1>1, <1>2, <1>3 DEF StreamInv, SourceInv
<1>6. TextInv /\ OpenInv
  BY <1>1, <1>2, <1>3 DEF TextInv, OpenInv
<1> QED BY <1>4, <1>5, <1>6 DEF OrderInv

\* The order invariant is inductive.
LEMMA OrderInvNext ==
    VoiceType /\ OrderInv /\ [VoiceNext]_vars => OrderInv'
<1>1. VoiceType /\ OrderInv /\ VoiceNext => OrderInv'
  BY StreamInvNext, SourceInvNext, LagInvNext, TextInvNext, OpenInvNext DEF OrderInv
<1>2. ASSUME OrderInv, UNCHANGED vars PROVE OrderInv'
  <2>1. UNCHANGED <<pc, buffer, heard, submitted, handled, timeouts, audioQ, textQ, audio, text,
                    worker, workThread>>
    BY <1>2 DEF vars, session, stream, work, queues, history
  <2>2. StreamInv'
    BY <1>2, <2>1 DEF OrderInv, StreamInv, Offering
  <2>3. SourceInv'
    BY <1>2, <2>1 DEF OrderInv, SourceInv, WasSubmitted, Waiting, Holding
  <2>4. LagInv'
    BY <1>2, <2>1 DEF OrderInv, LagInv, Waiting
  <2>5. TextInv'
    BY <1>2, <2>1 DEF OrderInv, TextInv, Newer
  <2>6. OpenInv'
    BY <1>2, <2>1 DEF OrderInv, OpenInv, Newer, Holding
  <2> QED BY <2>2, <2>3, <2>4, <2>5, <2>6 DEF OrderInv
<1> QED BY <1>1, <1>2

\* Transcripts are handled in the order of their utterances and at most once
\* each: a worker that outlived its join finds the text queue closed, and at
\* most one was past that test when it closed.
THEOREM HandledInOrderHolds ==
    VoiceSpec => []HandledInOrder
<1>1. VoiceType /\ OrderInv => HandledInOrder
  <2> SUFFICES ASSUME VoiceType, TextInv PROVE HandledInOrder
    BY DEF OrderInv
  <2>1. textQ.items \in Seq(Nat) /\ handled \in Seq([identity : Nat, text : Nat])
    BY DEF VoiceType, Queue
  <2> DEFINE t == [i \in DOMAIN handled |-> handled[i].text]
             q == textQ.items
             n == Len(handled)
  <2>2. n \in Nat /\ DOMAIN handled = 1..n /\ Len(q) \in Nat /\ DOMAIN q = 1..Len(q)
    BY <2>1, SeqLength
  <2>3. t \in Seq(Nat) /\ Len(t) = n
    <3>1. t \in [1..n -> Nat]
      <4>1. \A i \in 1..n : handled[i] \in [identity : Nat, text : Nat]
        BY <2>1, <2>2, SeqElement
      <4>2. \A i \in 1..n : handled[i].text \in Nat
        BY <4>1
      <4> QED BY <2>2, <4>2
    <3> QED BY <2>2, <3>1, SeqLength, SMT
  <2>4. /\ Len(t \o q) = n + Len(q) /\ DOMAIN (t \o q) = 1..(n + Len(q))
        /\ \A i \in 1..(n + Len(q)) : (t \o q)[i] = IF i <= n THEN t[i] ELSE q[i - n]
    <3>1. /\ t \o q \in Seq(Nat) /\ Len(t \o q) = n + Len(q)
          /\ \A i \in 1..(n + Len(q)) : (t \o q)[i] = IF i <= n THEN t[i] ELSE q[i - n]
      <4> HIDE DEF t, q, n
      <4>1. q \in Seq(Nat)
        BY <2>1 DEF q
      <4> QED BY <2>2, <2>3, <4>1, SeqConcat, ZenonT(30)
    <3> QED BY <3>1, SeqLength
  <2>5. \A i \in 1..n : t[i] = handled[i].text
    BY <2>2
  <2>6. /\ \A i, j \in 1..n : i < j => handled[i].text < handled[j].text
        /\ \A i, j \in DOMAIN q : i < j => q[i] < q[j]
        /\ \A i \in 1..n, k \in DOMAIN q : handled[i].text < q[k]
    BY <2>2 DEF TextInv
  <2> HIDE DEF t, q, n
  <2>7. ASSUME NEW i \in DOMAIN (t \o q), NEW j \in DOMAIN (t \o q), i < j
        PROVE  (t \o q)[i] < (t \o q)[j]
    <3>1. CASE j <= n
      BY <2>2, <2>4, <2>5, <2>6, <2>7, <3>1, SMTT(20)
    <3>2. CASE i <= n /\ ~(j <= n)
      <4>1. (t \o q)[i] = handled[i].text /\ i \in 1..n
        BY <2>2, <2>4, <2>5, <3>2, SMT
      <4>2. (t \o q)[j] = q[j - n] /\ j - n \in DOMAIN q
        BY <2>2, <2>4, <3>2, SMT
      <4> QED BY <2>6, <4>1, <4>2
    <3>3. CASE ~(i <= n)
      <4>1. (t \o q)[i] = q[i - n] /\ i - n \in DOMAIN q
        BY <2>2, <2>4, <3>3, SMTT(20)
      <4>2. (t \o q)[j] = q[j - n] /\ j - n \in DOMAIN q /\ i - n < j - n
        BY <2>2, <2>4, <2>7, <3>3, SMT
      <4> QED BY <2>6, <4>1, <4>2
    <3> QED BY <2>2, <2>4, <2>7, <3>1, <3>2, <3>3
  <2> QED BY <2>7 DEF HandledInOrder, t, q
<1> QED BY <1>1, VoiceTypeInit, VoiceTypeNext, OrderInvInit, OrderInvNext, PTL DEF VoiceSpec

\* A transcript lags behind the identity it is handled under by at most the
\* waits that timed out.
THEOREM LagBoundedHolds ==
    VoiceSpec => []LagBounded
<1>1. OrderInv => LagBounded
  BY DEF OrderInv, LagInv, LagBounded
<1> QED BY <1>1, VoiceTypeInit, VoiceTypeNext, OrderInvInit, OrderInvNext, PTL DEF VoiceSpec

=============================================================================
