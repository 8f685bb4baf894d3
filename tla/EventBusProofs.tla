--------------------------- MODULE EventBusProofs ---------------------------
(***************************************************************************)
(* Proofs about the event bus for any number of clients, events, handlers  *)
(* and publishes, and any capacities.                                      *)
(***************************************************************************)
EXTENDS EventBus, FiniteSetTheorems, TLAPS

(* Zenon tries every leaf that names no other prover.                      *)
USE Zenon

-----------------------------------------------------------------------------
(* Sequences.                                                              *)

(* An element of a sequence is one of its set.                             *)
LEMMA SeqElement ==
    ASSUME NEW S, NEW q \in Seq(S), NEW i \in 1..Len(q)
    PROVE  q[i] \in S
  BY SMT

(* The length and the positions of a sequence.                             *)
LEMMA SeqLength ==
    ASSUME NEW S, NEW q \in Seq(S)
    PROVE  /\ Len(q) \in Nat
           /\ q \in [1..Len(q) -> S] /\ DOMAIN q = 1..Len(q)
  BY SMT

(* A sequence with one element more.                                       *)
LEMMA SeqAppend ==
    ASSUME NEW S, NEW q \in Seq(S), NEW e \in S
    PROVE  /\ Append(q, e) \in Seq(S) /\ Append(q, e) # <<>>
           /\ Len(Append(q, e)) = Len(q) + 1 /\ Append(q, e)[Len(q) + 1] = e
           /\ \A i \in 1..Len(q) : Append(q, e)[i] = q[i]
  BY SMT

(* The first element of a sequence and the others.                         *)
LEMMA SeqHeadTail ==
    ASSUME NEW S, NEW q \in Seq(S), q # <<>>
    PROVE  /\ Head(q) \in S
           /\ Tail(q) \in Seq(S) /\ Len(Tail(q)) = Len(q) - 1
           /\ \A i \in 1..Len(Tail(q)) : Tail(q)[i] = q[i + 1]
  BY SMT

(* Two sequences, one after the other.                                     *)
LEMMA SeqConcat ==
    ASSUME NEW S, NEW q \in Seq(S), NEW r \in Seq(S)
    PROVE  /\ q \o r \in Seq(S) /\ Len(q \o r) = Len(q) + Len(r)
           /\ \A i \in 1..(Len(q) + Len(r)) :
                (q \o r)[i] = IF i <= Len(q) THEN q[i] ELSE r[i - Len(q)]
  BY SMT

(* A part of a sequence.                                                   *)
LEMMA SeqPart ==
    ASSUME NEW S, NEW q \in Seq(S), NEW i \in 1..(Len(q) + 1), NEW j \in 0..Len(q)
    PROVE  /\ SubSeq(q, i, j) \in Seq(S)
           /\ i <= j => Len(SubSeq(q, i, j)) = j - i + 1
  BY SMT

-----------------------------------------------------------------------------
(* Types.                                                                  *)

(* The normalised arguments of EventBus::new are positive.                 *)
LEMMA LimitsArePositive ==
    Capacity \in Nat \ {0} /\ HopLimit \in 1 .. U8Max /\ TraceLimit \in Nat \ {0}
  BY EventBusAssumption, SMT DEF Capacity, HopLimit, TraceLimit, AtLeastOne, U8Max

(* record_trace keeps the log a bounded sequence of envelopes.             *)
LEMMA RecordTraceType ==
    ASSUME traces \in Seq(Envelope), Len(traces) <= TraceLimit, NEW env \in Envelope
    PROVE  /\ RecordTrace(env) \in Seq(Envelope)
           /\ Len(RecordTrace(env)) <= TraceLimit
  <1> DEFINE all == Append(traces, env)
  <1>1. all \in Seq(Envelope) /\ Len(all) = Len(traces) + 1 /\ Len(traces) \in Nat
    BY SeqAppend, SeqLength
  <1>2. CASE Len(all) > TraceLimit
    <2> DEFINE m == Len(all) - TraceLimit + 1
    <2>1. m \in Int /\ Len(all) \in Int /\ m >= 1 /\ m <= Len(all)
      BY <1>1, <1>2, LimitsArePositive, SMT
    <2>2. /\ SubSeq(all, m, Len(all)) \in Seq(Envelope)
          /\ Len(SubSeq(all, m, Len(all))) = Len(all) - m + 1
      <3>1. m \in 1..(Len(all) + 1) /\ Len(all) \in 0..Len(all)
        BY <1>1, <2>1, SMT
      <3> HIDE DEF all, m
      <3> QED
        BY <1>1, <2>1, <3>1, SeqPart
    <2> QED
      BY <1>1, <1>2, <2>2, LimitsArePositive, SMT DEF RecordTrace
  <1>3. CASE ~(Len(all) > TraceLimit)
    BY <1>1, <1>3, LimitsArePositive, SMT DEF RecordTrace
  <1> QED
    BY <1>2, <1>3

(* Removing a subscriber leaves a sequence of subscribers.                 *)
LEMMA RemoveAtType ==
    ASSUME NEW S, NEW s \in Seq(S), NEW i \in DOMAIN s
    PROVE  SubSeq(s, 1, i - 1) \o SubSeq(s, i + 1, Len(s)) \in Seq(S)
  <1>1. Len(s) \in Nat /\ i \in 1 .. Len(s)
    BY SeqLength
  <1>2. SubSeq(s, 1, i - 1) \in Seq(S)
    BY <1>1, SeqPart, SMT
  <1>3. SubSeq(s, i + 1, Len(s)) \in Seq(S)
    BY <1>1, SeqPart, SMT
  <1> QED
    BY <1>2, <1>3, SeqConcat

(* Ids start at 1, so BusCommand::Stop is told from every envelope.        *)
LEMMA StopIsNoEnvelope == Stop \notin Envelope
  BY DEF Stop, Envelope

(* A record of well-typed parts is an envelope.                            *)
LEMMA EnvelopeType ==
    ASSUME NEW i \in Nat \ {0}, NEW t \in Nat, NEW h \in 0 .. U8Max, NEW e \in Events
    PROVE  [id |-> i, trace |-> t, hop |-> h, event |-> e] \in Envelope
  BY DEF Envelope
-----------------------------------------------------------------------------
(* Every step preserves the types.                                         *)
LEMMA TypeStep == TypeOK /\ [Next]_vars => TypeOK'
  <1> SUFFICES ASSUME TypeOK, [Next]_vars
               PROVE  TypeOK'
    OBVIOUS
  <1> USE LimitsArePositive DEF TypeOK, clients, bus, dispatcher, history
  <1>1. ASSUME NEW c \in Clients, NEW e \in Events, Publish(c, e)
        PROVE  TypeOK'
    <2>1. BusTypeOK'
      BY <1>1, SMT DEF BusTypeOK, Publish
    <2>2. ClientTypeOK'
      BY <1>1 DEF ClientTypeOK, CallType, Publish, Goto, Publishing, BusTypeOK
    <2>3. DispatcherTypeOK'
      BY <1>1 DEF DispatcherTypeOK, Publish
    <2>4. HistoryTypeOK'
      BY <1>1 DEF HistoryTypeOK, Publish
    <2> QED
      BY <2>1, <2>2, <2>3, <2>4
  <1>2. ASSUME NEW c \in Clients, NEW e \in Events, NEW k \in Kinds, Subscribe(c, e, k)
        PROVE  TypeOK'
    <2>1. BusTypeOK'
      BY <1>2 DEF BusTypeOK, Subscribe
    <2>2. ClientTypeOK'
      BY <1>2 DEF ClientTypeOK, CallType, Subscribe, Goto, Subscribing
    <2>3. DispatcherTypeOK'
      BY <1>2 DEF DispatcherTypeOK, Subscribe
    <2>4. HistoryTypeOK'
      BY <1>2 DEF HistoryTypeOK, Subscribe
    <2> QED
      BY <2>1, <2>2, <2>3, <2>4
  <1>3. ASSUME NEW c \in Clients, NEW e \in Events, NEW i \in DOMAIN subs[e],
               Unsubscribe(c, e, i)
        PROVE  TypeOK'
    <2>1. BusTypeOK'
      BY <1>3, RemoveAtType DEF BusTypeOK, Unsubscribe
    <2>2. ClientTypeOK'
      BY <1>3 DEF ClientTypeOK, CallType, Unsubscribe
    <2>3. DispatcherTypeOK'
      BY <1>3 DEF DispatcherTypeOK, Unsubscribe
    <2>4. HistoryTypeOK'
      BY <1>3 DEF HistoryTypeOK, Unsubscribe
    <2> QED
      BY <2>1, <2>2, <2>3, <2>4
  <1>4. ASSUME NEW c \in Clients, Shutdown(c)
        PROVE  TypeOK'
    <2>1. BusTypeOK'
      BY <1>4 DEF BusTypeOK, Shutdown, MarkInactive
    <2>2. ClientTypeOK'
      BY <1>4 DEF ClientTypeOK, CallType, Shutdown, MarkInactive, Goto
    <2>3. DispatcherTypeOK'
      BY <1>4 DEF DispatcherTypeOK, Shutdown, MarkInactive
    <2>4. HistoryTypeOK'
      BY <1>4, SMT DEF HistoryTypeOK, Shutdown, MarkInactive
    <2> QED
      BY <2>1, <2>2, <2>3, <2>4
  <1>5. ASSUME NEW c \in Clients, DropHandle(c)
        PROVE  TypeOK'
    <2>1. BusTypeOK'
      BY <1>5 DEF BusTypeOK, DropHandle, MarkInactive
    <2>2. ClientTypeOK'
      BY <1>5, SMT DEF ClientTypeOK, CallType, DropHandle, MarkInactive, Goto
    <2>3. DispatcherTypeOK'
      BY <1>5 DEF DispatcherTypeOK, DropHandle, MarkInactive
    <2>4. HistoryTypeOK'
      BY <1>5, SMT DEF HistoryTypeOK, DropHandle, MarkInactive
    <2> QED
      BY <2>1, <2>2, <2>3, <2>4
  <1>6. ASSUME NEW c \in Clients, PublishRefused(c)
        PROVE  TypeOK'
    <2>1. BusTypeOK'
      BY <1>6 DEF BusTypeOK, PublishRefused
    <2>2. ClientTypeOK'
      BY <1>6 DEF ClientTypeOK, CallType, PublishRefused, Goto
    <2>3. DispatcherTypeOK'
      BY <1>6 DEF DispatcherTypeOK, PublishRefused
    <2>4. HistoryTypeOK'
      BY <1>6 DEF HistoryTypeOK, PublishRefused
    <2> QED
      BY <2>1, <2>2, <2>3, <2>4
  <1>7. ASSUME NEW c \in Clients, PublishAdmitted(c)
        PROVE  TypeOK'
    <2>1. BusTypeOK'
      BY <1>7, SMT DEF BusTypeOK, PublishAdmitted
    <2>2. ClientTypeOK'
      <3>1. call[c] \in [id : {0}, trace : Nat, hop : {0}, event : Events]
        BY <1>7 DEF ClientTypeOK, CallType, PublishAdmitted
      <3>2. [call[c] EXCEPT !.id = nextId] \in Envelope
        <4>1. nextId \in Nat \ {0} /\ 0 \in 0 .. U8Max
          BY SMT DEF BusTypeOK, U8Max
        <4>2. [call[c] EXCEPT !.id = nextId]
                = [id |-> nextId, trace |-> call[c].trace, hop |-> 0, event |-> call[c].event]
          BY <3>1, SMT
        <4> QED
          BY <3>1, <4>1, <4>2, EnvelopeType, SMT
      <3>3. call' = [call EXCEPT ![c] = [call[c] EXCEPT !.id = nextId]]
        BY <1>7 DEF PublishAdmitted
      <3> QED
        BY <1>7, <3>2, <3>3 DEF ClientTypeOK, CallType, PublishAdmitted, Goto
    <2>3. DispatcherTypeOK'
      BY <1>7 DEF DispatcherTypeOK, PublishAdmitted
    <2>4. HistoryTypeOK'
      BY <1>7 DEF HistoryTypeOK, PublishAdmitted
    <2> QED
      BY <2>1, <2>2, <2>3, <2>4
  <1>8. ASSUME NEW c \in Clients, PublishSend(c)
        PROVE  TypeOK'
    <2>1. BusTypeOK'
      BY <1>8, SMT DEF BusTypeOK, PublishSend, CanSend, ClientTypeOK, CallType
    <2>2. ClientTypeOK'
      BY <1>8 DEF ClientTypeOK, CallType, PublishSend, CanSend, Goto
    <2>3. DispatcherTypeOK'
      BY <1>8 DEF DispatcherTypeOK, PublishSend, CanSend
    <2>4. HistoryTypeOK'
      BY <1>8, SMT DEF HistoryTypeOK, PublishSend, CanSend, ClientTypeOK, CallType
    <2> QED
      BY <2>1, <2>2, <2>3, <2>4
  <1>9. ASSUME NEW c \in Clients, PublishDisconnected(c)
        PROVE  TypeOK'
    <2>1. BusTypeOK'
      BY <1>9 DEF BusTypeOK, PublishDisconnected
    <2>2. ClientTypeOK'
      BY <1>9 DEF ClientTypeOK, CallType, PublishDisconnected, Goto
    <2>3. DispatcherTypeOK'
      BY <1>9 DEF DispatcherTypeOK, PublishDisconnected
    <2>4. HistoryTypeOK'
      BY <1>9 DEF HistoryTypeOK, PublishDisconnected
    <2> QED
      BY <2>1, <2>2, <2>3, <2>4
  <1>10. ASSUME NEW c \in Clients, SubscribePush(c)
        PROVE  TypeOK'
    <2>1. BusTypeOK'
      <3>1. call[c].event \in Events /\ call[c].kind \in Kinds
        BY <1>10 DEF ClientTypeOK, CallType, SubscribePush
      <3>2. [id |-> nextId, kind |-> call[c].kind] \in Subscriber
        BY <3>1 DEF BusTypeOK, Subscriber
      <3>3. \A s \in Seq(Subscriber) :
              Append(s, [id |-> nextId, kind |-> call[c].kind]) \in Seq(Subscriber)
        BY <3>2, SeqAppend
      <3>4. subs' \in [Events -> Seq(Subscriber)]
        BY <1>10, <3>1, <3>3 DEF BusTypeOK, SubscribePush
      <3> QED
        BY <1>10, <3>4, SMT DEF BusTypeOK, SubscribePush
    <2>2. ClientTypeOK'
      BY <1>10 DEF ClientTypeOK, CallType, SubscribePush, Goto
    <2>3. DispatcherTypeOK'
      BY <1>10 DEF DispatcherTypeOK, SubscribePush
    <2>4. HistoryTypeOK'
      BY <1>10 DEF HistoryTypeOK, SubscribePush
    <2> QED
      BY <2>1, <2>2, <2>3, <2>4
  <1>11. ASSUME NEW c \in Clients, ShutdownSend(c)
        PROVE  TypeOK'
    <2>1. BusTypeOK'
      BY <1>11, SMT DEF BusTypeOK, ShutdownSend, CanSend
    <2>2. ClientTypeOK'
      BY <1>11 DEF ClientTypeOK, CallType, ShutdownSend, CanSend, Goto
    <2>3. DispatcherTypeOK'
      BY <1>11 DEF DispatcherTypeOK, ShutdownSend, CanSend
    <2>4. HistoryTypeOK'
      BY <1>11 DEF HistoryTypeOK, ShutdownSend, CanSend
    <2> QED
      BY <2>1, <2>2, <2>3, <2>4
  <1>12. ASSUME NEW c \in Clients, ShutdownJoin(c)
        PROVE  TypeOK'
    <2>1. BusTypeOK'
      BY <1>12 DEF BusTypeOK, ShutdownJoin
    <2>2. ClientTypeOK'
      BY <1>12 DEF ClientTypeOK, CallType, ShutdownJoin, Goto
    <2>3. DispatcherTypeOK'
      BY <1>12 DEF DispatcherTypeOK, ShutdownJoin
    <2>4. HistoryTypeOK'
      BY <1>12 DEF HistoryTypeOK, ShutdownJoin
    <2> QED
      BY <2>1, <2>2, <2>3, <2>4
  <1>13. ASSUME Receive
         PROVE  TypeOK'
    <2>1. Head(queue) \in Envelope /\ Tail(queue) \in Seq(Envelope \cup {Stop})
      BY <1>13, SeqHeadTail, SMT DEF BusTypeOK, Receive
    <2>2. BusTypeOK'
      <3>1. /\ RecordTrace(Head(queue)) \in Seq(Envelope)
            /\ Len(RecordTrace(Head(queue))) <= TraceLimit
        BY <2>1, RecordTraceType DEF BusTypeOK
      <3> QED
        BY <1>13, <2>1, <3>1, SMT DEF BusTypeOK, Receive
    <2>3. ClientTypeOK'
      BY <1>13 DEF ClientTypeOK, CallType, Receive
    <2>4. DispatcherTypeOK'
      BY <1>13, <2>1 DEF DispatcherTypeOK, Receive
    <2>5. HistoryTypeOK'
      BY <1>13, <2>1, SMT DEF HistoryTypeOK, Receive
    <2> QED
      BY <2>2, <2>3, <2>4, <2>5
  <1>14. ASSUME ReceiveStop
        PROVE  TypeOK'
    <2>1. BusTypeOK'
      BY <1>14, SMT DEF BusTypeOK, ReceiveStop
    <2>2. ClientTypeOK'
      BY <1>14 DEF ClientTypeOK, CallType, ReceiveStop
    <2>3. DispatcherTypeOK'
      BY <1>14 DEF DispatcherTypeOK, ReceiveStop
    <2>4. HistoryTypeOK'
      BY <1>14 DEF HistoryTypeOK, ReceiveStop
    <2> QED
      BY <2>1, <2>2, <2>3, <2>4
  <1>15. ASSUME MatchingHandlers
        PROVE  TypeOK'
    <2>1. BusTypeOK'
      BY <1>15 DEF BusTypeOK, MatchingHandlers
    <2>2. ClientTypeOK'
      BY <1>15 DEF ClientTypeOK, CallType, MatchingHandlers
    <2>3. DispatcherTypeOK'
      BY <1>15 DEF DispatcherTypeOK, MatchingHandlers, BusTypeOK, Envelope
    <2>4. HistoryTypeOK'
      BY <1>15 DEF HistoryTypeOK, MatchingHandlers
    <2> QED
      BY <2>1, <2>2, <2>3, <2>4
  <1>16. ASSUME RunObserver
        PROVE  TypeOK'
    <2>1. BusTypeOK'
      BY <1>16 DEF BusTypeOK, RunObserver
    <2>2. ClientTypeOK'
      BY <1>16 DEF ClientTypeOK, CallType, RunObserver
    <2>3. DispatcherTypeOK'
      BY <1>16, SMT DEF DispatcherTypeOK, RunObserver
    <2>4. HistoryTypeOK'
      BY <1>16 DEF HistoryTypeOK, RunObserver
    <2> QED
      BY <2>1, <2>2, <2>3, <2>4
  <1>17. ASSUME ContinueRefused
        PROVE  TypeOK'
    <2>1. BusTypeOK'
      BY <1>17 DEF BusTypeOK, ContinueRefused
    <2>2. ClientTypeOK'
      BY <1>17 DEF ClientTypeOK, CallType, ContinueRefused
    <2>3. DispatcherTypeOK'
      BY <1>17, SMT DEF DispatcherTypeOK, ContinueRefused
    <2>4. HistoryTypeOK'
      BY <1>17 DEF HistoryTypeOK, ContinueRefused
    <2> QED
      BY <2>1, <2>2, <2>3, <2>4
  <1>18. ASSUME ContinueTrace
        PROVE  TypeOK'
    <2>1. BusTypeOK'
      BY <1>18, SMT DEF BusTypeOK, ContinueTrace
    <2>2. ClientTypeOK'
      BY <1>18 DEF ClientTypeOK, CallType, ContinueTrace
    <2>3. DispatcherTypeOK'
      <3>1. NextHop \in 0 .. U8Max /\ cur.trace \in Nat /\ cur.event \in Events
        <4>1. cur \in Envelope
          BY <1>18 DEF DispatcherTypeOK, ContinueTrace
        <4>2. cur.hop \in 0 .. U8Max /\ cur.trace \in Nat /\ cur.event \in Events
          BY <4>1 DEF Envelope
        <4> QED
          BY <4>2, SMT DEF NextHop, SaturatingAdd1, U8Max
      <3>2. nextId \in Nat \ {0}
        BY DEF BusTypeOK
      <3>3. out' \in Envelope
        BY <1>18, <3>1, <3>2, EnvelopeType DEF ContinueTrace
      <3> QED
        BY <1>18, <3>3, ZenonT(30) DEF DispatcherTypeOK, ContinueTrace
    <2>4. HistoryTypeOK'
      BY <1>18 DEF HistoryTypeOK, ContinueTrace
    <2> QED
      BY <2>1, <2>2, <2>3, <2>4
  <1>19. ASSUME ContinueSend
        PROVE  TypeOK'
    <2>1. BusTypeOK'
      BY <1>19, SMT DEF BusTypeOK, ContinueSend, CanSend, DispatcherTypeOK
    <2>2. ClientTypeOK'
      BY <1>19 DEF ClientTypeOK, CallType, ContinueSend, CanSend
    <2>3. DispatcherTypeOK'
      BY <1>19, SMT DEF DispatcherTypeOK, ContinueSend, CanSend
    <2>4. HistoryTypeOK'
      BY <1>19, SMT DEF HistoryTypeOK, ContinueSend, CanSend, DispatcherTypeOK
    <2> QED
      BY <2>1, <2>2, <2>3, <2>4
  <1>20. ASSUME HandlersDone
        PROVE  TypeOK'
    <2>1. BusTypeOK'
      BY <1>20 DEF BusTypeOK, HandlersDone
    <2>2. ClientTypeOK'
      BY <1>20 DEF ClientTypeOK, CallType, HandlersDone
    <2>3. DispatcherTypeOK'
      BY <1>20 DEF DispatcherTypeOK, HandlersDone
    <2>4. HistoryTypeOK'
      BY <1>20 DEF HistoryTypeOK, HandlersDone
    <2> QED
      BY <2>1, <2>2, <2>3, <2>4
  <1>21. CASE UNCHANGED vars
    BY <1>21 DEF BusTypeOK, ClientTypeOK, CallType, DispatcherTypeOK, HistoryTypeOK, vars
  <1> QED
    BY <1>1, <1>2, <1>3, <1>4, <1>5, <1>6, <1>7, <1>8, <1>9, <1>10, <1>11, <1>12, <1>13,
       <1>14, <1>15, <1>16, <1>17, <1>18, <1>19, <1>20, <1>21
    DEF Next, ClientCall, ClientStep, Dispatch

(* The bus never stores anything outside its types; in particular the      *)
(* queue and the trace log respect the capacities given to EventBus::new.  *)
THEOREM TypeCorrect == Spec => []TypeOK
  <1>1. Init => TypeOK
    BY LimitsArePositive, SMT
    DEF Init, TypeOK, BusTypeOK, ClientTypeOK, CallType, DispatcherTypeOK, HistoryTypeOK
  <1> QED
    BY <1>1, TypeStep, PTL DEF Spec
-----------------------------------------------------------------------------
(***************************************************************************)
(* The inductive invariant behind ordered delivery and graceful shutdown.  *)
(* At most one client is inside shutdown; what was received is the front   *)
(* of what was accepted; and the channel holds exactly the rest of it, in  *)
(* order, with the single Stop of the shutting-down client somewhere       *)
(* behind everything that was accepted before shutdown was requested.      *)
(***************************************************************************)
ShuttingDown(c) == pc[c] \in {"stop", "join"}

ShutdownInv ==
    /\ active => closing = -1 /\ dpc # "stopped" /\ \A c \in Clients : ~ShuttingDown(c)
    /\ ~active => 0 <= closing
    /\ \A c, d \in Clients : ShuttingDown(c) /\ ShuttingDown(d) => c = d
    /\ dpc = "stopped" => closing <= Len(received)

PrefixInv ==
    /\ Len(received) <= Len(accepted)
    /\ \A i \in 1 .. Len(received) : received[i] = accepted[i]

NoStop ==
    /\ Len(queue) = Len(accepted) - Len(received)
    /\ \A i \in 1 .. Len(queue) : queue[i] = accepted[Len(received) + i]

StopAt(k) ==
    /\ Len(queue) = Len(accepted) - Len(received) + 1
    /\ queue[k] = Stop
    /\ \A i \in 1 .. Len(queue) :
         /\ i < k => queue[i] = accepted[Len(received) + i]
         /\ i > k => queue[i] = accepted[Len(received) + i - 1]
    /\ closing <= Len(received) + k - 1

StopQueued ==
    /\ ~active
    /\ \A c \in Clients : pc[c] # "stop"
    /\ \E k \in 1 .. Len(queue) : StopAt(k)

QueueInv == dpc # "stopped" => NoStop \/ StopQueued

OrderInv == ShutdownInv /\ PrefixInv /\ QueueInv

IInv == TypeOK /\ OrderInv

(* The lengths the order argument counts with are numbers.                 *)
LEMMA LengthsAreNatural ==
    ASSUME TypeOK
    PROVE  Len(queue) \in Nat /\ Len(accepted) \in Nat /\ Len(received) \in Nat /\ closing \in Int
  BY SeqLength, SMT DEF TypeOK, BusTypeOK, HistoryTypeOK

(* A step that moves nothing and brings no client into shutdown.           *)
LEMMA FrameStep ==
    ASSUME TypeOK, OrderInv,
           UNCHANGED <<active, closing, queue, accepted, received>>,
           dpc' = "stopped" <=> dpc = "stopped",
           \A c \in Clients : ShuttingDown(c)' => pc'[c] = pc[c]
    PROVE  OrderInv'
  <1>1. \A c \in Clients : ShuttingDown(c)' => ShuttingDown(c)
    BY DEF ShuttingDown
  <1>2. ShutdownInv'
    BY <1>1 DEF OrderInv, ShutdownInv
  <1>3. PrefixInv'
    BY DEF OrderInv, PrefixInv
  <1>4. QueueInv'
    <2>1. NoStop => NoStop'
      BY DEF NoStop
    <2>2. StopQueued => StopQueued'
      BY DEF StopQueued, StopAt, ShuttingDown
    <2> QED
      BY <2>1, <2>2 DEF OrderInv, QueueInv
  <1> QED
    BY <1>2, <1>3, <1>4 DEF OrderInv

(* A send of an envelope, by a client or by a relaying handler.            *)
LEMMA AcceptStep ==
    ASSUME TypeOK, OrderInv, NEW env \in Envelope,
           dpc # "stopped", dpc' # "stopped",
           queue' = Append(queue, env), accepted' = Append(accepted, env),
           UNCHANGED <<active, closing, received>>,
           \A c \in Clients : ShuttingDown(c)' => pc'[c] = pc[c]
    PROVE  OrderInv'
  <1> DEFINE n == Len(accepted)
             r == Len(received)
             q == Len(queue)
  <1>0. n \in Nat /\ r \in Nat /\ q \in Nat /\ closing \in Int
    BY LengthsAreNatural
  <1>1. /\ Len(accepted') = n + 1
        /\ \A i \in 1 .. n : accepted'[i] = accepted[i]
        /\ accepted'[n + 1] = env
    BY SeqAppend, SMT DEF TypeOK, HistoryTypeOK
  <1>2. /\ Len(queue') = q + 1
        /\ \A i \in 1 .. q : queue'[i] = queue[i]
        /\ queue'[q + 1] = env
    BY SeqAppend, SMT DEF TypeOK, BusTypeOK
  <1> HIDE DEF n, r, q
  <1>3. \A c \in Clients : ShuttingDown(c)' => ShuttingDown(c)
    BY DEF ShuttingDown
  <1>4. ShutdownInv'
    BY <1>3 DEF OrderInv, ShutdownInv
  <1>5. PrefixInv'
    BY <1>0, <1>1, SMT DEF OrderInv, PrefixInv, n, r
  <1>6. QueueInv'
    <2>1. CASE NoStop
      <3>1. q = n - r /\ \A i \in 1 .. q : queue[i] = accepted[r + i]
        BY <2>1 DEF NoStop, n, r, q
      <3>2. ASSUME NEW i \in 1 .. q + 1
            PROVE  queue'[i] = accepted'[r + i]
        <4>1. CASE i = q + 1
          BY <1>0, <1>1, <1>2, <3>1, <4>1, SMT
        <4>2. CASE i # q + 1
          <5>1. i \in 1 .. q /\ r + i \in 1 .. n
            BY <1>0, <3>1, <4>2, SMT
          <5> QED
            BY <1>1, <1>2, <3>1, <5>1
        <4> QED
          BY <4>1, <4>2
      <3> QED
        BY <1>0, <1>1, <1>2, <3>1, <3>2, SMTT(20) DEF QueueInv, NoStop, r
    <2>2. CASE StopQueued
      <3>1. PICK k \in 1 .. q : StopAt(k)
        BY <2>2 DEF StopQueued, q
      <3>a. /\ \A i \in 1 .. q : i < k => queue[i] = accepted[r + i]
            /\ \A i \in 1 .. q : i > k => queue[i] = accepted[r + i - 1]
        BY <3>1 DEF StopAt, r, q
      <3>2. q = n - r + 1 /\ queue[k] = Stop /\ closing <= r + k - 1
        BY <3>1 DEF StopAt, n, r, q
      <3>3. k \in 1 .. q + 1 /\ queue'[k] = Stop
        BY <1>0, <1>2, <3>2, SMT
      <3>4. ASSUME NEW i \in 1 .. q + 1
            PROVE  /\ i < k => queue'[i] = accepted'[r + i]
                   /\ i > k => queue'[i] = accepted'[r + i - 1]
        <4>1. CASE i = q + 1
          BY <1>0, <1>1, <1>2, <3>2, <4>1, SMT
        <4>2. CASE i # q + 1
          <5>1. i \in 1 .. q /\ queue'[i] = queue[i]
            BY <1>0, <1>2, <4>2, SMT
          <5>2. CASE i < k
            <6>1. r + i \in 1 .. n
              BY <1>0, <3>2, <5>1, <5>2, SMT
            <6>2. queue'[i] = accepted'[r + i]
              BY <1>1, <3>a, <5>1, <5>2, <6>1
            <6>3. ~(i > k)
              BY <1>0, <5>1, <5>2, SMT
            <6> QED
              BY <6>2, <6>3
          <5>3. CASE i > k
            <6>1. r + i - 1 \in 1 .. n
              BY <1>0, <3>2, <5>1, <5>3, SMT
            <6>2. queue'[i] = accepted'[r + i - 1]
              BY <1>1, <3>a, <5>1, <5>3, <6>1
            <6>3. ~(i < k)
              BY <1>0, <5>1, <5>3, SMT
            <6> QED
              BY <6>2, <6>3
          <5>4. CASE i = k
            BY <1>0, <5>1, <5>4, SMT
          <5> QED
            BY <1>0, <5>1, <5>2, <5>3, <5>4
        <4> QED
          BY <4>1, <4>2
      <3>5. StopAt(k)'
        <4>1. Len(received') = r /\ closing' = closing
          BY DEF r
        <4>2. Len(queue') = Len(accepted') - Len(received') + 1
          BY <1>0, <1>1, <1>2, <3>2, <4>1, SMT
        <4>3. \A i \in 1 .. Len(queue') :
                /\ i < k => queue'[i] = accepted'[Len(received') + i]
                /\ i > k => queue'[i] = accepted'[Len(received') + i - 1]
          BY <1>2, <3>4, <4>1
        <4>4. closing' <= Len(received') + k - 1
          BY <3>2, <4>1
        <4> QED
          BY <3>3, <4>2, <4>3, <4>4 DEF StopAt
      <3>6. \A c \in Clients : pc'[c] # "stop"
        BY <2>2 DEF StopQueued, ShuttingDown
      <3> QED
        BY <1>2, <2>2, <3>3, <3>5, <3>6 DEF QueueInv, StopQueued
    <2> QED
      BY <2>1, <2>2 DEF OrderInv, QueueInv
  <1> QED
    BY <1>4, <1>5, <1>6 DEF OrderInv

(* mark_inactive: the caller becomes the one client inside shutdown.       *)
LEMMA CloseStep ==
    ASSUME TypeOK, OrderInv, NEW c \in Clients, active, MarkInactive(c),
           UNCHANGED <<queue, accepted, received, dpc>>
    PROVE  OrderInv'
  <1> USE LengthsAreNatural
  <1>1. \A d \in Clients : ShuttingDown(d)' => d = c
    BY DEF OrderInv, ShutdownInv, ShuttingDown, MarkInactive, Goto, TypeOK, ClientTypeOK
  <1>2. ShutdownInv'
    BY <1>1, SMT DEF OrderInv, ShutdownInv, MarkInactive
  <1>3. PrefixInv'
    BY DEF OrderInv, PrefixInv
  <1>4. QueueInv'
    <2>1. NoStop /\ NoStop'
      BY DEF OrderInv, QueueInv, StopQueued, ShutdownInv, NoStop
    <2> QED
      BY <2>1 DEF QueueInv
  <1> QED
    BY <1>2, <1>3, <1>4 DEF OrderInv

(* The shutting-down client puts its Stop behind everything accepted.      *)
LEMMA StopStep ==
    ASSUME TypeOK, OrderInv, NEW c \in Clients, ShutdownSend(c)
    PROVE  OrderInv'
  <1> DEFINE n == Len(accepted)
             r == Len(received)
             q == Len(queue)
  <1>0. n \in Nat /\ r \in Nat /\ q \in Nat /\ closing \in Int /\ closing <= n
    BY LengthsAreNatural, SMT DEF TypeOK, HistoryTypeOK
  <1>1. /\ Len(queue') = q + 1
        /\ \A i \in 1 .. q : queue'[i] = queue[i]
        /\ queue'[q + 1] = Stop
    BY SeqAppend, SMT DEF TypeOK, BusTypeOK, ShutdownSend
  <1>2. /\ UNCHANGED <<active, closing, accepted, received, dpc>>
        /\ dpc # "stopped" /\ pc[c] = "stop"
        /\ DOMAIN pc = Clients /\ pc' = [pc EXCEPT ![c] = "join"]
    BY DEF ShutdownSend, CanSend, DispatcherStopped, dispatcher, history, Goto,
           TypeOK, ClientTypeOK
  <1>3. \A d \in Clients : ShuttingDown(d)' <=> ShuttingDown(d)
    BY <1>2 DEF ShuttingDown
  <1>4. ~active
    BY <1>2 DEF OrderInv, ShutdownInv, ShuttingDown
  <1>5. ShutdownInv'
    BY <1>2, <1>3 DEF OrderInv, ShutdownInv
  <1>6. PrefixInv'
    BY <1>2 DEF OrderInv, PrefixInv
  <1>7. NoStop
    BY <1>2 DEF OrderInv, QueueInv, StopQueued
  <1>8. /\ q = n - r
        /\ \A i \in 1 .. q : queue[i] = accepted[r + i]
    BY <1>7 DEF NoStop
  <1>9. Len(accepted') = n /\ Len(received') = r /\ closing' = closing
    BY <1>2
  <1> HIDE DEF n, r, q
  <1>a. PICK m \in Nat : m = q + 1
    BY <1>0, SMT
  <1>10. StopAt(m)'
    <2>1. Len(queue') = Len(accepted') - Len(received') + 1
      BY <1>0, <1>1, <1>8, <1>9
    <2>2. ASSUME NEW i \in 1 .. Len(queue')
          PROVE  /\ i < m => queue'[i] = accepted'[Len(received') + i]
                 /\ i > m => queue'[i] = accepted'[Len(received') + i - 1]
      <3>1. CASE i \in 1 .. q
        <4>1. queue'[i] = accepted'[Len(received') + i]
          BY <1>1, <1>2, <1>8, <1>9, <3>1
        <4>2. ~(i > m)
          BY <1>0, <1>a, <3>1, SMT
        <4> QED
          BY <4>1, <4>2
      <3>2. CASE i = q + 1
        BY <1>0, <1>a, <3>2, SMT
      <3> QED
        BY <1>0, <1>1, <3>1, <3>2, SMT
    <2>3. closing' <= Len(received') + m - 1
      BY <1>0, <1>8, <1>9, <1>a, SMT
    <2>4. queue'[m] = Stop
      BY <1>1, <1>a
    <2> QED
      BY <2>1, <2>2, <2>3, <2>4 DEF StopAt
  <1>11. \A d \in Clients : pc'[d] # "stop"
    BY <1>2 DEF OrderInv, ShutdownInv, ShuttingDown
  <1>12. StopQueued'
    <2>1. m \in 1 .. Len(queue')
      BY <1>0, <1>1, <1>a, SMT
    <2>2. \E k \in 1 .. Len(queue') : StopAt(k)'
      BY <1>10, <2>1
    <2> QED
      BY <1>2, <1>4, <1>11, <2>2 DEF StopQueued
  <1> QED
    BY <1>5, <1>6, <1>12 DEF OrderInv, QueueInv

(* The dispatch thread takes the next accepted envelope.                   *)
LEMMA ReceiveStep ==
    ASSUME TypeOK, OrderInv, Receive
    PROVE  /\ OrderInv'
           /\ Len(received) < Len(accepted)
           /\ Head(queue) = accepted[Len(received) + 1]
  <1> DEFINE n == Len(accepted)
             r == Len(received)
             q == Len(queue)
  <1>0. n \in Nat /\ r \in Nat /\ q \in Nat /\ closing \in Int /\ r <= n
    BY LengthsAreNatural DEF OrderInv, PrefixInv
  <1>1. /\ q >= 1 /\ Head(queue) = queue[1]
        /\ Len(queue') = q - 1
        /\ \A i \in 1 .. q - 1 : queue'[i] = queue[i + 1]
    BY SeqHeadTail, SeqLength, SMT DEF TypeOK, BusTypeOK, Receive
  <1>2. Head(queue) # Stop /\ Head(queue) \in Envelope
    BY SeqHeadTail, SMT DEF TypeOK, BusTypeOK, Receive
  <1>3. /\ UNCHANGED <<active, closing, accepted, pc>>
        /\ dpc # "stopped" /\ dpc' # "stopped"
    BY DEF Receive, clients
  <1>4. /\ Len(received') = r + 1
        /\ \A i \in 1 .. r : received'[i] = received[i]
        /\ received'[r + 1] = Head(queue)
    BY <1>2, SeqAppend, SMT DEF TypeOK, HistoryTypeOK, Receive
  <1>5. Len(accepted') = n
    BY <1>3
  <1>6. (NoStop => q = n - r) /\ (NoStop => \A i \in 1 .. q : queue[i] = accepted[r + i])
    BY DEF NoStop
  <1>7. ASSUME NEW k \in 1 .. q, StopAt(k)
        PROVE  /\ q = n - r + 1 /\ queue[k] = Stop /\ closing <= r + k - 1
               /\ \A i \in 1 .. q : i < k => queue[i] = accepted[r + i]
               /\ \A i \in 1 .. q : i > k => queue[i] = accepted[r + i - 1]
    BY <1>7 DEF StopAt
  <1>8. StopQueued => \E k \in 1 .. q : StopAt(k)
    BY DEF StopQueued
  <1> HIDE DEF n, r, q
  <1>9. r < n /\ Head(queue) = accepted[r + 1]
    <2>1. CASE NoStop
      BY <1>0, <1>1, <1>6, <2>1, SMT
    <2>2. CASE StopQueued
      <3>1. PICK k \in 1 .. q : StopAt(k)
        BY <1>8, <2>2
      <3>2. /\ q = n - r + 1 /\ queue[k] = Stop
            /\ \A i \in 1 .. q : i < k => queue[i] = accepted[r + i]
        BY <1>7, <3>1
      <3>3. k > 1
        BY <1>0, <1>1, <1>2, <3>2, SMT
      <3>4. 1 \in 1 .. q /\ 1 < k
        BY <1>0, <1>1, <3>3, SMT
      <3>5. queue[1] = accepted[r + 1]
        BY <3>2, <3>4
      <3> QED
        BY <1>0, <1>1, <3>2, <3>3, <3>5, SMT
    <2> QED
      BY <1>3, <2>1, <2>2 DEF OrderInv, QueueInv
  <1>10. ShutdownInv'
    BY <1>3 DEF OrderInv, ShutdownInv, ShuttingDown
  <1>11. PrefixInv'
    <2>1. ASSUME NEW i \in 1 .. r + 1
          PROVE  received'[i] = accepted'[i]
      <3>1. CASE i = r + 1
        BY <1>3, <1>4, <1>9, <3>1
      <3>2. CASE i \in 1 .. r
        <4>1. received[i] = accepted[i]
          BY <3>2 DEF OrderInv, PrefixInv, r
        <4> QED
          BY <1>3, <1>4, <3>2, <4>1
      <3> QED
        BY <1>0, <3>1, <3>2, SMT
    <2> QED
      BY <1>0, <1>4, <1>5, <1>9, <2>1, SMT DEF PrefixInv
  <1>12. NoStop => NoStop'
    <2> SUFFICES ASSUME NoStop PROVE NoStop'
      OBVIOUS
    <2>1. Len(queue') = Len(accepted') - Len(received')
      BY <1>0, <1>1, <1>4, <1>5, <1>6, SMT
    <2>2. ASSUME NEW i \in 1 .. Len(queue')
          PROVE  queue'[i] = accepted'[Len(received') + i]
      <3>1. i \in 1 .. q - 1 /\ i + 1 \in 1 .. q /\ r + 1 + i = r + (i + 1)
        BY <1>0, <1>1, SMT
      <3> QED
        BY <1>1, <1>3, <1>4, <1>6, <3>1
    <2> QED
      BY <2>1, <2>2 DEF NoStop
  <1>13. ASSUME NEW k \in 1 .. q, StopAt(k)
         PROVE  k - 1 \in 1 .. Len(queue') /\ StopAt(k - 1)'
    <2>1. q = n - r + 1 /\ queue[k] = Stop /\ closing <= r + k - 1
      BY <1>7, <1>13
    <2>a. /\ \A i \in 1 .. q : i < k => queue[i] = accepted[r + i]
          /\ \A i \in 1 .. q : i > k => queue[i] = accepted[r + i - 1]
      BY <1>7, <1>13
    <2>2. k > 1
      BY <1>0, <1>1, <1>2, <2>1, SMT
    <2>3. k - 1 \in 1 .. q - 1 /\ (k - 1) + 1 = k
      BY <1>0, <2>2, SMT
    <2>4. queue'[k - 1] = Stop
      BY <1>1, <2>1, <2>3
    <2>5. Len(queue') = Len(accepted') - Len(received') + 1
      BY <1>0, <1>1, <1>4, <1>5, <2>1, SMT
    <2>6. ASSUME NEW i \in 1 .. Len(queue')
          PROVE  /\ i < k - 1 => queue'[i] = accepted'[Len(received') + i]
                 /\ i > k - 1 => queue'[i] = accepted'[Len(received') + i - 1]
      <3>1. i \in 1 .. q - 1 /\ i + 1 \in 1 .. q
        BY <1>0, <1>1, SMT
      <3>2. /\ i < k - 1 => i + 1 < k
            /\ i > k - 1 => i + 1 > k
            /\ Len(received') + i = r + (i + 1)
            /\ Len(received') + i - 1 = r + (i + 1) - 1
        BY <1>0, <1>4, <3>1, SMT
      <3>3. /\ i + 1 < k => queue[i + 1] = accepted[r + (i + 1)]
            /\ i + 1 > k => queue[i + 1] = accepted[r + (i + 1) - 1]
        BY <2>a, <3>1
      <3> QED
        BY <1>1, <1>3, <3>1, <3>2, <3>3
    <2>7. closing' <= Len(received') + (k - 1) - 1
      BY <1>0, <1>3, <1>4, <2>1, SMT
    <2> QED
      BY <1>1, <2>3, <2>4, <2>5, <2>6, <2>7 DEF StopAt
  <1>14. QueueInv'
    <2>1. StopQueued => StopQueued'
      <3> SUFFICES ASSUME StopQueued PROVE StopQueued'
        OBVIOUS
      <3>1. \E k \in 1 .. Len(queue') : StopAt(k)'
        BY <1>8, <1>13
      <3> QED
        BY <1>3, <3>1 DEF StopQueued
    <2> QED
      BY <1>3, <1>12, <2>1 DEF OrderInv, QueueInv
  <1> QED
    BY <1>9, <1>10, <1>11, <1>14 DEF OrderInv, n, r

(* The dispatch thread takes Stop: all that was accepted before shutdown   *)
(* was requested has been received.                                        *)
LEMMA FinishStep ==
    ASSUME TypeOK, OrderInv, ReceiveStop
    PROVE  OrderInv' /\ ~active /\ closing <= Len(received)
  <1> DEFINE n == Len(accepted)
             r == Len(received)
             q == Len(queue)
  <1>0. n \in Nat /\ r \in Nat /\ q \in Nat /\ closing \in Int /\ r <= n
    BY LengthsAreNatural DEF OrderInv, PrefixInv
  <1>1. q >= 1 /\ queue[1] = Stop
    BY SeqHeadTail, SeqLength, SMT DEF TypeOK, BusTypeOK, ReceiveStop
  <1>2. /\ UNCHANGED <<active, closing, accepted, received, pc>>
        /\ dpc # "stopped" /\ dpc' = "stopped"
    BY DEF ReceiveStop, clients, history
  <1>3. \A i \in 1 .. n : accepted[i] # Stop
    BY SeqElement, StopIsNoEnvelope DEF TypeOK, HistoryTypeOK
  <1>4. NoStop => q = n - r /\ \A i \in 1 .. q : queue[i] = accepted[r + i]
    BY DEF NoStop
  <1>5. ASSUME NEW k \in 1 .. q, StopAt(k)
        PROVE  /\ q = n - r + 1 /\ closing <= r + k - 1
               /\ \A i \in 1 .. q : i < k => queue[i] = accepted[r + i]
    BY <1>5 DEF StopAt
  <1>6. StopQueued => ~active /\ \E k \in 1 .. q : StopAt(k)
    BY DEF StopQueued
  <1> HIDE DEF n, r, q
  <1>7. ~NoStop
    <2> SUFFICES ASSUME NoStop PROVE FALSE
      OBVIOUS
    <2>1. 1 \in 1 .. q /\ r + 1 \in 1 .. n
      BY <1>0, <1>1, <1>4, SMT
    <2> QED
      BY <1>1, <1>3, <1>4, <2>1
  <1>8. StopQueued
    BY <1>2, <1>7 DEF OrderInv, QueueInv
  <1>9. PICK k \in 1 .. q : StopAt(k)
    BY <1>6, <1>8
  <1>10. k = 1
    <2> SUFFICES ASSUME k # 1 PROVE FALSE
      OBVIOUS
    <2>1. 1 \in 1 .. q /\ 1 < k /\ r + 1 \in 1 .. n
      <3>1. q = n - r + 1
        BY <1>5, <1>9
      <3> QED
        BY <1>0, <1>1, <3>1, SMT
    <2>2. queue[1] = accepted[r + 1]
      BY <1>5, <1>9, <2>1
    <2> QED
      BY <1>1, <1>3, <2>1, <2>2
  <1>11. closing <= r
    <2>1. closing <= r + k - 1
      BY <1>5, <1>9
    <2> QED
      BY <1>0, <1>10, <2>1, SMT
  <1>12. ShutdownInv'
    BY <1>2, <1>6, <1>8, <1>11 DEF OrderInv, ShutdownInv, ShuttingDown, r
  <1>13. PrefixInv'
    BY <1>2 DEF OrderInv, PrefixInv
  <1>14. QueueInv'
    BY <1>2 DEF QueueInv
  <1> QED
    BY <1>6, <1>8, <1>11, <1>12, <1>13, <1>14 DEF OrderInv, r

-----------------------------------------------------------------------------
(* Every step of the bus preserves the order invariant, given the types.   *)
LEMMA OrderStep == TypeOK /\ OrderInv /\ [Next]_vars => OrderInv'
  <1> SUFFICES ASSUME TypeOK, OrderInv, [Next]_vars
               PROVE  OrderInv'
    OBVIOUS
  <1>a. DOMAIN pc = Clients
    BY DEF TypeOK, ClientTypeOK
  <1> USE DEF clients, bus, dispatcher, history, Goto, ShuttingDown
  <1>1. ASSUME NEW c \in Clients, NEW e \in Events, Publish(c, e)
        PROVE  OrderInv'
    BY <1>1, <1>a, FrameStep DEF Publish
  <1>2. ASSUME NEW c \in Clients, NEW e \in Events, NEW k \in Kinds, Subscribe(c, e, k)
        PROVE  OrderInv'
    BY <1>2, <1>a, FrameStep DEF Subscribe
  <1>3. ASSUME NEW c \in Clients, NEW e \in Events, NEW i \in DOMAIN subs[e],
               Unsubscribe(c, e, i)
        PROVE  OrderInv'
    BY <1>3, FrameStep DEF Unsubscribe
  <1>4. ASSUME NEW c \in Clients, Shutdown(c)
        PROVE  OrderInv'
    BY <1>4, CloseStep DEF Shutdown
  <1>5. ASSUME NEW c \in Clients, DropHandle(c)
        PROVE  OrderInv'
    <2>1. CASE StrongCount = 1 /\ active
      BY <1>5, <2>1, CloseStep DEF DropHandle
    <2>2. CASE ~(StrongCount = 1 /\ active)
      BY <1>5, <1>a, <2>2, FrameStep DEF DropHandle
    <2> QED
      BY <2>1, <2>2
  <1>6. ASSUME NEW c \in Clients, PublishRefused(c)
        PROVE  OrderInv'
    BY <1>6, <1>a, FrameStep DEF PublishRefused
  <1>7. ASSUME NEW c \in Clients, PublishAdmitted(c)
        PROVE  OrderInv'
    BY <1>7, <1>a, FrameStep DEF PublishAdmitted
  <1>8. ASSUME NEW c \in Clients, PublishSend(c)
        PROVE  OrderInv'
    <2>1. call[c] \in Envelope
      BY <1>8 DEF TypeOK, ClientTypeOK, CallType, PublishSend
    <2> QED
      BY <1>8, <1>a, <2>1, AcceptStep DEF PublishSend, CanSend, DispatcherStopped
  <1>9. ASSUME NEW c \in Clients, PublishDisconnected(c)
        PROVE  OrderInv'
    BY <1>9, <1>a, FrameStep DEF PublishDisconnected
  <1>10. ASSUME NEW c \in Clients, SubscribePush(c)
         PROVE  OrderInv'
    BY <1>10, <1>a, FrameStep DEF SubscribePush
  <1>11. ASSUME NEW c \in Clients, ShutdownSend(c)
         PROVE  OrderInv'
    BY <1>11, StopStep
  <1>12. ASSUME NEW c \in Clients, ShutdownJoin(c)
         PROVE  OrderInv'
    BY <1>12, <1>a, FrameStep DEF ShutdownJoin
  <1>13. CASE Receive
    BY <1>13, ReceiveStep
  <1>14. CASE ReceiveStop
    BY <1>14, FinishStep
  <1>15. CASE MatchingHandlers
    BY <1>15, FrameStep DEF MatchingHandlers
  <1>16. CASE RunObserver
    BY <1>16, FrameStep DEF RunObserver
  <1>17. CASE ContinueRefused
    BY <1>17, FrameStep DEF ContinueRefused
  <1>18. CASE ContinueTrace
    BY <1>18, FrameStep DEF ContinueTrace
  <1>19. CASE ContinueSend
    <2>1. out \in Envelope
      BY <1>19 DEF TypeOK, DispatcherTypeOK, ContinueSend
    <2> QED
      BY <1>19, <2>1, AcceptStep DEF ContinueSend
  <1>20. CASE HandlersDone
    BY <1>20, FrameStep DEF HandlersDone
  <1>21. CASE UNCHANGED vars
    BY <1>21, FrameStep DEF vars
  <1> QED
    BY <1>1, <1>2, <1>3, <1>4, <1>5, <1>6, <1>7, <1>8, <1>9, <1>10, <1>11, <1>12, <1>13,
       <1>14, <1>15, <1>16, <1>17, <1>18, <1>19, <1>20, <1>21
    DEF Next, ClientCall, ClientStep, Dispatch

(* IInv holds initially and is preserved by every step.                    *)
THEOREM Inductive == Spec => []IInv
  <1>1. Init => TypeOK
    BY LimitsArePositive, SMT
    DEF Init, TypeOK, BusTypeOK, ClientTypeOK, CallType, DispatcherTypeOK, HistoryTypeOK
  <1>2. Init => OrderInv
    BY SMT DEF Init, OrderInv, ShutdownInv, ShuttingDown, PrefixInv, QueueInv, NoStop
  <1>3. IInv /\ [Next]_vars => IInv'
    BY TypeStep, OrderStep DEF IInv
  <1> QED
    BY <1>1, <1>2, <1>3, PTL DEF Spec, IInv

(* When the dispatch thread has ended it has received every event accepted *)
(* before shutdown was requested (EventBus::shutdown, dispatch_loop).      *)
THEOREM ShutdownIsGraceful == Spec => []GracefulShutdown
  <1>1. IInv => GracefulShutdown
    BY LengthsAreNatural
    DEF IInv, OrderInv, ShutdownInv, GracefulShutdown, DispatcherStopped
  <1> QED
    BY <1>1, Inductive, PTL

(* Events are dispatched in the order their sends returned, none skipped   *)
(* and none twice (the channel between publish and dispatch_loop).         *)
THEOREM DeliveryIsOrdered == Spec => []ReceivedInOrder
  <1>1. IInv => ReceivedInOrder
    <2> SUFFICES ASSUME IInv PROVE ReceivedInOrder
      OBVIOUS
    <2>1. /\ received \in Seq(Envelope) /\ accepted \in Seq(Envelope)
          /\ Len(received) \in Nat /\ Len(accepted) \in Nat
          /\ Len(received) <= Len(accepted)
          /\ \A i \in 1 .. Len(received) : received[i] = accepted[i]
      BY SeqLength DEF IInv, TypeOK, HistoryTypeOK, OrderInv, PrefixInv
    <2>2. received = SubSeq(accepted, 1, Len(received))
      BY <2>1, SMT
    <2> QED
      BY <2>1, <2>2 DEF ReceivedInOrder
  <1> QED
    BY <1>1, Inductive, PTL
-----------------------------------------------------------------------------
(* A send appends one envelope to the log of the contract.                 *)
LEMMA ContractAccept ==
    ASSUME TypeOK, NEW env \in Envelope, dpc # "stopped", dpc' # "stopped",
           accepted' = Append(accepted, env), UNCHANGED <<active, closing, received>>
    PROVE  Contract!Accept
  <1>1. /\ Len(accepted') = Len(accepted) + 1
        /\ accepted'[Len(accepted) + 1] = env
    BY SeqAppend DEF TypeOK, HistoryTypeOK
  <1> QED
    BY <1>1 DEF Contract!Accept, DispatcherStopped

(* Every step of the bus is a step of the contract, or leaves it alone.    *)
LEMMA ContractStep == IInv /\ [Next]_vars => [Contract!Next]_Contract!contract
  <1> SUFFICES ASSUME TypeOK, OrderInv, [Next]_vars
               PROVE  Contract!Next \/ UNCHANGED Contract!contract
    BY DEF IInv
  <1> USE DEF clients, bus, dispatcher, history
  <1> DEFINE Idle == /\ UNCHANGED <<accepted, received, closing, active>>
                     /\ dpc' = "stopped" <=> dpc = "stopped"
  <1>a. Idle => UNCHANGED Contract!contract
    BY SMT DEF Contract!contract, DispatcherStopped
  <1>b. ASSUME NEW c \in Clients, active, MarkInactive(c), UNCHANGED <<accepted, received, dpc>>
        PROVE  Contract!Next
    <2>1. dpc # "stopped"
      BY <1>b DEF OrderInv, ShutdownInv
    <2> QED
      BY <1>b, <2>1 DEF MarkInactive, Contract!Next, Contract!Close, DispatcherStopped
  <1>1. ASSUME NEW c \in Clients, ClientCall(c)
        PROVE  Contract!Next \/ UNCHANGED Contract!contract
    <2>1. CASE Shutdown(c)
      BY <2>1, <1>b DEF Shutdown
    <2>2. CASE DropHandle(c)
      <3>1. CASE StrongCount = 1 /\ active
        BY <2>2, <3>1, <1>b DEF DropHandle
      <3>2. CASE ~(StrongCount = 1 /\ active)
        BY <2>2, <3>2, <1>a DEF DropHandle
      <3> QED
        BY <3>1, <3>2
    <2>3. CASE \E e \in Events : Publish(c, e)
      BY <2>3, <1>a DEF Publish
    <2>4. CASE \E e \in Events, k \in Kinds : Subscribe(c, e, k)
      BY <2>4, <1>a DEF Subscribe
    <2>5. CASE \E e \in Events : \E i \in DOMAIN subs[e] : Unsubscribe(c, e, i)
      BY <2>5, <1>a DEF Unsubscribe
    <2> QED
      BY <1>1, <2>1, <2>2, <2>3, <2>4, <2>5 DEF ClientCall
  <1>2. ASSUME NEW c \in Clients, ClientStep(c)
        PROVE  Contract!Next \/ UNCHANGED Contract!contract
    <2>1. CASE PublishSend(c)
      <3>1. call[c] \in Envelope
        BY <2>1 DEF TypeOK, ClientTypeOK, CallType, PublishSend
      <3> QED
        BY <2>1, <3>1, ContractAccept
        DEF PublishSend, CanSend, DispatcherStopped, Contract!Next
    <2>2. CASE PublishRefused(c)
      BY <2>2, <1>a DEF PublishRefused
    <2>3. CASE PublishAdmitted(c)
      BY <2>3, <1>a DEF PublishAdmitted
    <2>4. CASE PublishDisconnected(c)
      BY <2>4, <1>a DEF PublishDisconnected
    <2>5. CASE SubscribePush(c)
      BY <2>5, <1>a DEF SubscribePush
    <2>6. CASE ShutdownSend(c)
      BY <2>6, <1>a DEF ShutdownSend
    <2>7. CASE ShutdownJoin(c)
      BY <2>7, <1>a DEF ShutdownJoin
    <2> QED
      BY <1>2, <2>1, <2>2, <2>3, <2>4, <2>5, <2>6, <2>7 DEF ClientStep
  <1>3. CASE Dispatch
    <2>1. CASE Receive
      <3>1. Len(received) < Len(accepted) /\ Head(queue) = accepted[Len(received) + 1]
        BY <2>1, ReceiveStep
      <3> QED
        BY <2>1, <3>1 DEF Receive, Contract!Next, Contract!Deliver, DispatcherStopped
    <2>2. CASE ReceiveStop
      <3>1. ~active /\ closing <= Len(received)
        BY <2>2, FinishStep
      <3> QED
        BY <2>2, <3>1 DEF ReceiveStop, Contract!Next, Contract!Finish, DispatcherStopped
    <2>3. CASE ContinueSend
      <3>1. out \in Envelope
        BY <2>3 DEF TypeOK, DispatcherTypeOK, ContinueSend
      <3> QED
        BY <2>3, <3>1, ContractAccept DEF ContinueSend, Contract!Next
    <2>4. CASE MatchingHandlers
      BY <2>4, <1>a DEF MatchingHandlers
    <2>5. CASE RunObserver
      BY <2>5, <1>a DEF RunObserver
    <2>6. CASE ContinueRefused
      BY <2>6, <1>a DEF ContinueRefused
    <2>7. CASE ContinueTrace
      BY <2>7, <1>a DEF ContinueTrace
    <2>8. CASE HandlersDone
      BY <2>8, <1>a DEF HandlersDone
    <2> QED
      BY <1>3, <2>1, <2>2, <2>3, <2>4, <2>5, <2>6, <2>7, <2>8 DEF Dispatch
  <1>4. CASE UNCHANGED vars
    BY <1>4, <1>a DEF vars
  <1> QED
    BY <1>1, <1>2, <1>3, <1>4 DEF Next

(* The threads, channel and handlers of the bus implement BusContract: an  *)
(* ordered log, delivered in order, closed only when all that was accepted *)
(* before the close request is delivered, silent afterwards.               *)
THEOREM BusImplementsContract == Spec => ImplementsContract
  <1>1. Init => Contract!Init
    BY DEF Init, Contract!Init, DispatcherStopped
  <1> QED
    BY <1>1, ContractStep, Inductive, PTL DEF Spec, Contract!Spec, ImplementsContract
-----------------------------------------------------------------------------
(***************************************************************************)
(* Late sends.  Once `active` is down nobody passes its check any more, so *)
(* what can still be accepted is one envelope for every client, and for    *)
(* the handler, that had passed it.  The caller of shutdown is not one of  *)
(* those clients, which leaves room for the handler.                       *)
(***************************************************************************)
Sending == {c \in Clients : pc[c] = "send"}

Relaying == IF dpc = "relay" THEN 1 ELSE 0

LossInv ==
    ~active => Len(accepted) - closing + Cardinality(Sending) + Relaying
                 <= Cardinality(Clients)

(* The numbers of clients, and of clients that are sending.                *)
LEMMA SendersCounted ==
    ASSUME NEW S \in SUBSET Clients
    PROVE  /\ IsFiniteSet(S) /\ Cardinality(S) \in Nat /\ Cardinality(Clients) \in Nat
           /\ Cardinality(S) <= Cardinality(Clients)
           /\ S # Clients => Cardinality(S) <= Cardinality(Clients) - 1
  <1>1. /\ IsFiniteSet(S) /\ Cardinality(S) <= Cardinality(Clients)
        /\ Cardinality(Clients) = Cardinality(S) => Clients = S
    BY ClientsAssumption, FS_Subset
  <1>2. Cardinality(S) \in Nat /\ Cardinality(Clients) \in Nat
    BY <1>1, ClientsAssumption, FS_CardinalityType
  <1> QED
    BY <1>1, <1>2, SMT

(* A step without a send and without a new sender.                         *)
LEMMA LossFrame ==
    ASSUME TypeOK, LossInv, UNCHANGED <<active, accepted, closing>>,
           ~active => \A c \in Clients : pc'[c] = "send" => pc[c] = "send",
           ~active /\ dpc' = "relay" => dpc = "relay"
    PROVE  LossInv'
  <1> SUFFICES ASSUME ~active PROVE LossInv'
    BY DEF LossInv
  <1>1. Sending' \in SUBSET Sending /\ Sending \in SUBSET Clients /\ Relaying' <= Relaying
    <2>1. Sending' \in SUBSET Sending /\ Sending \in SUBSET Clients
      BY DEF Sending
    <2>2. Relaying' <= Relaying
      BY SMT DEF Relaying
    <2> QED
      BY <2>1, <2>2
  <1>2. Cardinality(Sending') <= Cardinality(Sending)
    BY <1>1, SendersCounted, FS_Subset
  <1>3. /\ Cardinality(Sending) \in Nat /\ Cardinality(Sending') \in Nat
        /\ Cardinality(Clients) \in Nat
    BY <1>1, SendersCounted
  <1>4. Len(accepted) \in Nat /\ closing \in Int /\ Relaying \in Nat /\ Relaying' \in Nat
    BY LengthsAreNatural, SMT DEF Relaying
  <1>5. Len(accepted) - closing + Cardinality(Sending) + Relaying <= Cardinality(Clients)
    BY DEF LossInv
  <1>6. Len(accepted') = Len(accepted) /\ closing' = closing
    OBVIOUS
  <1>7. Len(accepted') - closing' + Cardinality(Sending') + Relaying'
          <= Cardinality(Clients)
    BY <1>1, <1>2, <1>3, <1>4, <1>5, <1>6, SMT
  <1> QED
    BY <1>7 DEF LossInv

(* mark_inactive: its caller is not sending.                               *)
LEMMA LossCloses ==
    ASSUME TypeOK, LossInv, NEW c \in Clients, pc[c] = "idle", MarkInactive(c),
           UNCHANGED <<accepted, dpc>>
    PROVE  LossInv'
  <1>1. Sending' \in SUBSET Clients /\ c \notin Sending'
    BY DEF Sending, MarkInactive, Goto, TypeOK, ClientTypeOK
  <1>2. /\ Cardinality(Sending') <= Cardinality(Clients) - 1
        /\ Cardinality(Sending') \in Nat /\ Cardinality(Clients) \in Nat
    BY <1>1, SendersCounted
  <1>3. Len(accepted) \in Nat /\ closing' = Len(accepted) /\ accepted' = accepted
    BY LengthsAreNatural DEF MarkInactive
  <1>4. Relaying' \in Nat /\ Relaying' <= 1
    BY SMT DEF Relaying
  <1>5. Len(accepted') - closing' + Cardinality(Sending') + Relaying'
          <= Cardinality(Clients)
    BY <1>2, <1>3, <1>4, SMT
  <1> QED
    BY <1>5 DEF LossInv

(* A sender becomes idle with its send.                                    *)
LEMMA LossSends ==
    ASSUME TypeOK, LossInv, NEW c \in Clients, PublishSend(c)
    PROVE  LossInv'
  <1> SUFFICES ASSUME ~active PROVE LossInv'
    BY DEF LossInv, PublishSend
  <1>1. /\ c \in Sending /\ Sending' = Sending \ {c} /\ Sending \in SUBSET Clients
        /\ Relaying' = Relaying
    BY DEF Sending, Relaying, PublishSend, Goto, TypeOK, ClientTypeOK, dispatcher
  <1>2. IsFiniteSet(Sending) /\ Cardinality(Sending) \in Nat
        /\ Cardinality(Clients) \in Nat
    BY <1>1, SendersCounted
  <1>3. Cardinality(Sending') = Cardinality(Sending) - 1
    BY <1>1, <1>2, FS_RemoveElement
  <1>4. Len(accepted) \in Nat /\ closing \in Int /\ closing' = closing /\ Relaying \in Nat
    BY LengthsAreNatural, SMT DEF PublishSend, Relaying
  <1>5. Len(accepted') = Len(accepted) + 1
    <2>1. call[c] \in Envelope
      BY DEF TypeOK, ClientTypeOK, CallType, PublishSend
    <2> QED
      BY <2>1, SeqAppend DEF TypeOK, HistoryTypeOK, PublishSend
  <1>6. Len(accepted) - closing + Cardinality(Sending) + Relaying <= Cardinality(Clients)
    BY DEF LossInv
  <1>7. Len(accepted') - closing' + Cardinality(Sending') + Relaying'
          <= Cardinality(Clients)
    BY <1>1, <1>2, <1>3, <1>4, <1>5, <1>6, SMT
  <1> QED
    BY <1>7 DEF LossInv

(* The handler's send ends its relaying.                                   *)
LEMMA LossContinues ==
    ASSUME TypeOK, LossInv, ContinueSend
    PROVE  LossInv'
  <1> SUFFICES ASSUME ~active PROVE LossInv'
    BY DEF LossInv, ContinueSend
  <1>1. /\ Sending' = Sending /\ Sending \in SUBSET Clients
        /\ Relaying = 1 /\ Relaying' = 0
    BY DEF Sending, Relaying, ContinueSend, clients
  <1>2. Cardinality(Sending) \in Nat /\ Cardinality(Clients) \in Nat
    BY <1>1, SendersCounted
  <1>3. Len(accepted) \in Nat /\ closing \in Int /\ closing' = closing
    BY LengthsAreNatural DEF ContinueSend
  <1>4. Len(accepted') = Len(accepted) + 1
    BY SeqAppend DEF TypeOK, HistoryTypeOK, DispatcherTypeOK, ContinueSend
  <1>5. Len(accepted) - closing + Cardinality(Sending) + Relaying <= Cardinality(Clients)
    BY DEF LossInv
  <1>6. Len(accepted') - closing' + Cardinality(Sending') + Relaying'
          <= Cardinality(Clients)
    BY <1>1, <1>2, <1>3, <1>4, <1>5, SMT
  <1> QED
    BY <1>6 DEF LossInv

(* Every step keeps the count of late sends.                               *)
LEMMA LossStep == TypeOK /\ LossInv /\ [Next]_vars => LossInv'
  <1> SUFFICES ASSUME TypeOK, LossInv, [Next]_vars
               PROVE  LossInv'
    OBVIOUS
  <1>a. DOMAIN pc = Clients
    BY DEF TypeOK, ClientTypeOK
  <1> USE DEF clients, bus, dispatcher, history, Goto
  <1>1. ASSUME NEW c \in Clients, NEW e \in Events, Publish(c, e)
        PROVE  LossInv'
    BY <1>1, <1>a, LossFrame DEF Publish
  <1>2. ASSUME NEW c \in Clients, NEW e \in Events, NEW k \in Kinds, Subscribe(c, e, k)
        PROVE  LossInv'
    BY <1>2, <1>a, LossFrame DEF Subscribe
  <1>3. ASSUME NEW c \in Clients, NEW e \in Events, NEW i \in DOMAIN subs[e],
               Unsubscribe(c, e, i)
        PROVE  LossInv'
    BY <1>3, LossFrame DEF Unsubscribe
  <1>4. ASSUME NEW c \in Clients, Shutdown(c)
        PROVE  LossInv'
    BY <1>4, LossCloses DEF Shutdown
  <1>5. ASSUME NEW c \in Clients, DropHandle(c)
        PROVE  LossInv'
    <2>1. CASE StrongCount = 1 /\ active
      BY <1>5, <2>1, LossCloses DEF DropHandle
    <2>2. CASE ~(StrongCount = 1 /\ active)
      BY <1>5, <1>a, <2>2, LossFrame DEF DropHandle
    <2> QED
      BY <2>1, <2>2
  <1>6. ASSUME NEW c \in Clients, PublishRefused(c)
        PROVE  LossInv'
    BY <1>6, <1>a, LossFrame DEF PublishRefused
  <1>7. ASSUME NEW c \in Clients, PublishAdmitted(c)
        PROVE  LossInv'
    BY <1>7, LossFrame DEF PublishAdmitted
  <1>8. ASSUME NEW c \in Clients, PublishSend(c)
        PROVE  LossInv'
    BY <1>8, LossSends
  <1>9. ASSUME NEW c \in Clients, PublishDisconnected(c)
        PROVE  LossInv'
    BY <1>9, <1>a, LossFrame DEF PublishDisconnected
  <1>10. ASSUME NEW c \in Clients, SubscribePush(c)
         PROVE  LossInv'
    BY <1>10, <1>a, LossFrame DEF SubscribePush
  <1>11. ASSUME NEW c \in Clients, ShutdownSend(c)
         PROVE  LossInv'
    BY <1>11, <1>a, LossFrame DEF ShutdownSend
  <1>12. ASSUME NEW c \in Clients, ShutdownJoin(c)
         PROVE  LossInv'
    BY <1>12, <1>a, LossFrame DEF ShutdownJoin
  <1>13. CASE Receive
    BY <1>13, LossFrame DEF Receive
  <1>14. CASE ReceiveStop
    BY <1>14, LossFrame DEF ReceiveStop
  <1>15. CASE MatchingHandlers
    BY <1>15, LossFrame DEF MatchingHandlers
  <1>16. CASE RunObserver
    BY <1>16, LossFrame DEF RunObserver
  <1>17. CASE ContinueRefused
    BY <1>17, LossFrame DEF ContinueRefused
  <1>18. CASE ContinueTrace
    BY <1>18, LossFrame DEF ContinueTrace, MayContinue
  <1>19. CASE ContinueSend
    BY <1>19, LossContinues
  <1>20. CASE HandlersDone
    BY <1>20, LossFrame DEF HandlersDone
  <1>21. CASE UNCHANGED vars
    BY <1>21, LossFrame DEF vars
  <1> QED
    BY <1>1, <1>2, <1>3, <1>4, <1>5, <1>6, <1>7, <1>8, <1>9, <1>10, <1>11, <1>12, <1>13,
       <1>14, <1>15, <1>16, <1>17, <1>18, <1>19, <1>20, <1>21
    DEF Next, ClientCall, ClientStep, Dispatch

(* For any clients and capacities: after shutdown is requested at most one *)
(* envelope for each client is still accepted, and so at most that many    *)
(* are accepted and never dispatched (publish_with_trace, shutdown).       *)
THEOREM LossIsBoundedHolds == Spec => []LossIsBounded
  <1>1. Init => LossInv
    BY DEF Init, LossInv
  <1>2. IInv /\ LossInv => LossIsBounded
    <2> SUFFICES ASSUME IInv, LossInv, ~active PROVE LossIsBounded
      BY DEF LossIsBounded
    <2>1. Len(accepted) \in Nat /\ closing \in Int
      BY LengthsAreNatural DEF IInv
    <2>2. Sending \in SUBSET Clients
      BY DEF Sending
    <2>3. Cardinality(Sending) \in Nat /\ Cardinality(Clients) \in Nat /\ Relaying \in Nat
      <3>1. Relaying \in Nat
        BY SMT DEF Relaying
      <3> QED
        BY <2>2, <3>1, SendersCounted
    <2>4. Len(accepted) - closing + Cardinality(Sending) + Relaying
            <= Cardinality(Clients)
      BY DEF LossInv
    <2>5. Len(accepted) - closing <= Cardinality(Clients)
      BY <2>1, <2>3, <2>4, SMT
    <2> QED
      BY <2>5 DEF LossIsBounded
  <1>3. IInv /\ LossInv /\ [Next]_vars => LossInv'
    BY LossStep DEF IInv
  <1> QED
    BY <1>1, <1>2, <1>3, Inductive, PTL DEF Spec
-----------------------------------------------------------------------------
(***************************************************************************)
(* Hops.  A handler continues the envelope that was received last, and     *)
(* what it is sending is one hop further.                                  *)
(***************************************************************************)
Handling == dpc \in {"match", "run", "relay"}

CallHops == \A c \in Clients : pc[c] \in {"check", "send"} => call[c].hop = 0

HandlerHops ==
    /\ Handling => Len(received) >= 1 /\ cur = received[Len(received)]
    /\ dpc = "relay" =>
         out.trace = cur.trace /\ out.hop = cur.hop + 1 /\ out.hop <= HopLimit

HopInv == CallHops /\ HandlerHops /\ HopsFollowTrace

(* The fields of an envelope.                                              *)
LEMMA EnvelopeFields ==
    ASSUME NEW e \in Envelope
    PROVE  e.trace \in Nat /\ e.hop \in Nat /\ e.hop \in 0 .. U8Max /\ e.event \in Events
  <1>1. e.trace \in Nat /\ e.hop \in 0 .. U8Max /\ e.event \in Events
    BY DEF Envelope
  <1> QED
    BY <1>1, SMT DEF U8Max

(* A step without a send or a receive.                                     *)
LEMMA HopFrame ==
    ASSUME HopInv, UNCHANGED <<accepted, received>>, CallHops',
           Handling' => Handling /\ cur' = cur,
           dpc' = "relay" => dpc = "relay" /\ out' = out
    PROVE  HopInv'
  <1>1. HandlerHops'
    <2>1. dpc' = "relay" => Handling'
      BY DEF Handling
    <2> QED
      BY <2>1 DEF HopInv, HandlerHops
  <1>2. HopsFollowTrace'
    BY DEF HopInv, HopsFollowTrace, ContinuesParent
  <1> QED
    BY <1>1, <1>2 DEF HopInv

(* An envelope is accepted that starts a trace or continues the last one   *)
(* received.                                                               *)
LEMMA HopAccept ==
    ASSUME IInv, HopInv, NEW env \in Envelope, accepted' = Append(accepted, env),
           received' = received, env.hop <= HopLimit,
           env.hop > 0 => /\ Len(received) >= 1
                          /\ received[Len(received)].trace = env.trace
                          /\ received[Len(received)].hop + 1 = env.hop
    PROVE  HopsFollowTrace'
  <1> DEFINE n == Len(accepted)
             r == Len(received)
  <1>1. n \in Nat /\ r \in Nat /\ r <= n
    BY LengthsAreNatural DEF IInv, OrderInv, PrefixInv
  <1>2. accepted \in Seq(Envelope) /\ received \in Seq(Envelope)
    BY DEF IInv, TypeOK, HistoryTypeOK
  <1>3. /\ accepted' \in Seq(Envelope) /\ Len(accepted') = n + 1
        /\ accepted'[n + 1] = env
        /\ \A i \in 1 .. n : accepted'[i] = accepted[i]
    BY <1>2, SeqAppend, SMTT(20)
  <1>4. /\ DOMAIN accepted = 1 .. n /\ DOMAIN accepted' = 1 .. (n + 1)
        /\ DOMAIN received = 1 .. r
    BY <1>2, <1>3, SeqLength
  <1> HIDE DEF n
  <1>5. ASSUME NEW i \in 1 .. n
        PROVE  /\ accepted'[i].hop <= HopLimit
               /\ accepted'[i].hop > 0 => ContinuesParent(i)'
    <2>1. /\ accepted[i].hop <= HopLimit
          /\ accepted[i].hop > 0 => ContinuesParent(i)
      BY <1>4 DEF HopInv, HopsFollowTrace
    <2>2. ContinuesParent(i) => ContinuesParent(i)'
      BY <1>3 DEF ContinuesParent
    <2> QED
      BY <1>3, <2>1, <2>2
  <1>a. PICK m \in Nat : m = n + 1
    BY <1>1, SMT
  <1>6. env.hop > 0 => ContinuesParent(m)'
    <2> SUFFICES ASSUME env.hop > 0 PROVE ContinuesParent(m)'
      OBVIOUS
    <2>1. r \in DOMAIN received' /\ r < m
      BY <1>1, <1>4, <1>a, SMT
    <2>2. /\ received'[r].trace = accepted'[m].trace
          /\ received'[r].hop + 1 = accepted'[m].hop
      BY <1>3, <1>a
    <2> HIDE DEF r
    <2> QED
      BY <2>1, <2>2 DEF ContinuesParent
  <1>7. ASSUME NEW i \in 1 .. (n + 1)
        PROVE  /\ accepted'[i].hop <= HopLimit
               /\ accepted'[i].hop > 0 => ContinuesParent(i)'
    <2>1. CASE i = n + 1
      BY <1>3, <1>6, <1>a, <2>1
    <2>2. CASE i # n + 1
      <3>1. i \in 1 .. n
        BY <1>1, <2>2, SMTT(20)
      <3> QED
        BY <1>5, <3>1
    <2> QED
      BY <2>1, <2>2
  <1> QED
    BY <1>4, <1>7 DEF HopsFollowTrace

(* The dispatch thread receives: the parents are still there.              *)
LEMMA HopReceive ==
    ASSUME IInv, HopInv, Receive
    PROVE  /\ HopInv'
           /\ Len(received') = Len(received) + 1
           /\ received'[Len(received) + 1] = accepted[Len(received) + 1]
           /\ \A i \in 1 .. Len(received) : received'[i] = received[i]
           /\ Len(received) + 1 \in 1 .. Len(accepted)
           /\ cur' = accepted[Len(received) + 1] \/ ~Handling'
  <1> DEFINE r == Len(received)
  <1>1. r \in Nat /\ Len(accepted) \in Nat
    BY LengthsAreNatural DEF IInv
  <1>2. r < Len(accepted) /\ Head(queue) = accepted[r + 1]
    BY ReceiveStep DEF IInv
  <1>3. Head(queue) \in Envelope /\ received \in Seq(Envelope)
    <2>1. r + 1 \in 1 .. Len(accepted)
      BY <1>1, <1>2, SMT
    <2>2. accepted \in Seq(Envelope) /\ received \in Seq(Envelope)
      BY DEF IInv, TypeOK, HistoryTypeOK
    <2> QED
      BY <1>2, <2>1, <2>2, SeqElement
  <1>4. /\ received' \in Seq(Envelope) /\ Len(received') = r + 1
        /\ received'[r + 1] = Head(queue)
        /\ \A i \in 1 .. r : received'[i] = received[i]
    BY <1>3, SeqAppend, SMTT(20) DEF Receive
  <1>5. DOMAIN received = 1 .. r /\ DOMAIN received' = 1 .. (r + 1)
    BY <1>3, <1>4, SeqLength
  <1>6. UNCHANGED <<accepted, pc, call>>
    BY DEF Receive, clients
  <1> HIDE DEF r
  <1>7. 1 .. r \subseteq 1 .. (r + 1) /\ r + 1 >= 1 /\ r + 1 \in 1 .. Len(accepted)
    BY <1>1, <1>2, SMT
  <1>8. HopsFollowTrace'
    <2>1. \A i \in DOMAIN accepted : ContinuesParent(i) => ContinuesParent(i)'
      BY <1>4, <1>5, <1>6, <1>7 DEF ContinuesParent
    <2> QED
      BY <1>6, <2>1 DEF HopInv, HopsFollowTrace
  <1>9. CallHops'
    BY <1>6 DEF HopInv, CallHops
  <1>10. dpc' # "relay" /\ (Handling' => cur' = Head(queue))
    BY DEF Receive, Handling
  <1>11. HandlerHops'
    BY <1>4, <1>7, <1>10 DEF HandlerHops
  <1> QED
    BY <1>2, <1>4, <1>7, <1>8, <1>9, <1>10, <1>11 DEF HopInv, r

(* A hop count below the end of u8 is counted exactly.                     *)
LEMMA NextHopExact ==
    ASSUME MaxHops < U8Max, cur \in Envelope, NextHop <= HopLimit
    PROVE  NextHop = cur.hop + 1
  <1>1. cur.hop \in 0 .. U8Max
    BY EnvelopeFields
  <1>2. HopLimit < U8Max
    BY EventBusAssumption, SMT DEF HopLimit, AtLeastOne, U8Max
  <1> QED
    BY <1>1, <1>2, LimitsArePositive, SMT DEF NextHop, SaturatingAdd1, U8Max

(* Every step keeps the hops in line with the traces.                      *)
LEMMA HopStep ==
    ASSUME MaxHops < U8Max, IInv, HopInv, [Next]_vars
    PROVE  HopInv'
  <1>a. DOMAIN pc = Clients /\ DOMAIN call = Clients
    BY DEF IInv, TypeOK, ClientTypeOK
  <1> USE DEF clients, bus, dispatcher, history, Goto
  <1>b. CallHops
    BY DEF HopInv
  <1>1. ASSUME NEW c \in Clients, NEW e \in Events, Publish(c, e)
        PROVE  HopInv'
    <2>1. Publishing(e, nextId).hop = 0
      BY DEF Publishing
    <2>2. CallHops'
      BY <1>1, <1>a, <1>b, <2>1 DEF CallHops, Publish
    <2> QED
      BY <1>1, <2>2, HopFrame DEF Publish, Handling
  <1>2. ASSUME NEW c \in Clients, NEW e \in Events, NEW k \in Kinds, Subscribe(c, e, k)
        PROVE  HopInv'
    <2>1. CallHops'
      BY <1>2, <1>a, <1>b DEF CallHops, Subscribe
    <2> QED
      BY <1>2, <2>1, HopFrame DEF Subscribe, Handling
  <1>3. ASSUME NEW c \in Clients, NEW e \in Events, NEW i \in DOMAIN subs[e],
               Unsubscribe(c, e, i)
        PROVE  HopInv'
    <2>1. CallHops'
      BY <1>3, <1>b DEF CallHops, Unsubscribe
    <2> QED
      BY <1>3, <2>1, HopFrame DEF Unsubscribe, Handling
  <1>4. ASSUME NEW c \in Clients, Shutdown(c)
        PROVE  HopInv'
    <2>1. CallHops'
      BY <1>4, <1>a, <1>b DEF CallHops, Shutdown, MarkInactive
    <2> QED
      BY <1>4, <2>1, HopFrame DEF Shutdown, Handling
  <1>5. ASSUME NEW c \in Clients, DropHandle(c)
        PROVE  HopInv'
    <2>1. CallHops'
      BY <1>5, <1>a, <1>b DEF CallHops, DropHandle, MarkInactive
    <2> QED
      BY <1>5, <2>1, HopFrame DEF DropHandle, Handling
  <1>6. ASSUME NEW c \in Clients,
               \/ PublishRefused(c) \/ PublishDisconnected(c) \/ SubscribePush(c)
               \/ ShutdownSend(c) \/ ShutdownJoin(c)
        PROVE  HopInv'
    <2>1. /\ \E l \in {"idle", "join", "gone"} : pc' = [pc EXCEPT ![c] = l]
          /\ UNCHANGED <<call, accepted, received, dpc, cur, out>>
      BY <1>6 DEF PublishRefused, PublishDisconnected, SubscribePush, ShutdownSend,
                  ShutdownJoin
    <2>2. CallHops'
      BY <1>a, <1>b, <2>1 DEF CallHops
    <2> QED
      BY <2>1, <2>2, HopFrame DEF Handling
  <1>7. ASSUME NEW c \in Clients, PublishAdmitted(c)
        PROVE  HopInv'
    <2>1. call' = [call EXCEPT ![c] = [call[c] EXCEPT !.id = nextId]]
      BY <1>7 DEF PublishAdmitted
    <2>2. [call[c] EXCEPT !.id = nextId].hop = 0
      <3>1. call[c] \in [id : {0}, trace : Nat, hop : {0}, event : Events]
        BY <1>7 DEF IInv, TypeOK, ClientTypeOK, CallType, PublishAdmitted
      <3> QED
        BY <3>1, SMT
    <2>3. CallHops'
      BY <1>7, <1>a, <1>b, <2>1, <2>2 DEF CallHops, PublishAdmitted
    <2> QED
      BY <1>7, <2>3, HopFrame DEF PublishAdmitted, Handling
  <1>8. ASSUME NEW c \in Clients, PublishSend(c)
        PROVE  HopInv'
    <2>1. call[c] \in Envelope /\ call[c].hop = 0
      BY <1>8, <1>b DEF IInv, TypeOK, ClientTypeOK, CallType, PublishSend, CallHops
    <2>2. call[c].hop <= HopLimit /\ ~(call[c].hop > 0)
      BY <2>1, LimitsArePositive, SMT
    <2>3. HopsFollowTrace'
      BY <1>8, <2>1, <2>2, HopAccept DEF PublishSend
    <2>4. CallHops'
      BY <1>8, <1>a, <1>b DEF CallHops, PublishSend
    <2>5. HandlerHops'
      BY <1>8 DEF HopInv, HandlerHops, Handling, PublishSend
    <2> QED
      BY <2>3, <2>4, <2>5 DEF HopInv
  <1>9. CASE Receive
    BY <1>9, HopReceive
  <1>10. ASSUME \/ ReceiveStop \/ MatchingHandlers \/ RunObserver \/ ContinueRefused
                \/ HandlersDone \/ UNCHANGED vars
         PROVE  HopInv'
    <2>1. /\ UNCHANGED <<accepted, received, pc, call>>
          /\ Handling' => Handling /\ cur' = cur
          /\ dpc' = "relay" => dpc = "relay" /\ out' = out
      BY <1>10 DEF ReceiveStop, MatchingHandlers, RunObserver, ContinueRefused,
                   HandlersDone, Handling, vars
    <2>2. CallHops'
      BY <1>b, <2>1 DEF CallHops
    <2> QED
      BY <2>1, <2>2, HopFrame
  <1>11. CASE ContinueTrace
    <2>1. /\ UNCHANGED <<accepted, received, pc, call, cur>>
          /\ dpc = "run" /\ dpc' = "relay" /\ NextHop <= HopLimit
      BY <1>11 DEF ContinueTrace, MayContinue
    <2>2. out'.trace = cur.trace /\ out'.hop = NextHop
      BY <1>11 DEF ContinueTrace
    <2>3. cur \in Envelope
      BY <2>1 DEF IInv, TypeOK, DispatcherTypeOK
    <2>4. NextHop = cur.hop + 1
      BY <2>1, <2>3, NextHopExact
    <2>5. HandlerHops'
      BY <2>1, <2>2, <2>4 DEF HopInv, HandlerHops, Handling, HopLimit
    <2>6. HopsFollowTrace'
      BY <2>1 DEF HopInv, HopsFollowTrace, ContinuesParent
    <2>7. CallHops'
      BY <1>b, <2>1 DEF CallHops
    <2> QED
      BY <2>5, <2>6, <2>7 DEF HopInv
  <1>12. CASE ContinueSend
    <2>1. out \in Envelope
      BY <1>12 DEF IInv, TypeOK, DispatcherTypeOK, ContinueSend
    <2>2. /\ out.trace = cur.trace /\ out.hop = cur.hop + 1 /\ out.hop <= HopLimit
          /\ Len(received) >= 1 /\ cur = received[Len(received)]
      BY <1>12 DEF HopInv, HandlerHops, Handling, ContinueSend
    <2>3. HopsFollowTrace'
      BY <1>12, <2>1, <2>2, HopAccept DEF ContinueSend
    <2>4. CallHops'
      BY <1>12, <1>b DEF CallHops, ContinueSend
    <2>5. HandlerHops'
      BY <1>12, <2>2 DEF HandlerHops, Handling, ContinueSend
    <2> QED
      BY <2>3, <2>4, <2>5 DEF HopInv
  <1> QED
    BY <1>1, <1>2, <1>3, <1>4, <1>5, <1>6, <1>7, <1>8, <1>9, <1>10, <1>11, <1>12
    DEF Next, ClientCall, ClientStep, Dispatch
-----------------------------------------------------------------------------
(***************************************************************************)
(* Chains.  With one subscription ever made there is one handler at most   *)
(* to run for an envelope, so an envelope is continued once at most, and   *)
(* no two envelopes of a trace have the same hop.                          *)
(***************************************************************************)
Unsubscribed == \A e \in Events : subs[e] = <<>>

SubsInv ==
    /\ started \in [publish : Nat, subscribe : Nat]
    /\ started.subscribe = 0 => Unsubscribed /\ \A c \in Clients : pc[c] # "push"
    /\ \A c \in Clients : pc[c] = "push" => Unsubscribed
    /\ \A c, d \in Clients : pc[c] = "push" /\ pc[d] = "push" => c = d
    /\ \A e \in Events : Len(subs[e]) <= 1
    /\ Len(todo) <= 1

(* A step that subscribes nobody.                                          *)
LEMMA SubsFrame ==
    ASSUME SubsInv, UNCHANGED <<subs, started>>, Len(todo') <= 1,
           \A c \in Clients : pc'[c] = "push" => pc[c] = "push"
    PROVE  SubsInv'
  BY DEF SubsInv, Unsubscribed

(* A sequence of one element at most has nothing behind its head.          *)
LEMMA TailOfOne ==
    ASSUME NEW S, NEW q \in Seq(S), Len(q) <= 1, q # <<>>
    PROVE  Tail(q) = <<>> /\ Len(Tail(q)) <= 1
  BY SMT

(* Every step keeps the handlers down to one.                              *)
LEMMA SubsStep ==
    ASSUME MaxSubs = 1, TypeOK, SubsInv, [Next]_vars
    PROVE  SubsInv'
  <1>a. DOMAIN pc = Clients /\ subs \in [Events -> Seq(Subscriber)] /\ todo \in Seq(Subscriber)
    BY DEF TypeOK, ClientTypeOK, BusTypeOK, DispatcherTypeOK
  <1>b. /\ started \in [publish : Nat, subscribe : Nat] /\ started.subscribe \in Nat
        /\ Len(todo) <= 1 /\ Len(<<>>) <= 1
    BY SMT DEF SubsInv
  <1> USE DEF clients, bus, dispatcher, history, Goto
  <1>1. ASSUME NEW c \in Clients, NEW e \in Events, Publish(c, e)
        PROVE  SubsInv'
    <2>1. /\ started' \in [publish : Nat, subscribe : Nat]
          /\ started'.subscribe = started.subscribe
      BY <1>1, <1>b, SMT DEF Publish
    <2>2. UNCHANGED <<subs, todo>> /\ \A d \in Clients : pc'[d] = "push" => pc[d] = "push"
      BY <1>1, <1>a DEF Publish
    <2> QED
      BY <2>1, <2>2 DEF SubsInv, Unsubscribed
  <1>2. ASSUME NEW c \in Clients, NEW e \in Events, NEW k \in Kinds, Subscribe(c, e, k)
        PROVE  SubsInv'
    <2>1. /\ started' \in [publish : Nat, subscribe : Nat]
          /\ started.subscribe = 0 /\ started'.subscribe # 0
      BY <1>2, <1>b, SMT DEF Subscribe
    <2>2. /\ UNCHANGED <<subs, todo>> /\ Unsubscribed
          /\ \A d \in Clients : pc'[d] = "push" => d = c
      BY <1>2, <1>a, <2>1 DEF Subscribe, SubsInv
    <2> QED
      BY <2>1, <2>2 DEF SubsInv, Unsubscribed
  <1>3. ASSUME NEW c \in Clients, NEW e \in Events, NEW i \in DOMAIN subs[e],
               Unsubscribe(c, e, i)
        PROVE  SubsInv'
    <2>1. subs[e] \in Seq(Subscriber) /\ Len(subs[e]) <= 1
      BY <1>a DEF SubsInv
    <2>2. SubSeq(subs[e], 1, i - 1) \o SubSeq(subs[e], i + 1, Len(subs[e])) = <<>>
      BY <1>3, <2>1, SMT
    <2>3. ~Unsubscribed
      <3>1. DOMAIN <<>> = {}
        BY SMT
      <3> QED
        BY <1>3, <3>1 DEF Unsubscribed
    <2>4. \A f \in Events : subs'[f] = subs[f] \/ subs'[f] = <<>>
      BY <1>3, <1>a, <2>2 DEF Unsubscribe
    <2>5. UNCHANGED <<pc, todo, started>>
      BY <1>3 DEF Unsubscribe
    <2>6. \A f \in Events : Len(subs'[f]) <= 1
      BY <1>b, <2>4 DEF SubsInv
    <2> QED
      BY <2>3, <2>5, <2>6 DEF SubsInv
  <1>4. ASSUME NEW c \in Clients, SubscribePush(c)
        PROVE  SubsInv'
    <2>1. Unsubscribed /\ started.subscribe # 0
      BY <1>4 DEF SubscribePush, SubsInv
    <2>2. UNCHANGED <<todo, started>> /\ \A d \in Clients : pc'[d] # "push"
      BY <1>4, <1>a DEF SubscribePush, SubsInv
    <2>3. \A x : Len(Append(<<>>, x)) <= 1
      BY SMT
    <2>4. \A f \in Events : Len(subs'[f]) <= 1
      BY <1>4, <1>a, <1>b, <2>1, <2>3 DEF SubscribePush, Unsubscribed
    <2> QED
      BY <2>1, <2>2, <2>4 DEF SubsInv
  <1>5. ASSUME NEW c \in Clients,
               \/ Shutdown(c) \/ DropHandle(c) \/ PublishRefused(c) \/ PublishAdmitted(c)
               \/ PublishSend(c) \/ PublishDisconnected(c) \/ ShutdownSend(c)
               \/ ShutdownJoin(c)
        PROVE  SubsInv'
    <2>1. /\ \E l \in {"idle", "send", "stop", "join", "gone"} : pc' = [pc EXCEPT ![c] = l]
          /\ UNCHANGED <<subs, started, todo>>
      BY <1>5 DEF Shutdown, DropHandle, MarkInactive, PublishRefused, PublishAdmitted,
                  PublishSend, PublishDisconnected, ShutdownSend, ShutdownJoin
    <2> QED
      BY <1>a, <1>b, <2>1, SubsFrame
  <1>6. CASE MatchingHandlers
    <2>1. cur.event \in Events
      BY <1>6, EnvelopeFields DEF MatchingHandlers, TypeOK, DispatcherTypeOK
    <2>2. Len(todo') <= 1
      BY <1>6, <2>1 DEF MatchingHandlers, SubsInv
    <2> QED
      BY <1>6, <2>2, SubsFrame DEF MatchingHandlers
  <1>7. ASSUME RunObserver \/ ContinueRefused \/ ContinueSend
        PROVE  SubsInv'
    <2>1. todo # <<>> /\ todo' = Tail(todo) /\ UNCHANGED <<subs, started, pc>>
      BY <1>7 DEF RunObserver, ContinueRefused, ContinueSend, TypeOK, DispatcherTypeOK
    <2>2. Len(todo') <= 1
      BY <1>a, <1>b, <2>1, TailOfOne
    <2> QED
      BY <2>1, <2>2, SubsFrame
  <1>8. ASSUME Receive \/ ReceiveStop \/ ContinueTrace \/ HandlersDone \/ UNCHANGED vars
        PROVE  SubsInv'
    <2>1. UNCHANGED <<subs, started, pc, todo>>
      BY <1>8 DEF Receive, ReceiveStop, ContinueTrace, HandlersDone, vars
    <2> QED
      BY <1>b, <2>1, SubsFrame
  <1> QED
    BY <1>1, <1>2, <1>3, <1>4, <1>5, <1>6, <1>7, <1>8
    DEF Next, ClientCall, ClientStep, Dispatch

(* The client holds a trace id that it has not sent yet.                   *)
InPublish(c) == pc[c] \in {"check", "send"}

(* The handler of the current envelope has not continued it yet.           *)
Unanswered == dpc \in {"match", "relay"} \/ (dpc = "run" /\ todo # <<>>)

FreshTraces ==
    /\ \A i \in DOMAIN accepted : accepted[i].trace < nextId
    /\ \A c \in Clients : InPublish(c) =>
         /\ call[c].trace < nextId
         /\ \A i \in DOMAIN accepted : accepted[i].trace # call[c].trace
    /\ \A c, d \in Clients :
         InPublish(c) /\ InPublish(d) /\ call[c].trace = call[d].trace => c = d

DistinctHops ==
    \A i, j \in DOMAIN accepted :
        accepted[i].trace = accepted[j].trace /\ accepted[i].hop = accepted[j].hop => i = j

AnsweredOnce ==
    Unanswered => \A j \in DOMAIN accepted :
        ~(accepted[j].trace = cur.trace /\ accepted[j].hop = cur.hop + 1)

TraceInv == FreshTraces /\ DistinctHops /\ AnsweredOnce

(* A step that accepts nothing and starts no trace.                        *)
LEMMA TraceFrame ==
    ASSUME TypeOK, TraceInv, UNCHANGED accepted, nextId' \in {nextId, nextId + 1},
           \A c \in Clients : InPublish(c)' => InPublish(c) /\ call'[c].trace = call[c].trace,
           Unanswered' => Unanswered /\ cur' = cur
    PROVE  TraceInv'
  <1>1. \A x \in Nat : x < nextId => x < nextId'
    BY SMT DEF TypeOK, BusTypeOK
  <1>2. \A i \in DOMAIN accepted : accepted[i].trace \in Nat
    <2>1. accepted \in Seq(Envelope) /\ DOMAIN accepted = 1 .. Len(accepted)
      BY SeqLength DEF TypeOK, HistoryTypeOK
    <2> QED
      BY <2>1, SeqElement, EnvelopeFields
  <1>3. \A c \in Clients : InPublish(c) => call[c].trace \in Nat
    BY EnvelopeFields DEF InPublish, TypeOK, ClientTypeOK, CallType
  <1>4. FreshTraces'
    BY <1>1, <1>2, <1>3 DEF TraceInv, FreshTraces
  <1>5. DistinctHops'
    BY DEF TraceInv, DistinctHops
  <1>6. AnsweredOnce'
    BY DEF TraceInv, AnsweredOnce
  <1> QED
    BY <1>4, <1>5, <1>6 DEF TraceInv

(* publish draws a trace id that nobody has.                               *)
LEMMA TraceStarts ==
    ASSUME TypeOK, TraceInv, NEW c \in Clients, NEW e \in Events, Publish(c, e)
    PROVE  TraceInv'
  <1>1. /\ nextId \in Nat /\ nextId' = nextId + 1 /\ UNCHANGED <<accepted, dpc, todo, cur>>
        /\ DOMAIN pc = Clients /\ DOMAIN call = Clients
    BY SMT DEF Publish, dispatcher, TypeOK, BusTypeOK, ClientTypeOK
  <1>2. /\ InPublish(c)' /\ call'[c].trace = nextId
        /\ \A d \in Clients : d # c => (InPublish(d)' <=> InPublish(d)) /\ call'[d] = call[d]
    BY <1>1 DEF Publish, Publishing, Goto, InPublish
  <1>3. \A i \in DOMAIN accepted : accepted[i].trace \in Nat /\ accepted[i].trace < nextId
    <2>1. accepted \in Seq(Envelope) /\ DOMAIN accepted = 1 .. Len(accepted)
      BY SeqLength DEF TypeOK, HistoryTypeOK
    <2> QED
      BY <2>1, SeqElement, EnvelopeFields DEF TraceInv, FreshTraces
  <1>4. \A d \in Clients : InPublish(d) => call[d].trace \in Nat /\ call[d].trace < nextId
    BY EnvelopeFields DEF InPublish, TypeOK, ClientTypeOK, CallType, TraceInv, FreshTraces
  <1>5. nextId < nextId' /\ \A x \in Nat : x < nextId => x < nextId' /\ x # nextId
    BY <1>1, SMT
  <1>6. \A i \in DOMAIN accepted : accepted[i].trace < nextId' /\ accepted[i].trace # nextId
    BY <1>3, <1>5
  <1>7. ASSUME NEW d \in Clients, InPublish(d)'
        PROVE  /\ call'[d].trace < nextId'
               /\ \A i \in DOMAIN accepted : accepted[i].trace # call'[d].trace
               /\ d # c => call'[d].trace # nextId
    <2>1. CASE d = c
      BY <1>2, <1>5, <1>6, <2>1
    <2>2. CASE d # c
      BY <1>2, <1>4, <1>5, <1>7, <2>2 DEF TraceInv, FreshTraces
    <2> QED
      BY <2>1, <2>2
  <1>8. ASSUME NEW d \in Clients, NEW f \in Clients, InPublish(d)', InPublish(f)',
               call'[d].trace = call'[f].trace
        PROVE  d = f
    <2>1. CASE d # c /\ f # c
      BY <1>2, <1>8, <2>1 DEF TraceInv, FreshTraces
    <2> QED
      BY <1>2, <1>7, <1>8, <2>1
  <1>9. FreshTraces'
    BY <1>1, <1>6, <1>7, <1>8 DEF FreshTraces
  <1>10. DistinctHops' /\ AnsweredOnce'
    BY <1>1 DEF TraceInv, DistinctHops, AnsweredOnce, Unanswered
  <1> QED
    BY <1>9, <1>10 DEF TraceInv

(* An envelope is accepted whose trace and hop no other has.               *)
LEMMA TraceAccepts ==
    ASSUME TypeOK, TraceInv, NEW env \in Envelope, accepted' = Append(accepted, env),
           env.trace < nextId, nextId' = nextId,
           \A c \in Clients : InPublish(c)' =>
             InPublish(c) /\ call'[c] = call[c] /\ call[c].trace # env.trace,
           \A i \in DOMAIN accepted :
             ~(accepted[i].trace = env.trace /\ accepted[i].hop = env.hop),
           AnsweredOnce'
    PROVE  TraceInv'
  <1> DEFINE n == Len(accepted)
  <1>1. accepted \in Seq(Envelope)
    BY DEF TypeOK, HistoryTypeOK
  <1>2. /\ accepted' \in Seq(Envelope) /\ Len(accepted') = n + 1
        /\ accepted'[n + 1] = env
        /\ \A i \in 1 .. n : accepted'[i] = accepted[i]
    BY <1>1, SeqAppend, SMT
  <1>3. n \in Nat /\ DOMAIN accepted = 1 .. n /\ DOMAIN accepted' = 1 .. (n + 1)
    BY <1>1, <1>2, SeqLength
  <1> HIDE DEF n
  <1>4. \A i \in 1 .. (n + 1) : i \in 1 .. n \/ i = n + 1
    BY <1>3, SMT
  <1>5. \A i \in DOMAIN accepted' :
          \/ i \in DOMAIN accepted /\ accepted'[i] = accepted[i]
          \/ i = n + 1 /\ accepted'[i] = env
    BY <1>2, <1>3, <1>4
  <1>6. FreshTraces'
    <2>1. \A i \in DOMAIN accepted' : accepted'[i].trace < nextId'
      BY <1>5 DEF TraceInv, FreshTraces
    <2>2. ASSUME NEW c \in Clients, InPublish(c)'
          PROVE  /\ call'[c].trace < nextId'
                 /\ \A i \in DOMAIN accepted' : accepted'[i].trace # call'[c].trace
      <3>1. /\ InPublish(c) /\ call'[c] = call[c] /\ call[c].trace # env.trace
            /\ call[c].trace < nextId
            /\ \A i \in DOMAIN accepted : accepted[i].trace # call[c].trace
        BY <2>2, ZenonT(30) DEF TraceInv, FreshTraces
      <3> QED
        BY <1>5, <3>1
    <2>3. ASSUME NEW c \in Clients, NEW d \in Clients, InPublish(c)', InPublish(d)',
                 call'[c].trace = call'[d].trace
          PROVE  c = d
      BY <2>3 DEF TraceInv, FreshTraces
    <2> QED
      BY <2>1, <2>2, <2>3 DEF FreshTraces
  <1>7. ASSUME NEW i \in DOMAIN accepted', NEW j \in DOMAIN accepted',
               accepted'[i].trace = accepted'[j].trace, accepted'[i].hop = accepted'[j].hop
        PROVE  i = j
    BY <1>5, <1>7 DEF TraceInv, DistinctHops
  <1> QED
    BY <1>6, <1>7 DEF TraceInv, DistinctHops

(* Every step keeps the envelopes of a trace apart.                        *)
LEMMA TraceStep ==
    ASSUME IInv, HopInv, SubsInv, TraceInv, [Next]_vars
    PROVE  TraceInv'
  <1>a. /\ DOMAIN pc = Clients /\ DOMAIN call = Clients /\ TypeOK /\ nextId \in Nat
        /\ accepted \in Seq(Envelope) /\ received \in Seq(Envelope)
        /\ todo \in Seq(Subscriber) /\ Len(todo) <= 1
        /\ DOMAIN accepted = 1 .. Len(accepted) /\ DOMAIN received = 1 .. Len(received)
        /\ Len(received) \in Nat /\ Len(accepted) \in Nat /\ Len(received) <= Len(accepted)
    BY SeqLength DEF IInv, TypeOK, ClientTypeOK, BusTypeOK, HistoryTypeOK,
                     DispatcherTypeOK, SubsInv, OrderInv, PrefixInv
  <1>b. \A i \in DOMAIN received : i \in DOMAIN accepted /\ received[i] = accepted[i]
    <2>1. \A i \in 1 .. Len(received) : received[i] = accepted[i]
      BY DEF IInv, OrderInv, PrefixInv
    <2>2. \A i \in 1 .. Len(received) : i \in 1 .. Len(accepted)
      BY <1>a, SMT
    <2> QED
      BY <1>a, <2>1, <2>2
  <1>c. Handling => \E i \in DOMAIN accepted : cur = accepted[i]
    <2>1. Len(received) >= 1 => Len(received) \in DOMAIN received
      BY <1>a, SMT
    <2> QED
      BY <1>b, <2>1 DEF HopInv, HandlerHops
  <1> USE DEF clients, bus, dispatcher, history, Goto
  <1>1. ASSUME NEW c \in Clients, NEW e \in Events, Publish(c, e)
        PROVE  TraceInv'
    BY <1>1, <1>a, TraceStarts
  <1>2. ASSUME NEW c \in Clients, NEW e \in Events, NEW k \in Kinds, Subscribe(c, e, k)
        PROVE  TraceInv'
    BY <1>2, <1>a, TraceFrame DEF Subscribe, InPublish, Unanswered
  <1>3. ASSUME NEW c \in Clients, NEW e \in Events, NEW i \in DOMAIN subs[e],
               Unsubscribe(c, e, i)
        PROVE  TraceInv'
    BY <1>3, <1>a, TraceFrame DEF Unsubscribe, InPublish, Unanswered
  <1>4. ASSUME NEW c \in Clients,
               \/ Shutdown(c) \/ DropHandle(c) \/ PublishRefused(c) \/ PublishDisconnected(c)
               \/ SubscribePush(c) \/ ShutdownSend(c) \/ ShutdownJoin(c)
        PROVE  TraceInv'
    <2>1. /\ \E l \in {"idle", "stop", "join", "gone"} : pc' = [pc EXCEPT ![c] = l]
          /\ UNCHANGED <<accepted, call, dpc, todo, cur>>
          /\ nextId' \in {nextId, nextId + 1}
      BY <1>4 DEF Shutdown, DropHandle, MarkInactive, PublishRefused, PublishDisconnected,
                  SubscribePush, ShutdownSend, ShutdownJoin
    <2> QED
      BY <1>a, <2>1, TraceFrame DEF InPublish, Unanswered
  <1>5. ASSUME NEW c \in Clients, PublishAdmitted(c)
        PROVE  TraceInv'
    <2>1. call' = [call EXCEPT ![c] = [call[c] EXCEPT !.id = nextId]]
      BY <1>5 DEF PublishAdmitted
    <2>2. [call[c] EXCEPT !.id = nextId].trace = call[c].trace
      <3>1. call[c] \in [id : {0}, trace : Nat, hop : {0}, event : Events]
        BY <1>5, <1>a DEF TypeOK, ClientTypeOK, CallType, PublishAdmitted
      <3> QED
        BY <3>1, SMT
    <2>3. \A d \in Clients : InPublish(d)' => InPublish(d) /\ call'[d].trace = call[d].trace
      BY <1>5, <1>a, <2>1, <2>2 DEF PublishAdmitted, InPublish
    <2> QED
      BY <1>5, <1>a, <2>3, TraceFrame DEF PublishAdmitted, Unanswered
  <1>6. ASSUME NEW c \in Clients, PublishSend(c)
        PROVE  TraceInv'
    <2> DEFINE env == call[c]
    <2>1. /\ env \in Envelope /\ InPublish(c)
          /\ accepted' = Append(accepted, env) /\ UNCHANGED <<nextId, call, dpc, todo, cur>>
      BY <1>6, <1>a DEF PublishSend, TypeOK, ClientTypeOK, CallType, InPublish
    <2>2. /\ env.trace < nextId
          /\ \A i \in DOMAIN accepted : accepted[i].trace # env.trace
      BY <2>1 DEF TraceInv, FreshTraces
    <2>3. \A d \in Clients : InPublish(d)' =>
            InPublish(d) /\ call'[d] = call[d] /\ call[d].trace # env.trace
      <3>1. \A d \in Clients : InPublish(d)' => InPublish(d) /\ d # c
        BY <1>6, <1>a DEF PublishSend, InPublish
      <3> QED
        BY <2>1, <3>1 DEF TraceInv, FreshTraces
    <2>4. AnsweredOnce'
      <3> SUFFICES ASSUME Unanswered', NEW j \in DOMAIN accepted'
                   PROVE  ~(accepted'[j].trace = cur'.trace /\ accepted'[j].hop = cur'.hop + 1)
        BY DEF AnsweredOnce
      <3>1. Unanswered /\ Handling
        BY <2>1 DEF Unanswered, Handling
      <3>2. env.trace # cur.trace
        BY <1>c, <2>2, <3>1
      <3> HIDE DEF env
      <3>3. \/ j \in DOMAIN accepted /\ accepted'[j] = accepted[j]
            \/ accepted'[j] = env
        BY <1>a, <2>1, SMTT(20)
      <3> QED
        BY <2>1, <3>1, <3>2, <3>3 DEF TraceInv, AnsweredOnce
    <2> HIDE DEF env
    <2> QED
      BY <1>a, <2>1, <2>2, <2>3, <2>4, TraceAccepts
  <1>7. CASE Receive
    <2>1. /\ UNCHANGED <<accepted, nextId, pc, call, todo>> /\ dpc = "recv"
          /\ dpc' \in {"recv", "match"}
      BY <1>7 DEF Receive
    <2>2. FreshTraces' /\ DistinctHops'
      BY <2>1 DEF TraceInv, FreshTraces, DistinctHops, InPublish
    <2>3. AnsweredOnce'
      <3> DEFINE k == Len(received) + 1
      <3> SUFFICES ASSUME dpc' = "match", NEW j \in DOMAIN accepted,
                          accepted[j].trace = cur'.trace, accepted[j].hop = cur'.hop + 1
                   PROVE  FALSE
        BY <2>1 DEF AnsweredOnce, Unanswered
      <3>1. k \in DOMAIN accepted /\ cur' = accepted[k]
        BY <1>7, <1>a, HopReceive DEF Handling
      <3>2. accepted[k].hop \in Nat /\ accepted[j].hop \in Nat
        BY <1>a, <3>1, SeqElement, EnvelopeFields
      <3>3. accepted[j].hop > 0
        BY <3>1, <3>2, SMT
      <3>4. PICK i \in DOMAIN received : /\ received[i].trace = accepted[j].trace
                                         /\ received[i].hop + 1 = accepted[j].hop
        BY <3>3 DEF HopInv, HopsFollowTrace, ContinuesParent
      <3>5. i \in DOMAIN accepted /\ received[i] = accepted[i]
        BY <1>b
      <3>6. accepted[i].hop \in Nat
        BY <1>a, <3>5, SeqElement, EnvelopeFields
      <3>7. accepted[i].trace = accepted[k].trace /\ accepted[i].hop = accepted[k].hop
        BY <3>1, <3>2, <3>4, <3>5, <3>6, SMT
      <3>8. i = k
        BY <3>1, <3>5, <3>7 DEF TraceInv, DistinctHops
      <3> QED
        BY <1>a, <3>4, <3>8, SMT
    <2> QED
      BY <2>2, <2>3 DEF TraceInv
  <1>8. ASSUME \/ ReceiveStop \/ MatchingHandlers \/ ContinueTrace \/ HandlersDone
               \/ UNCHANGED vars
        PROVE  TraceInv'
    <2>1. /\ UNCHANGED <<accepted, pc, call, cur>> /\ nextId' \in {nextId, nextId + 1}
          /\ Unanswered' => Unanswered
      BY <1>8 DEF ReceiveStop, MatchingHandlers, ContinueTrace, HandlersDone, vars, Unanswered
    <2> QED
      BY <1>a, <2>1, TraceFrame DEF InPublish
  <1>9. ASSUME RunObserver \/ ContinueRefused
        PROVE  TraceInv'
    <2>1. /\ UNCHANGED <<accepted, pc, call, cur, nextId, dpc>> /\ dpc = "run"
          /\ todo # <<>> /\ todo' = Tail(todo)
      BY <1>9 DEF RunObserver, ContinueRefused
    <2>2. ~Unanswered'
      BY <1>a, <2>1, TailOfOne DEF Unanswered
    <2> QED
      BY <1>a, <2>1, <2>2, TraceFrame DEF InPublish
  <1>10. CASE ContinueSend
    <2>1. /\ out \in Envelope /\ dpc = "relay" /\ dpc' = "run"
          /\ todo # <<>> /\ todo' = Tail(todo)
          /\ accepted' = Append(accepted, out) /\ UNCHANGED <<nextId, pc, call>>
      BY <1>10, <1>a DEF ContinueSend, TypeOK, DispatcherTypeOK
    <2>2. /\ out.trace = cur.trace /\ out.hop = cur.hop + 1
          /\ Handling /\ Unanswered
      BY <2>1 DEF HopInv, HandlerHops, Handling, Unanswered
    <2>3. PICK i \in DOMAIN accepted : cur = accepted[i]
      BY <1>c, <2>2
    <2>4. /\ out.trace < nextId
          /\ \A c \in Clients : InPublish(c) => call[c].trace # out.trace
      BY <2>2, <2>3 DEF TraceInv, FreshTraces
    <2>5. \A j \in DOMAIN accepted :
            ~(accepted[j].trace = out.trace /\ accepted[j].hop = out.hop)
      BY <2>2 DEF TraceInv, AnsweredOnce
    <2>6. AnsweredOnce'
      BY <1>a, <2>1, TailOfOne DEF AnsweredOnce, Unanswered
    <2> QED
      BY <1>a, <2>1, <2>4, <2>5, <2>6, TraceAccepts DEF InPublish
  <1> QED
    BY <1>1, <1>2, <1>3, <1>4, <1>5, <1>6, <1>7, <1>8, <1>9, <1>10
    DEF Next, ClientCall, ClientStep, Dispatch

(* The envelopes of a trace are told apart by their hops, of which there   *)
(* are max_hops + 1.                                                       *)
LEMMA ChainLength ==
    ASSUME TypeOK, HopsFollowTrace, DistinctHops, NEW t
    PROVE  Cardinality({i \in DOMAIN accepted : accepted[i].trace = t}) <= HopLimit + 1
  <1> DEFINE S == {i \in DOMAIN accepted : accepted[i].trace = t}
             f == [i \in S |-> accepted[i].hop]
             T == 0 .. HopLimit
  <1>1. accepted \in Seq(Envelope) /\ DOMAIN accepted = 1 .. Len(accepted)
    BY SeqLength DEF TypeOK, HistoryTypeOK
  <1>2. HopLimit \in Nat
    BY LimitsArePositive, SMT DEF U8Max
  <1>3. \A i \in S : accepted[i].hop \in T
    <2>1. \A i \in S : accepted[i].hop \in Nat
      BY <1>1, SeqElement, EnvelopeFields
    <2>2. \A i \in S : accepted[i].hop <= HopLimit
      BY DEF HopsFollowTrace
    <2> QED
      BY <1>2, <2>1, <2>2, SMT
  <1>4. f \in Injection(S, T)
    <2>1. f \in [S -> T]
      BY <1>3
    <2>2. \A i, j \in S : f[i] = f[j] => i = j
      BY DEF DistinctHops
    <2> QED
      BY <2>1, <2>2 DEF Injection, IsInjective
  <1>5. IsFiniteSet(T) /\ Cardinality(T) = HopLimit + 1
    <2>1. 0 \in Int /\ HopLimit \in Int /\ ~(0 > HopLimit) /\ HopLimit - 0 + 1 = HopLimit + 1
      BY <1>2, SMT
    <2> QED
      BY <2>1, FS_Interval
  <1> HIDE DEF S, f, T
  <1>6. Cardinality(S) <= Cardinality(T)
    BY <1>4, <1>5, FS_Injection
  <1> QED
    BY <1>5, <1>6 DEF S

ChainInv == HopInv /\ (MaxSubs = 1 => SubsInv /\ TraceInv)

(* For any clients, capacities and publishes, and any limit a u8 can count *)
(* past: continue_trace and publish_with_trace accept an envelope only as  *)
(* the start of a trace or one hop behind one that was received, never     *)
(* past max_hops, and one relaying handler gives a trace max_hops + 1      *)
(* envelopes at most.                                                      *)
THEOREM RelayChainEndsHolds ==
    ASSUME MaxHops < U8Max
    PROVE  Spec => []RelayChainEnds
  <1>1. Init => ChainInv
    BY SMT DEF Init, ChainInv, HopInv, CallHops, HandlerHops, Handling, HopsFollowTrace,
               SubsInv, Unsubscribed, TraceInv, FreshTraces, InPublish, DistinctHops,
               AnsweredOnce, Unanswered
  <1>2. IInv /\ ChainInv /\ [Next]_vars => ChainInv'
    BY HopStep, SubsStep, TraceStep DEF ChainInv, IInv
  <1>3. IInv /\ ChainInv => RelayChainEnds
    BY ChainLength DEF IInv, ChainInv, HopInv, TraceInv, RelayChainEnds
  <1> QED
    BY <1>1, <1>2, <1>3, Inductive, PTL DEF Spec
=============================================================================
