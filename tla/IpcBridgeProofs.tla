-------------------------- MODULE IpcBridgeProofs --------------------------
(***************************************************************************)
(* What Python does on the word of an authority, it does on a decision     *)
(* about that very request: for any correlation ids, any traffic in the    *)
(* pipes, any tracker size, and any requests, wirings and vector calls.    *)
(* And duplicates are dropped at both ends of the bridge.                  *)
(***************************************************************************)
EXTENDS VectorMemory, SequenceTheorems, FiniteSetTheorems, TLAPS

(* Zenon tries every leaf that names no other prover.                      *)
USE Zenon

(* A pipe holds lines whose bodies have no common type.                    *)
IsPipe(s) == Len(s) \in Nat /\ s = [i \in 1..Len(s) |-> s[i]]

Lines(s) == {s[i] : i \in 1..Len(s)}

(* Writing a line to a pipe.                                               *)
LEMMA AppendLine ==
    ASSUME NEW s, NEW m, IsPipe(s)
    PROVE  IsPipe(Append(s, m)) /\ Lines(Append(s, m)) = Lines(s) \cup {m}
  <1> DEFINE S == Lines(s) \cup {m}
  <1>1. s \in Seq(S) /\ m \in S
    BY SMT DEF IsPipe, Lines
  <1> HIDE DEF S
  <1>2. /\ Append(s, m) \in Seq(S)
        /\ Len(Append(s, m)) = Len(s) + 1
        /\ \A i \in 1..Len(s) : Append(s, m)[i] = s[i]
        /\ Append(s, m)[Len(s) + 1] = m
    BY <1>1, AppendProperties, SMT
  <1>3. IsPipe(Append(s, m))
    BY <1>2, LenProperties DEF IsPipe
  <1>4. Len(s) \in Nat
    BY DEF IsPipe
  <1>5. 1..(Len(s) + 1) = (1..Len(s)) \cup {Len(s) + 1}
    BY <1>4, SMT
  <1>6. Lines(Append(s, m)) = Lines(s) \cup {m}
    BY <1>2, <1>4, <1>5, SMT DEF Lines
  <1> QED
    BY <1>3, <1>6

(* Reading a line from a pipe.                                             *)
LEMMA TailLines ==
    ASSUME NEW s, IsPipe(s), s # <<>>
    PROVE  IsPipe(Tail(s)) /\ Lines(Tail(s)) \subseteq Lines(s) /\ Head(s) \in Lines(s)
  <1> DEFINE S == Lines(s)
  <1>1. s \in Seq(S)
    BY SMT DEF IsPipe, Lines
  <1> HIDE DEF S
  <1>2. /\ Tail(s) \in Seq(S)
        /\ Len(Tail(s)) = Len(s) - 1
        /\ \A i \in 1..Len(Tail(s)) : Tail(s)[i] = s[i + 1]
        /\ Head(s) \in S
    BY <1>1, HeadTailProperties
  <1>3. IsPipe(Tail(s))
    BY <1>2, LenProperties DEF IsPipe
  <1>4. Len(s) \in Nat
    BY DEF IsPipe
  <1>5. Lines(Tail(s)) \subseteq Lines(s)
    BY <1>2, <1>4, SMT DEF Lines
  <1> QED
    BY <1>2, <1>3, <1>5 DEF S
-----------------------------------------------------------------------------
(***************************************************************************)
(* The inductive invariant.  An answer can only be accepted by the caller  *)
(* that waits, so the pipes are described relative to it: a request under  *)
(* its id is its request, an answer under its id that grants is a          *)
(* decision.  Ids of requests and answers have all been drawn, which is    *)
(* why the next caller, under an id not drawn yet, finds nothing of its    *)
(* own in the pipes.                                                       *)
(***************************************************************************)
Asked(q) == q.type \in RequestTypes

PipesOK ==
    /\ IsPipe(toPython) /\ IsPipe(toRust)
    /\ \A q \in Lines(toRust) : Asked(q) => q.id \in used /\ q.type = q.body.type
    /\ \A m \in Lines(toPython) : m.type # "EVENT" => m.id \in used

CallerOK ==
    waiting # <<>> =>
      /\ waiting[1].id \in used
      /\ waiting[1].request.type \in RequestTypes
      /\ \A q \in Lines(toRust) :
            Asked(q) /\ q.id = waiting[1].id => q.body = waiting[1].request
      /\ \A m \in Lines(toPython) :
            Accepts(m, waiting[1]) => Decision(waiting[1].request)

RequestInv == PipesOK /\ CallerOK /\ GrantsAreDecisions /\ load \in Loads

(* Nothing is in the pipes of a new process, and nobody waits.             *)
LEMMA RequestInit == MemoryInit => RequestInv
  <1> SUFFICES ASSUME MemoryInit PROVE RequestInv
    OBVIOUS
  <1>1. IsPipe(<<>>) /\ Lines(<<>>) = {}
    BY SMT DEF IsPipe, Lines
  <1> QED
    BY <1>1 DEF MemoryInit, Init, ConnectorInit, RequestInv, PipesOK, CallerOK,
                GrantsAreDecisions

(* An answer is no event.                                                  *)
LEMMA ResultIsNoEvent == \A t \in RequestTypes : ResultType(t) # "EVENT"
  BY DEF RequestTypes, ResultType

(* Steps that only take lines out of the pipes.                            *)
LEMMA ReadStep ==
    ASSUME RequestInv, IsPipe(toPython'), IsPipe(toRust'),
           Lines(toPython') \subseteq Lines(toPython),
           Lines(toRust') \subseteq Lines(toRust),
           waiting' = waiting \/ waiting' = <<>>,
           UNCHANGED <<used, granted, load>>
    PROVE  RequestInv'
  BY DEF RequestInv, PipesOK, CallerOK, GrantsAreDecisions, Asked

(* Steps that write a line which is neither request nor answer.            *)
LEMMA WriteStep ==
    ASSUME RequestInv, NEW m,
           \/ toRust' = Append(toRust, m) /\ ~Asked(m) /\ UNCHANGED toPython
           \/ toPython' = Append(toPython, m) /\ m.type = "EVENT" /\ UNCHANGED toRust,
           used \subseteq used', UNCHANGED <<waiting, granted, load>>
    PROVE  RequestInv'
  <1>1. IsPipe(toPython') /\ IsPipe(toRust')
    BY AppendLine DEF RequestInv, PipesOK
  <1>8. /\ Lines(Append(toRust, m)) = Lines(toRust) \cup {m}
        /\ Lines(Append(toPython, m)) = Lines(toPython) \cup {m}
    BY AppendLine DEF RequestInv, PipesOK
  <1>2. \A q \in Lines(toRust') : Asked(q) => q \in Lines(toRust)
    <2>1. CASE toRust' = Append(toRust, m) /\ ~Asked(m)
      BY <2>1, <1>8
    <2>2. CASE toRust' = toRust
      BY <2>2
    <2> QED
      BY <2>1, <2>2
  <1>3. \A l \in Lines(toPython') : l.type # "EVENT" => l \in Lines(toPython)
    <2>1. CASE toPython' = Append(toPython, m) /\ m.type = "EVENT"
      BY <2>1, <1>8
    <2>2. CASE toPython' = toPython
      BY <2>2
    <2> QED
      BY <2>1, <2>2
  <1>4. PipesOK'
    BY <1>1, <1>2, <1>3 DEF RequestInv, PipesOK, Asked
  <1>5. waiting # <<>> =>
          \A l \in Lines(toPython') : Accepts(l, waiting[1]) => l.type # "EVENT"
    BY ResultIsNoEvent DEF RequestInv, CallerOK, Accepts
  <1>6. CallerOK'
    BY <1>2, <1>3, <1>5 DEF RequestInv, CallerOK, Asked
  <1>7. GrantsAreDecisions' /\ load' \in Loads
    BY DEF RequestInv, GrantsAreDecisions
  <1> QED
    BY <1>4, <1>6, <1>7 DEF RequestInv

(* A caller asks under an id that was not drawn before.                    *)
LEMMA AskStep ==
    ASSUME RequestInv, NEW id, NEW r, Request(id, r), r.type \in RequestTypes,
           UNCHANGED load
    PROVE  RequestInv'
  <1> DEFINE m == Line(r.type, id, r)
  <1>1. /\ id \notin used /\ used' = used \cup {id}
        /\ toRust' = Append(toRust, m)
        /\ UNCHANGED <<toPython, granted>>
        /\ waiting' = <<[id |-> id, request |-> r]>>
    BY DEF Request, PythonWrite
  <1>2. m.type = r.type /\ m.id = id /\ m.body = r
    BY DEF Line
  <1>3. waiting'[1].id = id /\ waiting'[1].request = r
    BY <1>1
  <1> HIDE DEF m
  <1>4. IsPipe(toRust') /\ Lines(toRust') = Lines(toRust) \cup {m}
    BY <1>1, AppendLine DEF RequestInv, PipesOK
  <1>5. PipesOK'
    BY <1>1, <1>2, <1>4 DEF RequestInv, PipesOK, Asked
  <1>6. \A q \in Lines(toRust') : Asked(q) /\ q.id = id => q.body = r
    BY <1>1, <1>2, <1>4 DEF RequestInv, PipesOK
  <1>7. \A l \in Lines(toPython') : ~Accepts(l, waiting'[1])
    BY <1>1, <1>3, ResultIsNoEvent DEF RequestInv, PipesOK, Accepts
  <1>8. CallerOK'
    BY <1>1, <1>3, <1>6, <1>7 DEF CallerOK, Asked
  <1>9. GrantsAreDecisions' /\ load' \in Loads
    BY <1>1 DEF RequestInv, GrantsAreDecisions
  <1> QED
    BY <1>5, <1>8, <1>9 DEF RequestInv

(* Rust answers the request it reads under the request's own id.           *)
LEMMA AnswerStep ==
    ASSUME RequestInv, DispatchRequest, UNCHANGED load
    PROVE  RequestInv'
  <1> DEFINE q == Head(toRust)
             m == Line(ResultType(q.type), q.id, Decision(q.body))
  <1>1. /\ toRust # <<>> /\ toRust' = Tail(toRust)
        /\ q.type \in RequestTypes
        /\ toPython' = toPython \/ toPython' = Append(toPython, m)
        /\ UNCHANGED <<waiting, granted, used>>
    BY DEF DispatchRequest, ReadLine, Incoming
  <1>2. IsPipe(toRust') /\ Lines(toRust') \subseteq Lines(toRust) /\ q \in Lines(toRust)
    BY <1>1, TailLines DEF RequestInv, PipesOK
  <1>3. q.id \in used /\ q.type = q.body.type
    BY <1>1, <1>2 DEF RequestInv, PipesOK, Asked
  <1>4. CASE toPython' = toPython
    BY <1>1, <1>2, <1>4, ReadStep DEF RequestInv, PipesOK
  <1>5. CASE toPython' = Append(toPython, m)
    <2>1. /\ m.type = ResultType(q.type)
          /\ m.id = q.id
          /\ m.body = Decision(q.body)
      BY DEF Line
    <2>2. IsPipe(toPython') /\ Lines(toPython') = Lines(toPython) \cup {m}
      BY <1>5, AppendLine DEF RequestInv, PipesOK
    <2>3. \A l \in Lines(toPython') : l.type # "EVENT" => l.id \in used
      BY <1>3, <2>1, <2>2 DEF RequestInv, PipesOK
    <2>4. PipesOK'
      BY <1>1, <1>2, <2>2, <2>3 DEF RequestInv, PipesOK, Asked
    <2>5. waiting # <<>> /\ Accepts(m, waiting[1]) => Decision(waiting[1].request)
      <3> SUFFICES ASSUME waiting # <<>>, Accepts(m, waiting[1])
                   PROVE  Decision(waiting[1].request)
        OBVIOUS
      <3>1. q.body = waiting[1].request
        BY <1>1, <1>2, <2>1 DEF RequestInv, CallerOK, Accepts, Asked
      <3>2. m.body
        BY DEF Accepts
      <3> QED
        BY <2>1, <3>1, <3>2
    <2>6. CallerOK'
      BY <1>1, <1>2, <2>2, <2>5 DEF RequestInv, CallerOK, Asked
    <2>7. GrantsAreDecisions' /\ load' \in Loads
      BY <1>1 DEF RequestInv, GrantsAreDecisions
    <2> QED
      BY <2>4, <2>6, <2>7 DEF RequestInv
  <1> QED
    BY <1>1, <1>4, <1>5

(* The caller takes a line, its answer or not.                             *)
LEMMA ReturnStep ==
    ASSUME RequestInv, TransportReturns, UNCHANGED load
    PROVE  /\ RequestInv'
           /\ Accepts(Head(toPython), waiting[1]) => Decision(waiting[1].request)
  <1>1. /\ waiting # <<>> /\ waiting' = <<>>
        /\ toPython # <<>> /\ toPython' = Tail(toPython)
        /\ granted' = IF Accepts(Head(toPython), waiting[1])
                        THEN granted \cup {waiting[1].request} ELSE granted
        /\ UNCHANGED <<toRust, used>>
    BY DEF TransportReturns
  <1>2. /\ IsPipe(toPython') /\ Lines(toPython') \subseteq Lines(toPython)
        /\ Head(toPython) \in Lines(toPython)
    BY <1>1, TailLines DEF RequestInv, PipesOK
  <1>3. Accepts(Head(toPython), waiting[1]) => Decision(waiting[1].request)
    BY <1>1, <1>2 DEF RequestInv, CallerOK
  <1>4. GrantsAreDecisions'
    BY <1>1, <1>3 DEF RequestInv, GrantsAreDecisions
  <1>5. PipesOK' /\ CallerOK'
    BY <1>1, <1>2 DEF RequestInv, PipesOK, CallerOK, Asked
  <1> QED
    BY <1>3, <1>4, <1>5 DEF RequestInv

(* What a vector call asks for is a storage or a memory request.           *)
LEMMA TheRequestIsAsked == TheRequest.type \in RequestTypes
  BY DEF TheRequest, MemoryRequest, StorageRequest, RequestTypes

(* Every step of the bridge and of its callers keeps the invariant.        *)
LEMMA RequestNext ==
    RequestInv /\ [MemoryNext]_<<vars, connectorVars, vectorVars>> => RequestInv'
  <1> SUFFICES ASSUME RequestInv, [MemoryNext]_<<vars, connectorVars, vectorVars>>
               PROVE  RequestInv'
    OBVIOUS
  <1> USE DEF connectorVars
  <1>1. IsPipe(toPython) /\ IsPipe(toRust) /\ IsPipe(<<>>) /\ Lines(<<>>) = {}
    BY SMT DEF RequestInv, PipesOK, IsPipe, Lines
  <1>2. CASE RustStep /\ UNCHANGED <<connectorVars, vectorVars>>
    <2>1. CASE DispatchDropped
      BY <1>1, <1>2, <2>1, TailLines, ReadStep DEF DispatchDropped, ReadLine
    <2>2. CASE DispatchIgnored
      BY <1>1, <1>2, <2>2, TailLines, ReadStep DEF DispatchIgnored, ReadLine
    <2>3. CASE DispatchEvent
      BY <1>1, <1>2, <2>3, TailLines, ReadStep DEF DispatchEvent, ReadLine
    <2>4. CASE DispatchRequest
      BY <1>2, <2>4, AnswerStep
    <2> QED
      BY <1>2, <2>1, <2>2, <2>3, <2>4 DEF RustStep
  <1>3. CASE ProcessLine /\ UNCHANGED <<connectorVars, vectorVars>>
    <2> DEFINE m == Line("STATE_UPDATE", Head(toPython).id, "accepted")
    <2>1. /\ toPython # <<>> /\ toPython' = Tail(toPython)
          /\ toRust' = toRust \/ toRust' = Append(toRust, m)
          /\ UNCHANGED <<waiting, granted, used, load>>
      BY <1>3 DEF ProcessLine
    <2>2. IsPipe(toPython') /\ Lines(toPython') \subseteq Lines(toPython)
      BY <1>1, <2>1, TailLines
    <2>3. ~Asked(m)
      BY DEF Asked, Line, RequestTypes
    <2> HIDE DEF m
    <2>4. IsPipe(Append(toRust, m)) /\ Lines(Append(toRust, m)) = Lines(toRust) \cup {m}
      BY <1>1, AppendLine
    <2>5. CASE toRust' = toRust
      BY <1>1, <2>1, <2>2, <2>5, ReadStep
    <2>6. CASE toRust' = Append(toRust, m)
      <3>1. IsPipe(toRust') /\ \A q \in Lines(toRust') : Asked(q) => q \in Lines(toRust)
        BY <2>3, <2>4, <2>6
      <3>2. PipesOK'
        BY <2>1, <2>2, <3>1 DEF RequestInv, PipesOK, Asked
      <3>3. CallerOK'
        BY <2>1, <2>2, <3>1 DEF RequestInv, CallerOK, Asked
      <3> QED
        BY <2>1, <3>2, <3>3 DEF RequestInv, GrantsAreDecisions
    <2> QED
      BY <2>1, <2>5, <2>6
  <1>4. CASE Connect /\ UNCHANGED vectorVars
    <2>1. ASSUME NEW m, Publish(m), m.type \in {"EVENT", "MALFORMED"}, used \subseteq used'
          PROVE  RequestInv'
      <3>1. ~Asked(m)
        BY <2>1 DEF Asked, RequestTypes
      <3> QED
        BY <2>1, <3>1, WriteStep DEF Publish, PythonWrite
    <2>2. ASSUME NEW p, NEW id, ReceiveEvent(p, id) \/ ReceiveSync(p, id) PROVE RequestInv'
      BY <2>1, <2>2 DEF ReceiveEvent, ReceiveSync, CorrelationId, Envelope, Line
    <2>3. CASE ReceiveRaises
      BY <2>3, <1>1, ReadStep DEF ReceiveRaises, vars
    <2> QED
      BY <1>4, <2>2, <2>3 DEF Connect
  <1>5. CASE OthersSend /\ UNCHANGED vectorVars
    <2>1. ASSUME NEW id, SendEvent(id), UNCHANGED load PROVE RequestInv'
      BY <2>1, WriteStep DEF SendEvent, Line
    <2>2. ASSUME NEW t \in {"EVENT", "MALFORMED"}, NEW id, NEW b, PythonSend(t, id, b),
                 UNCHANGED load
          PROVE  RequestInv'
      <3>1. ~Asked(Line(t, id, b))
        BY DEF Asked, Line, RequestTypes
      <3> QED
        BY <2>2, <3>1, WriteStep DEF PythonSend, PythonWrite
    <2> QED
      BY <1>5, <2>1, <2>2 DEF OthersSend
  <1>6. ASSUME NEW op, NEW v, CallVector(op, v) PROVE RequestInv'
    BY <1>1, <1>6, ReadStep DEF CallVector, vars
  <1>7. ASSUME NEW id, AskAuthority(id) PROVE RequestInv'
    BY <1>7, AskStep, TheRequestIsAsked DEF AskAuthority
  <1>8. CASE TransportReturns /\ UNCHANGED load
    BY <1>8, ReturnStep
  <1>9. CASE TransportFails /\ UNCHANGED load
    BY <1>1, <1>9, ReadStep DEF TransportFails
  <1>10. ASSUME NEW id, NEW r \in load.requests, Request(id, r), UNCHANGED load
         PROVE  RequestInv'
    BY <1>10, AskStep, LoadsAssumption DEF RequestInv
  <1>11. CASE KillChild
    BY <1>1, <1>11, ReadStep DEF KillChild, Shutdown
  <1>12. CASE UNCHANGED <<vars, connectorVars, vectorVars>>
    BY <1>1, <1>12, ReadStep DEF vars
  <1>13. VectorStep => RequestInv'
    BY <1>6, <1>7, <1>8, <1>9 DEF VectorStep, AnswerArrives, AnswerFails
  <1>14. OtherCallers => RequestInv'
    BY <1>8, <1>9, <1>10 DEF OtherCallers
  <1> QED
    BY <1>2, <1>3, <1>4, <1>5, <1>11, <1>12, <1>13, <1>14 DEF MemoryNext

(* Fail closed: authorize_and_maybe_route and its kin run their callable   *)
(* only if the authority, given that request, allows it.  Answers that are *)
(* late, crossed, or to another request never grant.                       *)
THEOREM GrantsHold == MemorySpec => []GrantsAreDecisions
  <1>1. RequestInv => GrantsAreDecisions
    BY DEF RequestInv
  <1> QED
    BY <1>1, RequestInit, RequestNext, PTL DEF MemorySpec
-----------------------------------------------------------------------------
(***************************************************************************)
(* The vector cache.  A call that waits waits for its own request, so by   *)
(* RequestInv an answer it accepts is a decision; a call that has got as   *)
(* far as storage carries the memory authority's grant, which the          *)
(* authority only gives with the storage permission set.                   *)
(***************************************************************************)
MemoryGranted(c) ==
    /\ <<"memory", MemoryRequest(c.op, TRUE)>> \in c.grants
    /\ Decision(MemoryRequest(c.op, TRUE))

IsCall(c) == c = Call(c.at, c.op, c.vector, c.permission, c.grants)

CallOK ==
    vcall # NoCall =>
      /\ IsCall(vcall)
      /\ vcall.at \in {"preflight", "memory", "storage"}
      /\ vcall.permission \in BOOLEAN
      /\ HasMemoryBridge
      /\ vcall.at = "storage" => Config.storageBridge /\ MemoryGranted(vcall)
      /\ waiting # <<>> => waiting[1].request = TheRequest

VectorInv == RequestInv /\ CallOK /\ VectorChangesGranted

(* The fields of a call.                                                   *)
LEMMA CallFields ==
    ASSUME NEW at, NEW op, NEW v, NEW p, NEW g
    PROVE  LET c == Call(at, op, v, p, g) IN
             /\ c.at = at /\ c.op = op /\ c.vector = v /\ c.permission = p /\ c.grants = g
             /\ IsCall(c)
  BY DEF Call, IsCall

(* The cache changes.                                                      *)
LEMMA ApplyStep ==
    ASSUME VectorChangesGranted, NEW c, Apply(c), UNCHANGED load,
           Config.storageBridge => /\ <<"storage", StorageRequest(c.op)>> \in c.grants
                                   /\ Decision(StorageRequest(c.op)),
           HasMemoryBridge => MemoryGranted(c),
           Config.enforceStorage => Config.storageBridge,
           Config.enforceMemory => HasMemoryBridge
    PROVE  VectorChangesGranted' /\ CallOK'
  <1> DEFINE a == [op |-> c.op, grants |-> c.grants]
  <1>1. applied' = applied \cup {a} /\ vcall' = NoCall
    BY DEF Apply
  <1>2. a.op = c.op /\ a.grants = c.grants
    OBVIOUS
  <1> HIDE DEF a
  <1>3. /\ Config.storageBridge => /\ <<"storage", StorageRequest(a.op)>> \in a.grants
                                   /\ Decision(StorageRequest(a.op))
        /\ HasMemoryBridge => /\ <<"memory", MemoryRequest(a.op, TRUE)>> \in a.grants
                              /\ Decision(MemoryRequest(a.op, TRUE))
    BY <1>2 DEF MemoryGranted
  <1>4. VectorChangesGranted'
    BY <1>1, <1>3, ZenonT(30) DEF VectorChangesGranted, Config, HasMemoryBridge, StorageRequest,
                      MemoryRequest
  <1>5. CallOK'
    BY <1>1 DEF CallOK, NoCall, Call
  <1> QED
    BY <1>4, <1>5

(* Steps that leave the cache and the call alone, or end the call.         *)
LEMMA KeepStep ==
    ASSUME VectorChangesGranted, CallOK, UNCHANGED <<applied, load>>,
           \/ vcall' = NoCall
           \/ UNCHANGED vcall /\ (waiting' = waiting \/ waiting' = <<>>)
    PROVE  VectorChangesGranted' /\ CallOK'
  <1>1. VectorChangesGranted'
    BY ZenonT(30) DEF VectorChangesGranted, Config, HasMemoryBridge, StorageRequest, MemoryRequest
  <1>2. CASE vcall' = NoCall
    BY <1>1, <1>2 DEF CallOK, NoCall, Call
  <1>3. CASE UNCHANGED vcall /\ (waiting' = waiting \/ waiting' = <<>>)
    BY <1>1, <1>3 DEF CallOK, Config, HasMemoryBridge, MemoryGranted, MemoryRequest,
                      StorageRequest, TheRequest
  <1> QED
    BY <1>2, <1>3

(* A call goes on to its next request.                                     *)
LEMMA GotoStep ==
    ASSUME VectorChangesGranted, NEW c, NEW at \in {"preflight", "memory", "storage"},
           NEW permission \in BOOLEAN, Goto(c, at, permission), UNCHANGED load,
           waiting' = <<>>, HasMemoryBridge,
           at = "storage" => Config.storageBridge /\ MemoryGranted(c)
    PROVE  VectorChangesGranted' /\ CallOK'
  <1>1. vcall' = Call(at, c.op, c.vector, permission, c.grants) /\ applied' = applied
    BY DEF Goto
  <1>2. /\ vcall'.at = at /\ vcall'.permission = permission
        /\ vcall'.op = c.op /\ vcall'.grants = c.grants
        /\ IsCall(vcall')
    BY <1>1, CallFields, SMT
  <1>3. VectorChangesGranted'
    BY <1>1 DEF VectorChangesGranted, Config, HasMemoryBridge, StorageRequest, MemoryRequest
  <1>4. at = "storage" => MemoryGranted(vcall)'
    BY <1>2 DEF MemoryGranted, MemoryRequest, Config
  <1>5. CallOK'
    BY <1>2, <1>4 DEF CallOK, HasMemoryBridge, Config, IsCall
  <1> QED
    BY <1>3, <1>5

(* The storage half of a call.                                             *)
LEMMA StoreStep ==
    ASSUME VectorChangesGranted, CallOK, NEW c, Store(c), UNCHANGED load, waiting' = <<>>,
           c.permission \in BOOLEAN,
           HasMemoryBridge => MemoryGranted(c),
           Config.enforceMemory => HasMemoryBridge
    PROVE  VectorChangesGranted' /\ CallOK'
  <1>1. CASE Config.storageBridge
    <2>1. HasMemoryBridge
      BY <1>1 DEF HasMemoryBridge
    <2>2. Goto(c, "storage", c.permission)
      BY <1>1 DEF Store
    <2> QED
      BY <1>1, <2>1, <2>2, GotoStep
  <1>2. CASE ~Config.storageBridge /\ Config.enforceStorage
    BY <1>2, KeepStep DEF Store, Raise
  <1>3. CASE ~Config.storageBridge /\ ~Config.enforceStorage
    <2>1. Apply(c)
      BY <1>3 DEF Store
    <2> QED
      BY <1>3, <2>1, ApplyStep
  <1> QED
    BY <1>1, <1>2, <1>3

(* An authority that grants a memory request was told of the permission.   *)
LEMMA GrantNeedsPermission ==
    ASSUME NEW op, NEW p \in BOOLEAN, Decision(MemoryRequest(op, p))
    PROVE  p = TRUE
  BY DEF Decision, MemoryRequest, MemoryDecision, determine_memory_transition

(* What a call does with an answer, once that answer is a decision.        *)
LEMMA ContinueStep ==
    ASSUME VectorChangesGranted, CallOK, vcall # NoCall, NEW allowed \in BOOLEAN,
           Continue(allowed), allowed => Decision(TheRequest),
           UNCHANGED load, waiting' = <<>>
    PROVE  VectorChangesGranted' /\ CallOK'
  <1> DEFINE c == [vcall EXCEPT !.grants = @ \cup {<<vcall.at, TheRequest>>}]
  <1>1. /\ IsCall(vcall) /\ HasMemoryBridge /\ vcall.permission \in BOOLEAN
        /\ vcall.at \in {"preflight", "memory", "storage"}
        /\ vcall.at = "storage" => Config.storageBridge /\ MemoryGranted(vcall)
    BY DEF CallOK
  <1>2. /\ c.op = vcall.op /\ c.permission = vcall.permission
        /\ c.grants = vcall.grants \cup {<<vcall.at, TheRequest>>}
    BY <1>1 DEF IsCall, Call
  <1>3. CASE vcall.at = "preflight"
    <2>1. Goto(vcall, "memory", allowed)
      BY <1>3 DEF Continue
    <2> QED
      BY <1>1, <2>1, GotoStep
  <1>4. CASE vcall.at = "memory"
    <2>1. TheRequest = MemoryRequest(vcall.op, vcall.permission)
      BY <1>4 DEF TheRequest
    <2>2. CASE allowed
      <3>1. vcall.permission = TRUE
        BY <1>1, <2>1, <2>2, GrantNeedsPermission
      <3>2. MemoryGranted(c)
        BY <1>2, <1>4, <2>1, <2>2, <3>1 DEF MemoryGranted
      <3>3. Store(c)
        BY <1>4, <2>2 DEF Continue
      <3> HIDE DEF c
      <3> QED
        BY <1>1, <1>2, <3>2, <3>3, StoreStep
    <2>3. CASE ~allowed
      BY <1>4, <2>3, KeepStep DEF Continue, Raise
    <2> QED
      BY <2>2, <2>3
  <1>5. CASE vcall.at = "storage"
    <2>1. TheRequest = StorageRequest(vcall.op)
      BY <1>5 DEF TheRequest
    <2>2. CASE allowed
      <3>1. /\ <<"storage", StorageRequest(c.op)>> \in c.grants
            /\ Decision(StorageRequest(c.op))
            /\ MemoryGranted(c)
        BY <1>1, <1>2, <1>5, <2>1, <2>2 DEF MemoryGranted
      <3>2. Apply(c)
        BY <1>5, <2>2 DEF Continue
      <3> HIDE DEF c
      <3> QED
        BY <1>1, <1>5, <3>1, <3>2, ApplyStep
    <2>3. CASE ~allowed
      BY <1>5, <2>3, KeepStep DEF Continue, Raise
    <2> QED
      BY <2>2, <2>3
  <1> QED
    BY <1>1, <1>3, <1>4, <1>5

(* Every step keeps the invariant of the vector calls.                     *)
LEMMA VectorNext ==
    VectorInv /\ [MemoryNext]_<<vars, connectorVars, vectorVars>> => VectorInv'
  <1> SUFFICES ASSUME VectorInv, [MemoryNext]_<<vars, connectorVars, vectorVars>>
               PROVE  VectorInv'
    OBVIOUS
  <1> USE DEF connectorVars, vectorVars
  <1>1. RequestInv' /\ RequestInv /\ VectorChangesGranted /\ CallOK
    BY RequestNext DEF VectorInv
  <1> SUFFICES VectorChangesGranted' /\ CallOK'
    BY <1>1 DEF VectorInv
  <1>2. CASE (RustStep \/ ProcessLine) /\ UNCHANGED <<connectorVars, vectorVars>>
    BY <1>1, <1>2, KeepStep DEF RustStep, DispatchDropped, DispatchIgnored, DispatchEvent,
                                DispatchRequest, ProcessLine
  <1>3. CASE (Connect \/ OthersSend) /\ UNCHANGED vectorVars
    <2>1. UNCHANGED <<waiting, load>>
      BY <1>3 DEF Connect, OthersSend, ReceiveEvent, ReceiveSync, ReceiveRaises, Publish,
                  SendEvent, PythonSend, vars
    <2> QED
      BY <1>1, <1>3, <2>1, KeepStep
  <1>4. ASSUME NEW op, NEW v, CallVector(op, v) PROVE VectorChangesGranted' /\ CallOK'
    <2> DEFINE c == Call("begun", op, v, FALSE, {})
    <2>1. waiting' = <<>> /\ UNCHANGED load
      BY <1>4 DEF CallVector, vars
    <2>2. c.permission = FALSE
      BY DEF Call
    <2>3. CASE Config.storageBridge
      <3>1. Goto(c, "preflight", FALSE) /\ HasMemoryBridge
        BY <1>4, <2>3 DEF CallVector, HasMemoryBridge
      <3> HIDE DEF c
      <3> QED
        BY <1>1, <2>1, <3>1, GotoStep
    <2>4. CASE ~Config.storageBridge /\ Config.memoryBridge
      <3>1. Goto(c, "memory", ~Config.enforceStorage) /\ HasMemoryBridge
        BY <1>4, <2>4 DEF CallVector, HasMemoryBridge
      <3>2. (~Config.enforceStorage) \in BOOLEAN
        OBVIOUS
      <3> HIDE DEF c
      <3> QED
        BY <1>1, <2>1, <3>1, <3>2, GotoStep
    <2>5. CASE ~Config.storageBridge /\ ~Config.memoryBridge
      <3>1. ~HasMemoryBridge
        BY <2>5 DEF HasMemoryBridge
      <3>2. CASE Config.enforceMemory
        BY <1>1, <1>4, <2>1, <2>5, <3>2, KeepStep DEF CallVector, Raise
      <3>3. CASE ~Config.enforceMemory
        <4>1. Store(c)
          BY <1>4, <2>5, <3>3 DEF CallVector
        <4> HIDE DEF c
        <4> QED
          BY <1>1, <2>1, <2>2, <3>1, <3>3, <4>1, StoreStep
      <3> QED
        BY <3>2, <3>3
    <2> QED
      BY <2>3, <2>4, <2>5
  <1>5. ASSUME NEW id, AskAuthority(id) PROVE VectorChangesGranted' /\ CallOK'
    <2>1. /\ waiting' = <<[id |-> id, request |-> TheRequest]>>
          /\ UNCHANGED <<load, vcall, applied>>
      BY <1>5 DEF AskAuthority, Request
    <2>2. waiting'[1].request = TheRequest'
      BY <2>1 DEF TheRequest, MemoryRequest, StorageRequest, Config
    <2>3. VectorChangesGranted'
      BY <1>1, <2>1 DEF VectorChangesGranted, Config, HasMemoryBridge, StorageRequest,
                        MemoryRequest
    <2>4. MemoryGranted(vcall)' = MemoryGranted(vcall)
      BY <2>1 DEF MemoryGranted, MemoryRequest, Config
    <2>5. CallOK'
      BY <1>1, <2>1, <2>2, <2>4 DEF CallOK, HasMemoryBridge, Config
    <2> QED
      BY <2>3, <2>5
  <1>6. CASE AnswerArrives
    <2> DEFINE allowed == Accepts(Head(toPython), waiting[1])
    <2>1. /\ vcall # NoCall /\ TransportReturns /\ Continue(allowed)
          /\ waiting # <<>> /\ waiting' = <<>> /\ UNCHANGED load
      BY <1>6 DEF AnswerArrives, TransportReturns
    <2>2. allowed => Decision(TheRequest)
      BY <1>1, <2>1, ReturnStep DEF CallOK
    <2>3. allowed \in BOOLEAN
      BY DEF Accepts
    <2> HIDE DEF allowed
    <2> QED
      BY <1>1, <2>1, <2>2, <2>3, ContinueStep
  <1>7. CASE AnswerFails
    <2>1. vcall # NoCall /\ Continue(FALSE) /\ waiting' = <<>> /\ UNCHANGED load
      BY <1>7 DEF AnswerFails, TransportFails
    <2> QED
      BY <1>1, <2>1, ContinueStep
  <1>8. CASE OtherCallers
    BY <1>1, <1>8, KeepStep DEF OtherCallers
  <1>9. CASE KillChild
    BY <1>1, <1>9, KeepStep DEF KillChild
  <1>10. CASE UNCHANGED <<vars, connectorVars, vectorVars>>
    BY <1>1, <1>10, KeepStep DEF vars
  <1> QED
    BY <1>2, <1>3, <1>4, <1>5, <1>6, <1>7, <1>8, <1>9, <1>10 DEF MemoryNext, VectorStep

(* For every wiring of the vector memory and whatever happens to its       *)
(* requests, upsert and delete touch the cache only in a call that all the *)
(* authorities it is wired to have granted, and never when an enforced     *)
(* authority is missing.                                                   *)
THEOREM VectorChangesHold == MemorySpec => []VectorChangesGranted
  <1>1. MemoryInit => VectorInv
    BY RequestInit DEF MemoryInit, VectorInit, VectorInv, CallOK, VectorChangesGranted
  <1>2. VectorInv => VectorChangesGranted
    BY DEF VectorInv
  <1> QED
    BY <1>1, <1>2, VectorNext, PTL DEF MemorySpec
-----------------------------------------------------------------------------
(* What the handler has had, each id once, is what pythonSeen remembers.   *)
Distinct(s) == \A i, j \in 1..Len(s) : s[i] = s[j] => i = j

HandledInv == Distinct(handled) /\ IsPipe(handled) /\ Lines(handled) \subseteq pythonSeen

(* A sequence without repetitions stays so with a new element.             *)
LEMMA AppendDistinct ==
    ASSUME NEW s, NEW m, IsPipe(s), Distinct(s), m \notin Lines(s)
    PROVE  Distinct(Append(s, m))
  <1> DEFINE S == Lines(s) \cup {m}
  <1>1. s \in Seq(S) /\ m \in S
    BY SMT DEF IsPipe, Lines
  <1> HIDE DEF S
  <1>2. /\ Append(s, m) \in Seq(S)
        /\ Len(Append(s, m)) = Len(s) + 1
        /\ \A i \in 1..Len(s) : Append(s, m)[i] = s[i]
        /\ Append(s, m)[Len(s) + 1] = m
    BY <1>1, AppendProperties, SMT
  <1>3. Len(s) \in Nat
    BY DEF IsPipe
  <1>4. \A i \in 1..Len(s) : s[i] # m
    BY DEF Lines
  <1> QED
    BY <1>2, <1>3, <1>4, SMT DEF Distinct

(* Every step keeps it; only process_line touches either side.             *)
LEMMA HandledNext ==
    HandledInv /\ [MemoryNext]_<<vars, connectorVars, vectorVars>> => HandledInv'
  <1> SUFFICES ASSUME HandledInv, [MemoryNext]_<<vars, connectorVars, vectorVars>>
               PROVE  HandledInv'
    OBVIOUS
  <1>1. CASE ProcessLine
    <2> DEFINE id == Head(toPython).id
    <2>1. /\ pythonSeen' = pythonSeen \cup {id}
          /\ handled' = handled \/ (id \notin pythonSeen /\ handled' = Append(handled, id))
      BY <1>1 DEF ProcessLine, Unseen
    <2> HIDE DEF id
    <2>2. CASE handled' = handled
      BY <2>1, <2>2 DEF HandledInv
    <2>3. CASE id \notin pythonSeen /\ handled' = Append(handled, id)
      <3>1. IsPipe(handled) /\ Distinct(handled) /\ id \notin Lines(handled)
        BY <2>3 DEF HandledInv
      <3>2. Distinct(Append(handled, id))
        BY <3>1, AppendDistinct
      <3>3. /\ IsPipe(Append(handled, id))
            /\ Lines(Append(handled, id)) = Lines(handled) \cup {id}
        BY <3>1, AppendLine
      <3> QED
        BY <2>1, <2>3, <3>2, <3>3 DEF HandledInv
    <2> QED
      BY <2>1, <2>2, <2>3
  <1>2. CASE UNCHANGED <<handled, pythonSeen>>
    BY <1>2 DEF HandledInv
  <1>3. RustStep => UNCHANGED <<handled, pythonSeen>>
    BY DEF RustStep, DispatchDropped, DispatchIgnored, DispatchEvent, DispatchRequest
  <1>4. Connect \/ OthersSend => UNCHANGED <<handled, pythonSeen>>
    BY DEF Connect, OthersSend, ReceiveEvent, ReceiveSync, ReceiveRaises, Publish,
           SendEvent, PythonSend, vars
  <1>5. VectorStep => UNCHANGED <<handled, pythonSeen>>
    BY DEF VectorStep, CallVector, AskAuthority, AnswerArrives, AnswerFails, Request,
           TransportReturns, TransportFails, vars
  <1>6. OtherCallers \/ KillChild => UNCHANGED <<handled, pythonSeen>>
    BY DEF OtherCallers, KillChild, Shutdown, Request, TransportReturns, TransportFails
  <1>7. UNCHANGED <<vars, connectorVars, vectorVars>> => UNCHANGED <<handled, pythonSeen>>
    BY DEF vars
  <1> QED
    BY <1>1, <1>2, <1>3, <1>4, <1>5, <1>6, <1>7 DEF MemoryNext

-----------------------------------------------------------------------------
(* The tracker holds the latest ids it marked, as many as its limit        *)
(* allows, and an id it marked twice was out of it in between.             *)
TrackerInv ==
    /\ IsPipe(marks) /\ IsPipe(queue)
    /\ Len(queue) <= Limit /\ Len(queue) <= Len(marks)
    /\ Len(queue) < Limit => Len(queue) = Len(marks)
    /\ \A k \in 1..Len(queue) : queue[k] = marks[Len(marks) - Len(queue) + k]
    /\ seen = Lines(queue)
    /\ \A i, j \in 1..Len(marks) : i < j /\ marks[i] = marks[j] => j - i > Limit

(* The limit is at least one (CorrelationTracker::new).                    *)
LEMMA LimitPositive == Limit \in Nat \ {0}
  BY IpcAssumption, SMT DEF Limit

(* What Append gives, position by position.                                *)
LEMMA AppendAt ==
    ASSUME NEW s, NEW m, IsPipe(s)
    PROVE  /\ IsPipe(Append(s, m))
           /\ Len(Append(s, m)) = Len(s) + 1
           /\ \A i \in 1..Len(s) : Append(s, m)[i] = s[i]
           /\ Append(s, m)[Len(s) + 1] = m
           /\ Append(s, m) # <<>>
  <1> DEFINE S == Lines(s) \cup {m}
  <1>1. s \in Seq(S) /\ m \in S
    BY SMT DEF IsPipe, Lines
  <1> HIDE DEF S
  <1> QED
    BY <1>1, AppendProperties, AppendLine, SMT

(* A pipe is a sequence of its lines.                                      *)
LEMMA PipeIsSeq ==
    ASSUME NEW s, IsPipe(s)
    PROVE  s \in Seq(Lines(s))
  <1>1. \A i \in 1..Len(s) : s[i] \in Lines(s)
    BY DEF Lines
  <1> QED
    BY <1>1, SMT DEF IsPipe

(* The queue of a tracker has no repetition: one would lie within the      *)
(* window.                                                                 *)
LEMMA QueueDistinct ==
    ASSUME TrackerInv
    PROVE  Distinct(queue)
  <1>0. Len(queue) \in Nat
    BY DEF TrackerInv, IsPipe
  <1> SUFFICES \A i, j \in 1..Len(queue) : i < j => queue[i] # queue[j]
    BY <1>0, SMT DEF Distinct
  <1> SUFFICES ASSUME NEW i \in 1..Len(queue), NEW j \in 1..Len(queue),
                      queue[i] = queue[j], i < j
               PROVE  FALSE
    OBVIOUS
  <1> DEFINE d == Len(marks) - Len(queue)
  <1>1. /\ Len(queue) \in Nat /\ Len(marks) \in Nat /\ Limit \in Nat
        /\ Len(queue) <= Limit /\ Len(queue) <= Len(marks)
    BY LimitPositive DEF TrackerInv, IsPipe
  <1>2. d + i \in 1..Len(marks) /\ d + j \in 1..Len(marks) /\ d + i < d + j
    BY <1>1, SMT
  <1>3. marks[d + i] = marks[d + j]
    BY DEF TrackerInv
  <1>4. (d + j) - (d + i) > Limit
    BY <1>2, <1>3 DEF TrackerInv
  <1> QED
    BY <1>1, <1>4, SMT

(* mark_seen of a new id keeps the tracker's invariant, with and without   *)
(* an eviction.                                                            *)
LEMMA InsertKeeps ==
    ASSUME TrackerInv, NEW id, id \notin seen, Insert(id)
    PROVE  TrackerInv'
  <1> DEFINE q == Append(queue, id)
             n == Len(queue)
             m == Len(marks)
  <1>1. /\ n \in Nat /\ m \in Nat /\ Limit \in Nat \ {0}
        /\ n <= Limit /\ n <= m /\ (n < Limit => n = m)
    BY LimitPositive DEF TrackerInv, IsPipe
  <1>2. /\ IsPipe(q) /\ Len(q) = n + 1 /\ q # <<>>
        /\ \A i \in 1..n : q[i] = queue[i]
        /\ q[n + 1] = id
        /\ Lines(q) = seen \cup {id}
    BY AppendAt, AppendLine, SMTT(20) DEF TrackerInv
  <1>3. /\ IsPipe(marks') /\ Len(marks') = m + 1
        /\ \A i \in 1..m : marks'[i] = marks[i]
        /\ marks'[m + 1] = id
    BY AppendAt, SMT DEF TrackerInv, Insert
  <1>4. \A k \in 1..(n + 1) : q[k] = marks'[m - n + k]
    <2> SUFFICES ASSUME NEW k \in 1..(n + 1) PROVE q[k] = marks'[m - n + k]
      OBVIOUS
    <2>1. CASE k = n + 1
      BY <1>1, <1>2, <1>3, <2>1, SMTT(20)
    <2>2. CASE k \in 1..n
      <3>1. q[k] = queue[k] /\ queue[k] = marks[m - n + k]
        BY <1>2, <2>2 DEF TrackerInv
      <3>2. m - n + k \in 1..m
        BY <1>1, <2>2, SMT
      <3> QED
        BY <1>3, <3>1, <3>2
    <2> QED
      BY <1>1, <2>1, <2>2, SMTT(20)
  <1>5. \A i, j \in 1..Len(marks') :
           i < j /\ marks'[i] = marks'[j] => j - i > Limit
    <2> SUFFICES ASSUME NEW i \in 1..(m + 1), NEW j \in 1..(m + 1),
                        i < j, marks'[i] = marks'[j]
                 PROVE  j - i > Limit
      BY <1>3
    <2>1. CASE j <= m
      <3>1. i \in 1..m /\ j \in 1..m
        BY <1>1, <2>1, SMT
      <3> QED
        BY <1>3, <3>1 DEF TrackerInv
    <2>2. CASE j = m + 1
      <3>1. i \in 1..m /\ marks[i] = id
        BY <1>1, <1>3, <2>2, SMTT(20)
      <3>2. ASSUME i > m - n PROVE FALSE
        <4>1. i - (m - n) \in 1..n /\ m - n + (i - (m - n)) = i
          BY <1>1, <3>1, <3>2, SMT
        <4>2. queue[i - (m - n)] = marks[i]
          BY <4>1 DEF TrackerInv
        <4>3. id \in Lines(queue)
          BY <3>1, <4>1, <4>2 DEF Lines
        <4> QED
          BY <4>3 DEF TrackerInv
      <3> QED
        BY <1>1, <2>2, <3>1, <3>2, SMT
    <2> QED
      BY <1>1, <2>1, <2>2, SMTT(20)
  <1>6. CASE n < Limit
    <2>1. Evicted(q) = <<>>
      BY <1>1, <1>2, <1>6, SMTT(20) DEF Evicted
    <2>2. queue' = SubSeq(q, 1, n + 1) /\ seen' = (seen \cup {id}) \ Range(<<>>)
      BY <1>2, <2>1, SMT DEF Insert
    <2>3. q \in Seq(Lines(q))
      BY <1>2, PipeIsSeq
    <2>4. queue' = q
      BY <1>2, <2>2, <2>3, SubSeqFull
    <2>5. seen' = Lines(queue')
      <3>1. Range(<<>>) = {}
        BY SMT DEF Range
      <3>2. Lines(queue') = Lines(q)
        BY <2>4
      <3> HIDE DEF q
      <3> QED
        BY <1>2, <2>2, <3>1, <3>2
    <2>6. Len(queue') <= Limit /\ Len(queue') <= Len(marks')
          /\ (Len(queue') < Limit => Len(queue') = Len(marks'))
      BY <1>1, <1>2, <1>3, <1>6, <2>4, SMTT(20)
    <2>7. \A k \in 1..Len(queue') : queue'[k] = marks'[Len(marks') - Len(queue') + k]
      <3>1. Len(marks') - Len(queue') = m - n
        BY <1>1, <1>2, <1>3, <2>4, SMTT(20)
      <3> QED
        BY <1>2, <1>4, <2>4, <3>1
    <2> QED
      BY <1>2, <1>3, <1>5, <2>4, <2>5, <2>6, <2>7 DEF TrackerInv, Limit
  <1>7. CASE n = Limit
    <2>1. Evicted(q) = <<q[1]>>
      BY <1>1, <1>2, <1>7, SMT DEF Evicted
    <2>2. queue' = SubSeq(q, 2, n + 1) /\ seen' = (seen \cup {id}) \ {q[1]}
      <3>1. Len(<<q[1]>>) + 1 = 2 /\ Range(<<q[1]>>) = {q[1]}
        BY SMT DEF Range
      <3> QED
        BY <1>2, <2>1, <3>1 DEF Insert
    <2>3. /\ queue' \in Seq(Lines(q)) /\ Len(queue') = n
          /\ \A k \in 1..n : queue'[k] = q[k + 1]
      <3>1. \A k \in 2..(n + 1) : q[k] \in Lines(q)
        BY <1>1, <1>2, SMT DEF Lines
      <3>2. /\ SubSeq(q, 2, n + 1) \in Seq(Lines(q))
            /\ Len(SubSeq(q, 2, n + 1)) = IF 2 <= n + 1 THEN n + 1 - 2 + 1 ELSE 0
            /\ \A k \in 1..(n + 1 - 2 + 1) : SubSeq(q, 2, n + 1)[k] = q[2 + k - 1]
        BY <1>1, <3>1, SubSeqProperties, SMTT(20)
      <3> QED
        BY <1>1, <1>7, <2>2, <3>2, SMTT(20)
    <2>4. IsPipe(queue')
      BY <1>1, <2>3, SMTT(20) DEF IsPipe
    <2>5. \A k \in 1..n : q[k + 1] # q[1]
      <3> SUFFICES ASSUME NEW k \in 1..n, q[k + 1] = q[1] PROVE FALSE
        OBVIOUS
      <3>1. q[1] = queue[1] /\ q[1] \in seen
        BY <1>1, <1>2, <1>7, SMTT(20) DEF TrackerInv, Lines
      <3>2. CASE k = n
        BY <1>2, <3>1, <3>2
      <3>3. CASE k < n
        <4>1. k + 1 \in 1..n /\ 1 \in 1..n
          BY <1>1, <3>3, SMT
        <4>2. queue[k + 1] = queue[1]
          BY <1>2, <3>1, <4>1
        <4>3. k + 1 = 1
          BY <4>1, <4>2, QueueDistinct DEF Distinct
        <4> QED
          BY <1>1, <4>3, SMTT(20)
      <3> QED
        BY <1>1, <3>2, <3>3, SMT
    <2>6. seen' = Lines(queue')
      <3> HIDE DEF q, n, m
      <3>1. ASSUME NEW x \in seen' PROVE x \in Lines(queue')
        <4>1. x \in Lines(q) /\ x # q[1]
          BY <1>2, <2>2, <3>1
        <4>2. PICK i \in 1..(n + 1) : x = q[i]
          BY <1>2, <4>1 DEF Lines
        <4>3. i - 1 \in 1..n /\ (i - 1) + 1 = i
          BY <1>1, <4>1, <4>2, SMTT(20)
        <4>4. x = queue'[i - 1]
          BY <2>3, <4>2, <4>3
        <4> QED
          BY <2>3, <4>3, <4>4 DEF Lines
      <3>2. ASSUME NEW x \in Lines(queue') PROVE x \in seen'
        <4>1. PICK k \in 1..n : x = queue'[k]
          BY <2>3, <3>2 DEF Lines
        <4>2. x = q[k + 1] /\ k + 1 \in 1..(n + 1)
          BY <1>1, <2>3, <4>1, SMT
        <4>3. x \in Lines(q) /\ x # q[1]
          BY <1>2, <2>5, <4>2 DEF Lines
        <4> QED
          BY <1>2, <2>2, <4>3
      <3> QED
        BY <3>1, <3>2
    <2>7. \A k \in 1..Len(queue') : queue'[k] = marks'[Len(marks') - Len(queue') + k]
      <3> SUFFICES ASSUME NEW k \in 1..n
                   PROVE  queue'[k] = marks'[Len(marks') - Len(queue') + k]
        BY <2>3
      <3>1. k + 1 \in 1..(n + 1) /\ m - n + (k + 1) = Len(marks') - Len(queue') + k
        BY <1>1, <1>3, <2>3, SMTT(20)
      <3> QED
        BY <1>4, <2>3, <3>1
    <2>8. Len(queue') <= Limit /\ Len(queue') <= Len(marks')
          /\ (Len(queue') < Limit => Len(queue') = Len(marks'))
      BY <1>1, <1>3, <1>7, <2>3, SMTT(20)
    <2> QED
      BY <1>3, <1>5, <2>4, <2>6, <2>7, <2>8 DEF TrackerInv, Limit
  <1> QED
    BY <1>1, <1>6, <1>7, SMT

(* Every step keeps it: all of them reach the tracker through mark_seen.   *)
LEMMA TrackerNext ==
    TrackerInv /\ [MemoryNext]_<<vars, connectorVars, vectorVars>> => TrackerInv'
  <1> DEFINE Kept == UNCHANGED <<seen, queue, marks>>
  <1> SUFFICES ASSUME TrackerInv, [MemoryNext]_<<vars, connectorVars, vectorVars>>
               PROVE  TrackerInv'
    OBVIOUS
  <1>1. CASE Kept
    BY <1>1 DEF TrackerInv, Limit
  <1>2. ASSUME NEW id, MarkSeen(id) PROVE TrackerInv'
    <2>1. CASE id \in seen
      BY <1>1, <1>2, <2>1 DEF MarkSeen
    <2>2. CASE id \notin seen
      BY <1>2, <2>2, InsertKeeps DEF MarkSeen
    <2> QED
      BY <2>1, <2>2
  <1>3. RustStep => Kept \/ MarkSeen(Incoming.id)
    BY DEF RustStep, DispatchDropped, DispatchIgnored, DispatchEvent, DispatchRequest
  <1>4. Connect => Kept
    BY DEF Connect, ReceiveEvent, ReceiveSync, ReceiveRaises, Publish, vars
  <1>5. OthersSend => Kept \/ \E id \in load.others : MarkSeen(id)
    BY DEF OthersSend, SendEvent, PythonSend
  <1>6. VectorStep => Kept
    BY DEF VectorStep, CallVector, AskAuthority, AnswerArrives, AnswerFails, Request,
           TransportReturns, TransportFails, vars
  <1>7. OtherCallers \/ KillChild \/ ProcessLine => Kept
    BY DEF OtherCallers, KillChild, ProcessLine, Shutdown, Request, TransportReturns,
           TransportFails
  <1>8. UNCHANGED <<vars, connectorVars, vectorVars>> => Kept
    BY DEF vars
  <1> HIDE DEF Kept
  <1> QED
    BY <1>1, <1>2, <1>3, <1>4, <1>5, <1>6, <1>7, <1>8 DEF MemoryNext

(* The ids in a tracker without repetitions are as many as its queue.      *)
LEMMA TrackerCardinality ==
    ASSUME TrackerInv
    PROVE  Cardinality(seen) = Len(queue)
  <1> DEFINE n == Len(queue)
             f == [i \in 1..n |-> queue[i]]
  <1>1. n \in Nat /\ seen = {queue[i] : i \in 1..n}
    BY DEF TrackerInv, IsPipe, Lines
  <1>2. \A i, j \in 1..n : queue[i] = queue[j] => i = j
    BY QueueDistinct DEF Distinct
  <1>3. IsFiniteSet(1..n) /\ Cardinality(1..n) = n
    <2> HIDE DEF n
    <2>1. 1 \in Int /\ n \in Int
      BY <1>1, SMT
    <2>2. IsFiniteSet(1..n) /\ Cardinality(1..n) = IF 1 > n THEN 0 ELSE n - 1 + 1
      BY <2>1, FS_Interval
    <2> QED
      BY <1>1, <2>2, SMT
  <1>4. f \in [1..n -> seen]
    BY <1>1
  <1>5. IsInjective(f)
    BY <1>2 DEF IsInjective
  <1>6. \A t \in seen : \E i \in 1..n : f[i] = t
    BY <1>1
  <1>7. ExistsBijection(1..n, seen)
    <2> HIDE DEF f, n
    <2> QED
      BY <1>4, <1>5, <1>6 DEF ExistsBijection, Bijection, Injection, Surjection
  <1> HIDE DEF n, f
  <1>8. Cardinality(seen) = n
    BY <1>3, <1>7, FS_Bijection
  <1> QED
    BY <1>8 DEF n

(* For any tracker size and any traffic: the set and the queue of Rust's   *)
(* CorrelationTracker agree, it takes an id as new again only after as     *)
(* many other ids as it holds, and RustBridge.process_line gives an event  *)
(* to its handler at most once per correlation id.                         *)
THEOREM DuplicatesDroppedHolds == MemorySpec => []DuplicatesDropped
  <1>1. MemoryInit => HandledInv /\ TrackerInv
    BY LimitPositive, SMT
       DEF MemoryInit, Init, HandledInv, TrackerInv, Distinct, IsPipe, Lines
  <1>2. HandledInv => HandledOnce
    BY DEF HandledInv, HandledOnce, IsInjective, Distinct, IsPipe
  <1>3. TrackerInv => TrackerConsistent
    BY TrackerCardinality DEF TrackerInv, TrackerConsistent, Range, Lines, IsPipe
  <1>4. ASSUME TrackerInv, NEW i \in DOMAIN marks, NEW j \in DOMAIN marks,
               i < j, marks[i] = marks[j]
        PROVE  j - i > Limit
    BY <1>4 DEF TrackerInv, IsPipe
  <1>5. HandledInv /\ TrackerInv => DuplicatesDropped
    BY <1>2, <1>3, <1>4 DEF DuplicatesDropped
  <1> QED
    BY <1>1, <1>5, HandledNext, TrackerNext, PTL DEF MemorySpec
-----------------------------------------------------------------------------
(***************************************************************************)
(* Events on their way in.  A line of a connector can only be lost to the  *)
(* tracker, so the invariant says where every id in the tracker comes      *)
(* from: an event that was forwarded, or a line of somebody else.  For     *)
(* that, every line in the pipe to Rust is a connector's or somebody       *)
(* else's, and so is every line in the other pipe, whose ids come back in  *)
(* acknowledgements.                                                       *)
(***************************************************************************)
KnownEvent(m) == m.type = "EVENT" /\ m.body \in EventNames

(* The lines the connectors write: known events, and lines Rust refuses.   *)
Accepted(m) == m.type = "MALFORMED" \/ KnownEvent(m)

IngressInv ==
    /\ IsPipe(forwarded)
    /\ \A m \in ingress : Accepted(m)
    /\ \A m \in Lines(toRust) : m \in ingress \/ m.id \in foreign
    /\ \A m \in Lines(toPython) : m.id \in foreign
    /\ \A id \in seen : id \in Lines(forwarded) \/ id \in foreign
    /\ \A m \in ingress :
         \/ m.type = "MALFORMED"
         \/ m \in Lines(toRust) \/ m.id \in Lines(forwarded) \/ m.id \in foreign

(* What was in a pipe is still there, except for the line that was read.   *)
LEMMA ReadLines ==
    ASSUME NEW s, IsPipe(s), s # <<>>
    PROVE  \A m \in Lines(s) : m \in Lines(Tail(s)) \/ m = Head(s)
  <1> DEFINE S == Lines(s)
  <1>1. s \in Seq(S) /\ Len(s) \in Nat
    BY SMT DEF IsPipe, Lines
  <1> HIDE DEF S
  <1>2. /\ Len(Tail(s)) = Len(s) - 1 /\ Head(s) = s[1]
        /\ \A i \in 1..Len(Tail(s)) : Tail(s)[i] = s[i + 1]
    BY <1>1, HeadTailProperties, SMTT(20)
  <1>3. ASSUME NEW i \in 1..Len(s), i # 1
        PROVE  i - 1 \in 1..Len(Tail(s)) /\ (i - 1) + 1 = i
    BY <1>1, <1>2, <1>3, SMT
  <1>4. ASSUME NEW i \in 1..Len(s) PROVE s[i] \in Lines(Tail(s)) \/ s[i] = Head(s)
    <2>1. CASE i = 1
      BY <1>2, <2>1
    <2>2. CASE i # 1
      BY <1>2, <1>3, <2>2 DEF Lines
    <2> QED
      BY <2>1, <2>2
  <1> QED
    BY <1>4 DEF Lines

(* The names that the connectors translate to are names Rust knows.        *)
LEMMA NamesAreKnown ==
    /\ \A k \in DOMAIN ACTION_EVENT_MAP : ACTION_EVENT_MAP[k] \in EventNames
    /\ \A k \in DOMAIN SYNC_EVENT_MAP : SYNC_EVENT_MAP[k] \in EventNames
  BY SMT DEF ACTION_EVENT_MAP, SYNC_EVENT_MAP, EventNames

(* A step that keeps its account of every line and every id.               *)
LEMMA IngressStep ==
    ASSUME IngressInv, IsPipe(forwarded'), Lines(forwarded) \subseteq Lines(forwarded'),
           ingress \subseteq ingress', foreign \subseteq foreign',
           \A m \in ingress' : m \in ingress \/ (Accepted(m) /\ m \in Lines(toRust')),
           \A m \in Lines(toRust') : m \in Lines(toRust) \/ m \in ingress' \/ m.id \in foreign',
           \A m \in Lines(toPython') : m \in Lines(toPython) \/ m.id \in foreign',
           \A id \in seen' : id \in seen \/ id \in Lines(forwarded') \/ id \in foreign',
           \A m \in Lines(toRust) :
             \/ m.type = "MALFORMED"
             \/ m \in Lines(toRust') \/ m.id \in Lines(forwarded') \/ m.id \in foreign'
    PROVE  IngressInv'
  <1>1. \A m \in ingress' : Accepted(m)
    BY DEF IngressInv
  <1>2. \A m \in Lines(toRust') : m \in ingress' \/ m.id \in foreign'
    BY DEF IngressInv
  <1>3. \A m \in Lines(toPython') : m.id \in foreign'
    BY DEF IngressInv
  <1>4. \A id \in seen' : id \in Lines(forwarded') \/ id \in foreign'
    BY DEF IngressInv
  <1>5. \A m \in ingress' :
          \/ m.type = "MALFORMED"
          \/ m \in Lines(toRust') \/ m.id \in Lines(forwarded') \/ m.id \in foreign'
    BY DEF IngressInv
  <1> QED
    BY <1>1, <1>2, <1>3, <1>4, <1>5 DEF IngressInv, Accepted, KnownEvent

(* mark_seen brings in no id but the one it is given.                      *)
LEMMA MarkSeenAdds ==
    ASSUME NEW id, MarkSeen(id)
    PROVE  \A x \in seen' : x \in seen \/ x = id
  BY DEF MarkSeen, Insert

(* Rust reads a line whose id, thereafter, is accounted for, or that it    *)
(* does not parse, and then the tracker stays as it was.                   *)
LEMMA RustReads ==
    ASSUME RequestInv, IngressInv, ReadLine, UNCHANGED <<ingress, foreign>>,
           IsPipe(forwarded'), Lines(forwarded) \subseteq Lines(forwarded'),
           \/ Incoming.id \in Lines(forwarded') \/ Incoming.id \in foreign
           \/ Incoming.type = "MALFORMED" /\ UNCHANGED seen,
           \A m \in Lines(toPython') : m \in Lines(toPython) \/ m.id \in foreign,
           UNCHANGED seen \/ MarkSeen(Incoming.id)
    PROVE  IngressInv'
  <1>1. /\ Lines(toRust') \subseteq Lines(toRust)
        /\ \A m \in Lines(toRust) : m \in Lines(toRust') \/ m = Incoming
    BY TailLines, ReadLines DEF RequestInv, PipesOK, ReadLine, Incoming
  <1>2. \A id \in seen' : id \in seen \/ id = Incoming.id
    BY MarkSeenAdds
  <1>3. ingress' = ingress /\ foreign' = foreign
    OBVIOUS
  <1>4. \A m \in Lines(toRust) :
          \/ m.type = "MALFORMED"
          \/ m \in Lines(toRust') \/ m.id \in Lines(forwarded') \/ m.id \in foreign'
    BY <1>1, <1>3
  <1>5. \A id \in seen' : id \in seen \/ id \in Lines(forwarded') \/ id \in foreign'
    BY <1>2, <1>3, ZenonT(30)
  <1> QED
    BY <1>1, <1>3, <1>4, <1>5, IngressStep, ZenonT(30)

(* The four ways Rust treats a line.                                       *)
LEMMA RustStepKeeps ==
    ASSUME RequestInv, IngressInv, RustStep, UNCHANGED <<ingress, foreign>>
    PROVE  IngressInv'
  <1>1. /\ ReadLine
        /\ Incoming \in Lines(toRust)
    BY TailLines DEF RustStep, DispatchDropped, DispatchIgnored, DispatchEvent,
                     DispatchRequest, ReadLine, Incoming, RequestInv, PipesOK
  <1>2. Incoming \in ingress \/ Incoming.id \in foreign
    BY <1>1 DEF IngressInv
  <1>3. IsPipe(forwarded)
    BY DEF IngressInv
  <1>4. CASE DispatchDropped
    <2>1. Incoming.type # "MALFORMED" => Incoming.id \in seen
      BY <1>4 DEF DispatchDropped
    <2>2. \/ Incoming.id \in Lines(forwarded) \/ Incoming.id \in foreign
          \/ Incoming.type = "MALFORMED"
      BY <2>1 DEF IngressInv
    <2> QED
      BY <1>1, <1>3, <1>4, <2>2, RustReads DEF DispatchDropped
  <1>5. CASE DispatchIgnored
    <2>1. "EVENT" \notin {"STATE_UPDATE"} \cup ResultTypes
      BY ResultIsNoEvent DEF ResultTypes
    <2>2. ~Accepted(Incoming)
      BY <1>5, <2>1 DEF DispatchIgnored, Fresh, Accepted, KnownEvent
    <2>3. Incoming.id \in foreign
      BY <1>2, <2>2 DEF IngressInv
    <2> QED
      BY <1>1, <1>3, <1>5, <2>3, RustReads DEF DispatchIgnored
  <1>6. CASE DispatchEvent
    <2>1. /\ IsPipe(forwarded')
          /\ Lines(forwarded') = Lines(forwarded) \cup {Incoming.id}
      BY <1>3, <1>6, AppendLine DEF DispatchEvent
    <2> QED
      BY <1>1, <1>6, <2>1, RustReads DEF DispatchEvent
  <1>7. CASE DispatchRequest
    <2>1. ~Accepted(Incoming)
      BY <1>7 DEF DispatchRequest, Fresh, Accepted, KnownEvent, RequestTypes
    <2>2. Incoming.id \in foreign
      BY <1>2, <2>1 DEF IngressInv
    <2> DEFINE a == Line(ResultType(Incoming.type), Incoming.id, Decision(Incoming.body))
    <2>3. a.id = Incoming.id /\ (toPython' = toPython \/ toPython' = Append(toPython, a))
      BY <1>7 DEF DispatchRequest, Line
    <2> HIDE DEF a
    <2>4. Lines(Append(toPython, a)) = Lines(toPython) \cup {a}
      BY AppendLine DEF RequestInv, PipesOK
    <2>5. \A m \in Lines(toPython') : m \in Lines(toPython) \/ m.id \in foreign
      BY <2>2, <2>3, <2>4
    <2> QED
      BY <1>1, <1>3, <1>7, <2>2, <2>5, RustReads DEF DispatchRequest
  <1> QED
    BY <1>4, <1>5, <1>6, <1>7 DEF RustStep

(* A line is written to Rust, by a connector or by somebody else.          *)
LEMMA PythonWrites ==
    ASSUME RequestInv, IngressInv, NEW m, toRust' = Append(toRust, m),
           UNCHANGED <<seen, forwarded>>, Lines(toPython') \subseteq Lines(toPython),
           \/ ingress' = ingress \cup {m} /\ Accepted(m) /\ UNCHANGED foreign
           \/ m.id \in foreign' /\ foreign \subseteq foreign' /\ UNCHANGED ingress
    PROVE  IngressInv'
  <1>1. Lines(toRust') = Lines(toRust) \cup {m}
    BY AppendLine DEF RequestInv, PipesOK
  <1>2. IsPipe(forwarded') /\ Lines(forwarded') = Lines(forwarded) /\ seen' = seen
    BY DEF IngressInv
  <1>3. /\ ingress \subseteq ingress' /\ foreign \subseteq foreign'
        /\ \A q \in ingress' : q \in ingress \/ (Accepted(q) /\ q = m)
        /\ m \in ingress' \/ m.id \in foreign'
    <2>1. CASE ingress' = ingress \cup {m} /\ Accepted(m) /\ foreign' = foreign
      BY <2>1
    <2>2. CASE m.id \in foreign' /\ foreign \subseteq foreign' /\ ingress' = ingress
      BY <2>2, ZenonT(30)
    <2> QED
      BY <2>1, <2>2
  <1> QED
    BY <1>1, <1>2, <1>3, IngressStep

(* A step that sends nothing.                                              *)
LEMMA NothingSent ==
    ASSUME IngressInv, UNCHANGED <<toRust, seen, forwarded, ingress, foreign>>,
           Lines(toPython') \subseteq Lines(toPython)
    PROVE  IngressInv'
  BY DEF IngressInv, Accepted, KnownEvent

(* Every step keeps the account.                                           *)
LEMMA IngressNext ==
    RequestInv /\ IngressInv /\ [MemoryNext]_<<vars, connectorVars, vectorVars>>
      => IngressInv'
  <1> SUFFICES ASSUME RequestInv, IngressInv,
                      [MemoryNext]_<<vars, connectorVars, vectorVars>>
               PROVE  IngressInv'
    OBVIOUS
  <1> USE DEF connectorVars
  <1>1. IsPipe(toPython) /\ IsPipe(toRust) /\ Lines(<<>>) = {}
    BY SMT DEF RequestInv, PipesOK, IsPipe, Lines
  <1>2. CASE RustStep /\ UNCHANGED <<connectorVars, vectorVars>>
    BY <1>2, RustStepKeeps
  <1>3. CASE ProcessLine /\ UNCHANGED <<connectorVars, vectorVars>>
    <2> DEFINE m == Line("STATE_UPDATE", Head(toPython).id, "accepted")
    <2>1. /\ toPython # <<>> /\ toPython' = Tail(toPython)
          /\ toRust' = toRust \/ toRust' = Append(toRust, m)
          /\ UNCHANGED <<seen, forwarded, ingress, foreign>>
      BY <1>3 DEF ProcessLine
    <2>2. Lines(toPython') \subseteq Lines(toPython) /\ Head(toPython) \in Lines(toPython)
      BY <1>1, <2>1, TailLines
    <2>3. m.id \in foreign'
      BY <2>1, <2>2 DEF IngressInv, Line
    <2> HIDE DEF m
    <2> QED
      BY <2>1, <2>2, <2>3, PythonWrites, NothingSent
  <1>4. CASE Connect /\ UNCHANGED vectorVars
    <2>1. ASSUME NEW m, Publish(m), Accepted(m) PROVE IngressInv'
      BY <2>1, PythonWrites DEF Publish, PythonWrite
    <2>2. ASSUME NEW p, NEW id, ReceiveEvent(p, id) \/ ReceiveSync(p, id)
          PROVE  IngressInv'
      BY <2>1, <2>2, NamesAreKnown
      DEF ReceiveEvent, ReceiveSync, ValidEvent, ValidSync, Envelope, Accepted, KnownEvent, Line
    <2>3. CASE ReceiveRaises
      BY <2>3, NothingSent DEF ReceiveRaises, vars
    <2> QED
      BY <1>4, <2>2, <2>3 DEF Connect
  <1>5. CASE OthersSend /\ UNCHANGED vectorVars
    <2>1. PICK id \in load.others :
            /\ \/ SendEvent(id)
               \/ PythonSend("EVENT", id, "Unrecognised")
               \/ PythonSend("MALFORMED", id, "none")
            /\ foreign' = foreign \cup {id} /\ UNCHANGED ingress
      BY <1>5 DEF OthersSend
    <2>2. CASE SendEvent(id)
      <3> DEFINE m == Line("EVENT", id, "BatteryLow")
      <3>1. /\ toPython' = Append(toPython, m) /\ m.id = id /\ MarkSeen(id)
            /\ UNCHANGED <<toRust, forwarded>>
        BY <2>2 DEF SendEvent, Line
      <3> HIDE DEF m
      <3>2. Lines(toPython') = Lines(toPython) \cup {m}
        BY <1>1, <3>1, AppendLine
      <3>3. \A x \in seen' : x \in seen \/ x = id
        BY <3>1, MarkSeenAdds
      <3>4. IsPipe(forwarded') /\ Lines(forwarded') = Lines(forwarded)
            /\ Lines(toRust') = Lines(toRust)
        BY <3>1 DEF IngressInv
      <3>5. id \in foreign' /\ ingress' = ingress /\ foreign \subseteq foreign'
        BY <2>1
      <3>6. \A x \in seen' : x \in seen \/ x \in Lines(forwarded') \/ x \in foreign'
        BY <3>3, <3>5
      <3>7. \A q \in Lines(toPython') : q \in Lines(toPython) \/ q.id \in foreign'
        BY <3>1, <3>2, <3>5, ZenonT(30)
      <3> QED
        BY <3>4, <3>5, <3>6, <3>7, IngressStep, ZenonT(30)
    <2>3. ASSUME NEW t, NEW b, PythonSend(t, id, b) PROVE IngressInv'
      <3>1. Line(t, id, b).id \in foreign'
        BY <2>1 DEF Line
      <3> QED
        BY <2>1, <2>3, <3>1, PythonWrites DEF PythonSend, PythonWrite
    <2> QED
      BY <2>1, <2>2, <2>3
  <1>6. ASSUME NEW op, NEW v, CallVector(op, v) PROVE IngressInv'
    BY <1>6, NothingSent DEF CallVector, vars
  <1>7. ASSUME NEW id, NEW q, Request(id, q), foreign' = foreign \cup {id},
               UNCHANGED ingress
        PROVE  IngressInv'
    <2>1. Line(q.type, id, q).id \in foreign'
      BY <1>7 DEF Line
    <2> QED
      BY <1>7, <2>1, PythonWrites DEF Request, PythonWrite
  <1>8. CASE TransportReturns /\ UNCHANGED <<ingress, foreign>>
    <2>1. Lines(toPython') \subseteq Lines(toPython)
      BY <1>1, <1>8, TailLines DEF TransportReturns
    <2> QED
      BY <1>8, <2>1, NothingSent DEF TransportReturns
  <1>9. CASE TransportFails /\ UNCHANGED <<ingress, foreign>>
    BY <1>9, NothingSent DEF TransportFails
  <1>10. VectorStep => IngressInv'
    BY <1>6, <1>7, <1>8, <1>9 DEF VectorStep, AskAuthority, AnswerArrives, AnswerFails
  <1>11. OtherCallers => IngressInv'
    BY <1>7, <1>8, <1>9 DEF OtherCallers
  <1>12. CASE KillChild
    BY <1>1, <1>12, NothingSent DEF KillChild, Shutdown
  <1>13. CASE UNCHANGED <<vars, connectorVars, vectorVars>>
    BY <1>13, NothingSent DEF vars
  <1> QED
    BY <1>2, <1>3, <1>4, <1>5, <1>10, <1>11, <1>12, <1>13 DEF MemoryNext

(* For any tracker size, payloads and traffic: an event accepted by        *)
(* MobileConnector.receive_event or SyncDaemon.receive_sync whose line     *)
(* Rust can parse is on its way to Rust or was published on the bus,       *)
(* unless somebody else used its correlation id.                           *)
THEOREM IngressReachesBusHolds == MemorySpec => []IngressReachesBus
  <1>1. MemoryInit => IngressInv
    BY SMT DEF MemoryInit, Init, ConnectorInit, IngressInv, IsPipe, Lines
  <1>2. RequestInv /\ IngressInv => IngressReachesBus
    BY DEF RequestInv, PipesOK, IngressInv, IngressReachesBus, Range, Lines, IsPipe
  <1> QED
    BY <1>1, <1>2, RequestInit, RequestNext, IngressNext, PTL DEF MemorySpec
=============================================================================
