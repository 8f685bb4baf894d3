-------------------------- MODULE TaskStoreProofs ---------------------------
(***************************************************************************)
(* The task store, for any threads, any rows and columns, any way to       *)
(* construct the store and any number of calls.  The invariants are proved *)
(* over StoreNext, the steps the store can take whoever calls it, so that  *)
(* they hold for the store by itself (Spec) and below the router           *)
(* (RouterSpec).                                                           *)
(***************************************************************************)
EXTENDS TaskStore, TLAPS

(* Zenon tries every leaf that names no other prover.                      *)
USE Zenon

-----------------------------------------------------------------------------
(* Sequences.                                                              *)

(* An element of a sequence is one of its set.                             *)
LEMMA SeqElement ==
    ASSUME NEW S, NEW q \in Seq(S), NEW i \in 1..Len(q)
    PROVE  q[i] \in S
  BY SMT

(* The length and the positions of a sequence.                             *)
LEMMA SeqLength ==
    ASSUME NEW S, NEW q \in Seq(S)
    PROVE  /\ Len(q) \in Nat
           /\ q \in [1..Len(q) -> S] /\ DOMAIN q = 1..Len(q)
  BY SMT

(* A sequence with one element replaced.                                   *)
LEMMA SeqExcept ==
    ASSUME NEW S, NEW q \in Seq(S), NEW k \in 1..Len(q), NEW e \in S
    PROVE  /\ [q EXCEPT ![k] = e] \in Seq(S) /\ Len([q EXCEPT ![k] = e]) = Len(q)
           /\ \A i \in 1..Len(q) : [q EXCEPT ![k] = e][i] = IF i = k THEN e ELSE q[i]
  BY SMT

(* A sequence with one element more.                                       *)
LEMMA SeqAppend ==
    ASSUME NEW S, NEW q \in Seq(S), NEW e \in S
    PROVE  /\ Append(q, e) \in Seq(S) /\ Append(q, e) # <<>>
           /\ Len(Append(q, e)) = Len(q) + 1 /\ Append(q, e)[Len(q) + 1] = e
           /\ \A i \in 1..Len(q) : Append(q, e)[i] = q[i]
  BY SMT

(* The types of the rows, of a call and of the places it can be at.        *)
Data == Values \cup {0}
Row == [state : TaskState, stamped : BOOLEAN, data : [Fields -> Data]]
Kinds == {"none", "missing", "create", "update", "transition"}
Call == [kind : Kinds, task : Nat, dest : TaskState, read : Row,
         data : [Fields -> Data], permission : BOOLEAN, target : TaskState]
Asking == {"preflight", "memory", "assert", "storage"}
Places == Asking \cup {"idle", "commit", "reply"}

(* Every step of the store: a call of one of its threads, a step of a      *)
(* call, a restart.                                                        *)
StoreBegins(c) ==
    \/ \E d \in [Fields -> Values] : CreateTask(c, d)
    \/ \E t \in Nat, f \in Fields, v \in Values : UpdateTask(c, t, f, v)
    \/ \E t \in Nat, dest \in TaskState : TransitionTask(c, t, dest)
    \/ \E t \in Nat : TaskMissing(c, t)

(* A step of the store, whoever calls it.                                  *)
StoreNext ==
    \/ \E c \in load.callers : StoreBegins(c)
    \/ \E c \in Callers : StoreStep(c)
    \/ Restart

(* The state is well formed: a call that has begun has a statement to run, *)
(* on a row that exists unless it creates one, and asks the memory         *)
(* authority exactly when there is a bridge to it.                         *)
StoreType ==
    /\ load \in Loads
    /\ conf \in Argument /\ (conf.storage => conf.memory)
    /\ rows \in Seq(Row) /\ disk \in Seq(Row) /\ Len(disk) <= Len(rows)
    /\ log \in Seq([task : Nat, from : TaskState, to : TaskState])
    /\ raised \in BOOLEAN
    /\ pc \in [Callers -> Places] /\ op \in [Callers -> Call]
    /\ result \in [Callers -> {"none", "ok", "missing", "invalid", "internal"}]
    /\ \A c \in Callers : pc[c] # "idle" =>
         /\ c \in load.callers
         /\ op[c].kind \in {"create", "update", "transition"}
         /\ op[c].kind # "create" \/ pc[c] \in {"commit", "reply"} => op[c].task \in 1..Len(rows)
         /\ pc[c] \in {"preflight", "memory"} => op[c].kind = "transition" /\ conf.memory
         /\ pc[c] = "assert" => op[c].kind = "transition" /\ ~conf.memory

(* Where ARCHIVED is guarded, the stamp of a row says whether it is        *)
(* archived, and a transition that was let through leaves ARCHIVED only    *)
(* for ARCHIVED.                                                           *)
StampInv ==
    ArchivedGuarded =>
        /\ StampOf(rows) /\ StampOf(disk)
        /\ \A c \in Callers : op[c].read.stamped = (op[c].read.state = "ARCHIVED")
        /\ \A c \in Callers :
             /\ pc[c] = "storage" \/ (pc[c] = "memory" /\ op[c].permission)
             /\ op[c].kind = "transition" /\ op[c].dest # "ARCHIVED"
             => op[c].read.state # "ARCHIVED"

(* With one thread, the row a call works on is the row it read, and the    *)
(* table never undoes what is on disk.                                     *)
SoloInv ==
    Solo =>
        /\ \A c \in Callers :
             pc[c] \in Asking /\ op[c].kind # "create" => op[c].read = rows[op[c].task]
        /\ ArchivedGuarded => \A t \in DOMAIN disk : disk[t].state = "ARCHIVED" =>
             /\ rows[t].state = "ARCHIVED"
             /\ conf.storage => rows[t].data = disk[t].data

(* The calls that have logged a change of task t and not written it yet.   *)
Pending(t) == {c \in Callers : pc[c] = "storage" /\ op[c].kind = "transition" /\ op[c].task = t}

(* The log speaks of rows that exist.  With one thread and no bridge, the  *)
(* last record of a task is its state, or the state that the call under    *)
(* way is about to write.                                                  *)
LogInv ==
    /\ \A i \in 1..Len(log) : log[i].task \in 1..Len(rows)
    /\ \A t \in Nat : LastRecord(t) = 0 \/ LastRecord(t) \in 1..Len(log)
    /\ ~conf.storage /\ conf.enforceStorage => rows = <<>> /\ disk = <<>>
    /\ Solo /\ ~conf.memory /\ ~raised =>
         \A t \in DOMAIN rows : LastRecord(t) # 0 =>
           /\ Pending(t) = {} => log[LastRecord(t)].to = rows[t].state
           /\ \A c \in Pending(t) : log[LastRecord(t)].to = op[c].dest
-----------------------------------------------------------------------------
(* The types of the rows and calls the actions build.                      *)

(* The row and the call of an idle thread have their types.                *)
LEMMA NoCallType == NoRow \in Row /\ NoCall \in Call
  <1>1. NoRow.data \in [Fields -> Data]
    BY DEF NoRow, Data
  <1>2. NoRow \in Row
    BY <1>1 DEF NoRow, Row, TaskState
  <1> QED
    BY <1>1, <1>2 DEF NoCall, Call, Kinds, TaskState

(* What a statement makes of the table: a new row at its end, or one row   *)
(* with another state or other columns.                                    *)
LEMMA WrittenRows ==
    ASSUME StoreType, NEW c \in Callers, pc[c] = "storage"
    PROVE  LET w == Written(op[c])
               o == op[c]
               n == Len(rows)
           IN /\ w \in Seq(Row) /\ n \in Nat
              /\ o.kind = "create" =>
                   /\ Len(w) = n + 1
                   /\ \A t \in 1..n : w[t] = rows[t]
                   /\ w[n + 1] = [state |-> "CREATED", stamped |-> FALSE, data |-> o.data]
              /\ o.kind \in {"update", "transition"} =>
                   /\ Len(w) = n
                   /\ o.task \in 1..n
                   /\ \A t \in 1..n : t # o.task => w[t] = rows[t]
              /\ o.kind = "update" => w[o.task] = [rows[o.task] EXCEPT !.data = o.data]
              /\ o.kind = "transition" =>
                   w[o.task] = [rows[o.task] EXCEPT !.state = o.dest,
                                  !.stamped = o.dest = "ARCHIVED" \/ o.read.stamped]
              /\ o.kind \in {"create", "update", "transition"}
  <1> DEFINE w == Written(op[c])
             o == op[c]
             n == Len(rows)
  <1>1. /\ rows \in Seq(Row) /\ n \in Nat /\ o \in Call
        /\ o.kind \in {"create", "update", "transition"}
        /\ o.kind # "create" => o.task \in 1..n
    BY SeqLength DEF StoreType
  <1> HIDE DEF o
  <1>2. o.data \in [Fields -> Data] /\ o.dest \in TaskState /\ o.read.stamped \in BOOLEAN
    BY <1>1 DEF Call, Row
  <1>3. CASE o.kind = "create"
    <2> DEFINE r == [state |-> "CREATED", stamped |-> FALSE, data |-> o.data]
    <2>1. r \in Row
      BY <1>2 DEF Row, TaskState
    <2>2. w = Append(rows, r)
      BY <1>3 DEF Written, o
    <2> HIDE DEF r, w
    <2>3. /\ w \in Seq(Row) /\ Len(w) = n + 1 /\ w[n + 1] = r
          /\ \A t \in 1..n : w[t] = rows[t]
      BY <1>1, <2>1, <2>2, SeqAppend, SMT
    <2> QED
      BY <1>1, <1>3, <2>3 DEF o, w, r
  <1>4. CASE o.kind = "update"
    <2> DEFINE r == [rows[o.task] EXCEPT !.data = o.data]
    <2>1. r \in Row
      <3>1. rows[o.task] \in Row
        BY <1>1, <1>4, SeqElement
      <3> QED
        BY <1>2, <3>1 DEF Row
    <2>2. w = [rows EXCEPT ![o.task] = r]
      BY <1>4 DEF Written, o
    <2> HIDE DEF r, w
    <2>3. /\ w \in Seq(Row) /\ Len(w) = n /\ w[o.task] = r
          /\ \A t \in 1..n : t # o.task => w[t] = rows[t]
      BY <1>1, <1>4, <2>1, <2>2, SeqExcept, SMT
    <2> QED
      BY <1>1, <1>4, <2>3 DEF o, w, r
  <1>5. CASE o.kind = "transition"
    <2> DEFINE r == [rows[o.task] EXCEPT !.state = o.dest,
                                    !.stamped = o.dest = "ARCHIVED" \/ o.read.stamped]
    <2>1. r \in Row
      <3>1. rows[o.task] \in Row
        BY <1>1, <1>5, SeqElement
      <3> QED
        BY <1>2, <3>1 DEF Row
    <2>2. w = [rows EXCEPT ![o.task] = r]
      <3>1. rows[o.task] \in Row
        BY <1>1, <1>5, SeqElement
      <3>2. w = [rows EXCEPT ![o.task].state = o.dest,
                             ![o.task].stamped = o.dest = "ARCHIVED" \/ o.read.stamped]
        BY <1>5 DEF Written, o
      <3> QED
        BY <3>1, <3>2, <1>1, <1>5 DEF Row
    <2> HIDE DEF r, w
    <2>3. /\ w \in Seq(Row) /\ Len(w) = n /\ w[o.task] = r
          /\ \A t \in 1..n : t # o.task => w[t] = rows[t]
      BY <1>1, <1>5, <2>1, <2>2, SeqExcept, SMT
    <2> QED
      BY <1>1, <1>5, <2>3 DEF o, w, r
  <1> QED
    BY <1>1, <1>3, <1>4, <1>5

(* The store's state is well formed throughout.                            *)
LEMMA StoreTypeInit == Init => StoreType
  <1> SUFFICES ASSUME Init PROVE StoreType
    OBVIOUS
  <1>1. PICK args \in load.arguments : conf = Construct(args)
    BY DEF Init
  <1>2. args \in Argument
    BY TaskStoreAssumption DEF Init
  <1>3. conf \in Argument /\ (conf.storage => conf.memory)
    BY <1>1, <1>2 DEF Construct, Argument
  <1>4. <<>> \in Seq(Row) /\ Len(<<>>) = 0 /\ <<>> \in Seq([task : Nat, from : TaskState, to : TaskState])
    BY SMT
  <1>5. rows \in Seq(Row) /\ disk \in Seq(Row) /\ Len(disk) <= Len(rows)
        /\ log \in Seq([task : Nat, from : TaskState, to : TaskState])
    BY <1>4, SMT DEF Init
  <1>6. /\ pc \in [Callers -> Places] /\ op \in [Callers -> Call]
        /\ result \in [Callers -> {"none", "ok", "missing", "invalid", "internal"}]
        /\ \A c \in Callers : pc[c] = "idle"
    BY NoCallType DEF Init, Places
  <1>7. load \in Loads /\ raised \in BOOLEAN
    BY DEF Init
  <1> QED
    BY <1>3, <1>5, <1>6, <1>7 DEF StoreType

(* A call begins.                                                          *)
LEMMA StoreTypeBegins ==
    ASSUME StoreType, NEW c \in load.callers, StoreBegins(c)
    PROVE  StoreType'
  <1> USE DEF StoreType
  <1>c. c \in Callers /\ load.callers \subseteq Callers
    BY DEF Callers
  <1>1. ASSUME NEW o \in Call, NEW l \in Places, Start(c, o, l),
               o.kind \in {"create", "update", "transition"},
               o.kind # "create" => o.task \in 1..Len(rows),
               l \notin {"commit", "reply"},
               l \in {"preflight", "memory"} => o.kind = "transition" /\ conf.memory,
               l = "assert" => o.kind = "transition" /\ ~conf.memory
        PROVE  StoreType'
    <2>1. /\ UNCHANGED <<load, conf, raised, rows, disk, log>>
          /\ pc' = [pc EXCEPT ![c] = l] /\ op' = [op EXCEPT ![c] = o]
          /\ result' = [result EXCEPT ![c] = "none"]
      BY <1>1 DEF Start, Goto
    <2>2. /\ pc' \in [Callers -> Places] /\ op' \in [Callers -> Call]
          /\ result' \in [Callers -> {"none", "ok", "missing", "invalid", "internal"}]
          /\ pc'[c] = l /\ op'[c] = o
          /\ \A d \in Callers : d # c => pc'[d] = pc[d] /\ op'[d] = op[d]
      BY <2>1, <1>c
    <2>3. ASSUME NEW d \in Callers, pc'[d] # "idle"
          PROVE  /\ d \in load'.callers
                 /\ op'[d].kind \in {"create", "update", "transition"}
                 /\ op'[d].kind # "create" \/ pc'[d] \in {"commit", "reply"}
                      => op'[d].task \in 1..Len(rows')
                 /\ pc'[d] \in {"preflight", "memory"}
                      => op'[d].kind = "transition" /\ conf'.memory
                 /\ pc'[d] = "assert" => op'[d].kind = "transition" /\ ~conf'.memory
      <3>1. CASE d = c
        BY <2>1, <2>2, <3>1, <1>1
      <3>2. CASE d # c
        BY <2>1, <2>2, <2>3, <3>2
      <3> QED
        BY <3>1, <3>2
    <2> QED
      BY <2>1, <2>2, <2>3
  <1>2. ASSUME NEW d \in [Fields -> Values], CreateTask(c, d) PROVE StoreType'
    <2> DEFINE o == [NoCall EXCEPT !.kind = "create", !.data = d]
    <2>1. d \in [Fields -> Data]
      BY DEF Data
    <2>2. o \in Call /\ o.kind = "create"
      BY <2>1, NoCallType DEF Call, Kinds
    <2>3. Start(c, o, "storage")
      BY <1>2 DEF CreateTask
    <2> HIDE DEF o
    <2> QED
      BY <1>1, <2>2, <2>3 DEF Places, Asking
  <1>3. ASSUME NEW t \in Nat, NEW f \in Fields, NEW v \in Values, UpdateTask(c, t, f, v)
        PROVE  StoreType'
    <2> DEFINE o == [NoCall EXCEPT !.kind = "update", !.task = t, !.read = rows[t],
                               !.data = [rows[t].data EXCEPT ![f] = v]]
    <2>1. t \in 1..Len(rows)
      BY <1>3, SeqLength DEF UpdateTask
    <2>2. rows[t] \in Row
      BY <2>1, SeqElement
    <2>3. [rows[t].data EXCEPT ![f] = v] \in [Fields -> Data]
      BY <2>2 DEF Row, Data
    <2>4. o \in Call /\ o.kind = "update" /\ o.task = t
      BY <2>2, <2>3, NoCallType DEF Call, Kinds
    <2>5. Start(c, o, "storage")
      BY <1>3 DEF UpdateTask
    <2> HIDE DEF o
    <2> QED
      BY <1>1, <2>1, <2>4, <2>5 DEF Places, Asking
  <1>4. ASSUME NEW t \in Nat, NEW dest \in TaskState, TransitionTask(c, t, dest)
        PROVE  StoreType'
    <2> DEFINE o == [NoCall EXCEPT !.kind = "transition", !.task = t, !.dest = dest,
                               !.read = rows[t]]
               l == IF conf.memory THEN "preflight" ELSE "assert"
    <2>1. t \in 1..Len(rows)
      BY <1>4, SeqLength DEF TransitionTask
    <2>2. rows[t] \in Row
      BY <2>1, SeqElement
    <2>3. o \in Call /\ o.kind = "transition" /\ o.task = t
      BY <2>2, NoCallType DEF Call, Kinds
    <2>4. Start(c, o, l)
      BY <1>4 DEF TransitionTask
    <2>5. l \in Places \ {"commit", "reply"} /\ l # "memory"
          /\ (l = "preflight" <=> conf.memory) /\ (l = "assert" <=> ~conf.memory)
      BY DEF Places, Asking
    <2> HIDE DEF o, l
    <2> QED
      BY <1>1, <2>1, <2>3, <2>4, <2>5
  <1>5. ASSUME NEW t \in Nat, TaskMissing(c, t) PROVE StoreType'
    <2> DEFINE o == [NoCall EXCEPT !.kind = "missing", !.task = t]
    <2>1. o \in Call
      BY NoCallType DEF Call, Kinds
    <2>2. /\ UNCHANGED <<load, conf, raised, rows, disk, log>>
          /\ pc' = [pc EXCEPT ![c] = "idle"] /\ op' = [op EXCEPT ![c] = o]
          /\ result' = [result EXCEPT ![c] = "missing"]
      BY <1>5 DEF TaskMissing, Return, Goto
    <2> HIDE DEF o
    <2> QED
      BY <1>c, <2>1, <2>2 DEF Places
  <1> QED
    BY <1>2, <1>3, <1>4, <1>5 DEF StoreBegins

(* A call ends, whatever its result, and nothing but its place changes.    *)
LEMMA StoreTypeReturns ==
    ASSUME StoreType, NEW c \in Callers,
           NEW how \in {"ok", "missing", "invalid", "internal"}, Return(c, how),
           UNCHANGED <<load, conf, rows, disk, log, op>>, raised' \in BOOLEAN
    PROVE  StoreType'
  BY DEF StoreType, Return, Goto, Places

(* A call goes on with the next of its requests.                           *)
LEMMA StoreTypeMoves ==
    ASSUME StoreType, NEW c \in Callers, pc[c] \in Asking,
           NEW l \in {"memory", "storage"}, Goto(c, l),
           l = "memory" => op[c].kind = "transition" /\ conf.memory,
           NEW o \in Call, op' = [op EXCEPT ![c] = o],
           o.kind = op[c].kind, o.task = op[c].task,
           UNCHANGED <<load, conf, raised, rows, disk, result>>,
           log' \in Seq([task : Nat, from : TaskState, to : TaskState])
    PROVE  StoreType'
  <1>1. /\ pc' \in [Callers -> Places] /\ op' \in [Callers -> Call]
        /\ pc'[c] = l /\ op'[c] = o
        /\ \A d \in Callers : d # c => pc'[d] = pc[d] /\ op'[d] = op[d]
    BY DEF StoreType, Goto, Places, Asking
  <1>2. c \in load.callers /\ op[c].kind \in {"create", "update", "transition"}
        /\ (op[c].kind # "create" => op[c].task \in 1..Len(rows))
    BY DEF StoreType, Asking
  <1> QED
    BY <1>1, <1>2, SMT DEF StoreType

(* The record a transition leaves in the log.                              *)
LEMMA RecordType ==
    ASSUME StoreType, NEW c \in Callers
    PROVE  Append(log, Record(c)) \in Seq([task : Nat, from : TaskState, to : TaskState])
  <1>1. Record(c) \in [task : Nat, from : TaskState, to : TaskState]
    <2>1. op[c] \in Call
      BY DEF StoreType
    <2> QED
      BY <2>1 DEF Record, Call, Row
  <1> QED
    BY <1>1, SeqAppend DEF StoreType

(* The target of a grant is the state that was asked for.                  *)
LEMMA GrantedTarget ==
    ASSUME NEW o \in Call, NEW reply, MemoryGrant(o, reply)
    PROVE  memory_target(MemoryOperation(o)) = o.dest
  BY DEF MemoryGrant, determine_memory_transition, MemoryOperation, memory_target, Call, TaskState

(* A step of a call.                                                       *)
LEMMA StoreTypeStep ==
    ASSUME StoreType, NEW c \in Callers, StoreStep(c)
    PROVE  StoreType'
  <1>t. op[c] \in Call /\ pc[c] \in Places
    BY DEF StoreType
  <1>1. CASE TransportRaises(c)
    BY <1>1, StoreTypeReturns DEF TransportRaises, StoreType
  <1>2. ASSUME NEW reply \in Replies, RequestStoragePermission(c, reply) PROVE StoreType'
    <2> DEFINE p == IF conf.storage THEN StorageGrant(op[c], reply) ELSE ~conf.enforceStorage
               o == [op[c] EXCEPT !.permission = p]
    <2>1. p \in BOOLEAN
      BY DEF StorageGrant, determine_storage_policy
    <2>2. /\ op' = [op EXCEPT ![c] = o] /\ Goto(c, "memory") /\ pc[c] = "preflight"
          /\ UNCHANGED <<load, conf, raised, rows, disk, log, result>>
      BY <1>2 DEF RequestStoragePermission
    <2> HIDE DEF p
    <2>3. o \in Call /\ o.kind = op[c].kind /\ o.task = op[c].task
      BY <1>t, <2>1 DEF Call
    <2>4. op[c].kind = "transition" /\ conf.memory
      BY <2>2 DEF StoreType
    <2> HIDE DEF o
    <2> QED
      BY <2>2, <2>3, <2>4, StoreTypeMoves DEF Asking, StoreType
  <1>3. ASSUME NEW reply \in Replies, MemoryValidate(c, reply) PROVE StoreType'
    <2>1. CASE ~MemoryGrant(op[c], reply)
      BY <1>3, <2>1, StoreTypeReturns DEF MemoryValidate, StoreType
    <2>2. CASE MemoryGrant(op[c], reply)
      <3> DEFINE o == [op[c] EXCEPT !.target = memory_target(MemoryOperation(op[c]))]
      <3>1. /\ op' = [op EXCEPT ![c] = o] /\ Goto(c, "storage") /\ pc[c] = "memory"
            /\ UNCHANGED <<load, conf, raised, rows, disk, result>>
            /\ log' = Append(log, Record(c))
        BY <1>3, <2>2 DEF MemoryValidate
      <3>2. memory_target(MemoryOperation(op[c])) = op[c].dest
        BY <1>t, <2>2, GrantedTarget
      <3>3. o \in Call /\ o.kind = op[c].kind /\ o.task = op[c].task
        BY <1>t, <3>2 DEF Call
      <3> HIDE DEF o
      <3> QED
        BY <3>1, <3>3, RecordType, StoreTypeMoves DEF Asking
    <2> QED
      BY <2>1, <2>2
  <1>4. CASE AssertTransition(c)
    <2>1. CASE Return(c, "invalid") /\ UNCHANGED log
      BY <1>4, <2>1, StoreTypeReturns DEF AssertTransition, StoreType
    <2>2. CASE log' = Append(log, Record(c)) /\ Goto(c, "storage") /\ UNCHANGED result
      <3>1. op' = [op EXCEPT ![c] = op[c]] /\ pc[c] = "assert"
            /\ UNCHANGED <<load, conf, raised, rows, disk, result>>
        BY <1>4, <2>2 DEF AssertTransition, StoreType
      <3> QED
        BY <1>t, <2>2, <3>1, RecordType, StoreTypeMoves DEF Asking
    <2> QED
      BY <1>4, <2>1, <2>2 DEF AssertTransition
  <1>5. ASSUME NEW reply \in Replies, StorageDenies(c, reply) PROVE StoreType'
    BY <1>5, StoreTypeReturns DEF StorageDenies, StoreType
  <1>6. ASSUME NEW reply \in Replies, Execute(c, reply) PROVE StoreType'
    <2>1. /\ pc[c] = "storage" /\ rows' = Written(op[c])
          /\ pc' = [pc EXCEPT ![c] = "commit"]
          /\ UNCHANGED <<load, conf, raised, disk, log, result>>
      BY <1>6 DEF Execute, Goto
    <2>2. /\ rows' \in Seq(Row) /\ Len(rows) \in Nat /\ Len(rows') \in Nat
          /\ op[c].kind = "create" => Len(rows') = Len(rows) + 1
          /\ op[c].kind # "create" => Len(rows') = Len(rows) /\ op[c].task \in 1..Len(rows)
          /\ op[c].kind \in {"create", "update", "transition"}
      BY <2>1, WrittenRows, SeqLength
    <2>3. /\ op' \in [Callers -> Call]
          /\ op'[c].kind = op[c].kind /\ op'[c].task \in 1..Len(rows')
          /\ \A d \in Callers : d # c => op'[d] = op[d]
      <3>1. CASE op[c].kind = "create"
        <4> DEFINE o == [op[c] EXCEPT !.task = Len(rows) + 1]
        <4>1. op' = [op EXCEPT ![c] = o]
          BY <1>6, <3>1 DEF Execute
        <4>2. o \in Call /\ o.kind = op[c].kind /\ o.task = Len(rows) + 1
          BY <1>t, <2>2, SMT DEF Call
        <4> HIDE DEF o
        <4> QED
          BY <2>2, <3>1, <4>1, <4>2, SMT DEF StoreType
      <3>2. CASE op[c].kind # "create"
        BY <1>6, <2>2, <3>2 DEF Execute, StoreType
      <3> QED
        BY <3>1, <3>2
    <2>4. /\ pc' \in [Callers -> Places] /\ pc'[c] = "commit"
          /\ \A d \in Callers : d # c => pc'[d] = pc[d]
      BY <2>1 DEF StoreType, Places
    <2>5. Len(disk) \in Nat
      BY SeqLength DEF StoreType
    <2>6. Len(rows) <= Len(rows')
      BY <2>2, SMT
    <2>7. ASSUME NEW d \in Callers, pc'[d] # "idle"
          PROVE  /\ d \in load'.callers
                 /\ op'[d].kind \in {"create", "update", "transition"}
                 /\ op'[d].kind # "create" \/ pc'[d] \in {"commit", "reply"}
                      => op'[d].task \in 1..Len(rows')
                 /\ pc'[d] \in {"preflight", "memory"}
                      => op'[d].kind = "transition" /\ conf'.memory
                 /\ pc'[d] = "assert" => op'[d].kind = "transition" /\ ~conf'.memory
      <3>1. CASE d = c
        BY <2>1, <2>2, <2>3, <2>4, <3>1 DEF StoreType
      <3>2. CASE d # c
        BY <2>1, <2>2, <2>3, <2>4, <2>6, <2>7, <3>2, SMT DEF StoreType
      <3> QED
        BY <3>1, <3>2
    <2>8. Len(disk') <= Len(rows')
      BY <2>1, <2>2, <2>5, <2>6, SMT DEF StoreType
    <2> QED
      BY <2>1, <2>2, <2>3, <2>4, <2>7, <2>8 DEF StoreType
  <1>7. CASE Commit(c)
    <2>1. Len(rows) \in Nat
      BY SeqLength DEF StoreType
    <2> QED
      BY <1>7, <2>1, SMT DEF Commit, Goto, StoreType, Places
  <1>8. CASE SqliteRaises(c)
    BY <1>8, StoreTypeReturns DEF SqliteRaises, StoreType
  <1>9. CASE Reply(c)
    <2> DEFINE o == [op[c] EXCEPT !.read = rows[op[c].task]]
    <2>1. op[c].task \in 1..Len(rows) /\ rows[op[c].task] \in Row
      BY <1>9, SeqElement DEF Reply, StoreType
    <2>2. o \in Call
      BY <1>t, <2>1 DEF Call
    <2>3. op' = [op EXCEPT ![c] = o] /\ pc' = [pc EXCEPT ![c] = "idle"]
          /\ result' = [result EXCEPT ![c] = "ok"]
          /\ UNCHANGED <<load, conf, raised, rows, disk, log>>
      BY <1>9 DEF Reply, Return, Goto
    <2> HIDE DEF o
    <2> QED
      BY <2>2, <2>3 DEF StoreType, Places
  <1> QED
    BY <1>1, <1>2, <1>3, <1>4, <1>5, <1>6, <1>7, <1>8, <1>9 DEF StoreStep

(* Well-formedness is inductive.                                           *)
LEMMA StoreTypeNext == StoreType /\ [StoreNext]_vars => StoreType'
  <1> SUFFICES ASSUME StoreType, [StoreNext]_vars PROVE StoreType'
    OBVIOUS
  <1>1. CASE Restart
    <2>1. <<>> \in Seq([task : Nat, from : TaskState, to : TaskState])
      BY SMT
    <2>2. Len(disk) \in Nat
      BY SeqLength DEF StoreType
    <2>3. /\ pc' \in [Callers -> Places] /\ op' \in [Callers -> Call]
          /\ result' \in [Callers -> {"none", "ok", "missing", "invalid", "internal"}]
          /\ \A c \in Callers : pc'[c] = "idle"
      BY <1>1, NoCallType DEF Restart, Places
    <2>4. /\ rows' = disk /\ log' = <<>> /\ raised' = FALSE
          /\ UNCHANGED <<load, conf, disk>>
      BY <1>1 DEF Restart
    <2>5. /\ rows' \in Seq(Row) /\ disk' \in Seq(Row) /\ Len(disk') <= Len(rows')
          /\ log' \in Seq([task : Nat, from : TaskState, to : TaskState])
      BY <2>1, <2>2, <2>4, SMT DEF StoreType
    <2> QED
      BY <2>3, <2>4, <2>5 DEF StoreType
  <1>2. CASE UNCHANGED vars
    BY <1>2 DEF vars, StoreType
  <1> QED
    BY <1>1, <1>2, StoreTypeBegins, StoreTypeStep DEF StoreNext
-----------------------------------------------------------------------------
(* Stamps.                                                                 *)

(* A call that begins has read a row with its stamp.                       *)
LEMMA StampBegins ==
    ASSUME StoreType, StampInv, ArchivedGuarded, NEW c \in load.callers, StoreBegins(c)
    PROVE  StampInv'
  <1>c. c \in Callers
    BY DEF Callers, StoreType
  <1>1. ASSUME NEW o, NEW l, l \notin {"memory", "storage"}, Start(c, o, l),
               o.read.stamped = (o.read.state = "ARCHIVED")
        PROVE  StampInv'
    BY <1>1, <1>c, ZenonT(30) DEF Start, Goto, StampInv, StampOf, ArchivedGuarded, StoreType
  <1>2. ASSUME NEW o, o.kind # "transition", Start(c, o, "storage"),
               o.read.stamped = (o.read.state = "ARCHIVED")
        PROVE  StampInv'
    BY <1>2, <1>c, ZenonT(30) DEF Start, Goto, StampInv, StampOf, ArchivedGuarded, StoreType
  <1>3. NoCall.read.stamped = (NoCall.read.state = "ARCHIVED")
    BY DEF NoCall, NoRow
  <1>4. ASSUME NEW t \in DOMAIN rows PROVE rows[t].stamped = (rows[t].state = "ARCHIVED")
    BY DEF StampInv, StampOf
  <1>5. ASSUME NEW d \in [Fields -> Values], CreateTask(c, d) PROVE StampInv'
    <2> DEFINE o == [NoCall EXCEPT !.kind = "create", !.data = d]
    <2>1. o.kind = "create" /\ o.read = NoCall.read
      BY DEF NoCall
    <2>2. Start(c, o, "storage")
      BY <1>5 DEF CreateTask
    <2> HIDE DEF o
    <2> QED
      BY <1>2, <1>3, <2>1, <2>2
  <1>6. ASSUME NEW t \in Nat, NEW f \in Fields, NEW v \in Values, UpdateTask(c, t, f, v)
        PROVE  StampInv'
    <2> DEFINE o == [NoCall EXCEPT !.kind = "update", !.task = t, !.read = rows[t],
                               !.data = [rows[t].data EXCEPT ![f] = v]]
    <2>1. o.kind = "update" /\ o.read = rows[t]
      BY DEF NoCall
    <2>2. Start(c, o, "storage") /\ t \in DOMAIN rows
      BY <1>6 DEF UpdateTask
    <2> HIDE DEF o
    <2> QED
      BY <1>2, <1>4, <2>1, <2>2
  <1>7. ASSUME NEW t \in Nat, NEW dest \in TaskState, TransitionTask(c, t, dest)
        PROVE  StampInv'
    <2> DEFINE o == [NoCall EXCEPT !.kind = "transition", !.task = t, !.dest = dest,
                               !.read = rows[t]]
               l == IF conf.memory THEN "preflight" ELSE "assert"
    <2>1. o.read = rows[t]
      BY DEF NoCall
    <2>2. Start(c, o, l) /\ t \in DOMAIN rows
      BY <1>7 DEF TransitionTask
    <2>3. l \notin {"memory", "storage"}
      OBVIOUS
    <2> HIDE DEF o, l
    <2> QED
      BY <1>1, <1>4, <2>1, <2>2, <2>3
  <1>8. ASSUME NEW t \in Nat, TaskMissing(c, t) PROVE StampInv'
    <2> DEFINE o == [NoCall EXCEPT !.kind = "missing", !.task = t]
    <2>1. o.read = NoCall.read
      BY DEF NoCall
    <2>2. /\ UNCHANGED <<load, conf, raised, rows, disk, log>>
          /\ pc' = [pc EXCEPT ![c] = "idle"] /\ op' = [op EXCEPT ![c] = o]
      BY <1>8 DEF TaskMissing, Return, Goto
    <2> HIDE DEF o
    <2> QED
      BY <1>c, <1>3, <2>1, <2>2, ZenonT(30) DEF StampInv, StampOf, ArchivedGuarded, StoreType
  <1> QED
    BY <1>5, <1>6, <1>7, <1>8 DEF StoreBegins

(* Storage permission for anything but archiving is not given for an       *)
(* ARCHIVED row.                                                           *)
LEMMA StoragePermission ==
    ASSUME NEW o, NEW reply, o.kind \in {"update", "transition"},
           o.kind = "transition" => o.dest # "ARCHIVED", StorageGrant(o, reply)
    PROVE  o.read.state # "ARCHIVED"
  BY DEF StorageGrant, determine_storage_policy, StorageOperation

(* A step of a call keeps the stamps.                                      *)
LEMMA StampStep ==
    ASSUME StoreType, StampInv, ArchivedGuarded, NEW c \in Callers, StoreStep(c)
    PROVE  StampInv'
  <1>t. op[c] \in Call /\ pc[c] \in Places
    BY DEF StoreType
  <1>1. ASSUME UNCHANGED <<load, conf, rows, op>>, disk' \in {disk, rows},
               NEW l, l \notin {"memory", "storage"}, Goto(c, l)
        PROVE  StampInv'
    BY <1>1, SMT DEF Goto, StampInv, StampOf, ArchivedGuarded, StoreType
  <1>2. CASE \/ TransportRaises(c) \/ SqliteRaises(c) \/ Commit(c)
             \/ \E reply \in Replies : StorageDenies(c, reply)
    BY <1>1, <1>2 DEF TransportRaises, SqliteRaises, Commit, StorageDenies, Return
  <1>3. ASSUME NEW reply \in Replies, RequestStoragePermission(c, reply) PROVE StampInv'
    <2> DEFINE p == IF conf.storage THEN StorageGrant(op[c], reply) ELSE ~conf.enforceStorage
               o == [op[c] EXCEPT !.permission = p]
    <2>1. /\ op' = [op EXCEPT ![c] = o] /\ Goto(c, "memory") /\ pc[c] = "preflight"
          /\ UNCHANGED <<load, conf, raised, rows, disk, log, result>>
      BY <1>3 DEF RequestStoragePermission
    <2>2. op[c].kind = "transition" /\ conf.memory
      BY <2>1 DEF StoreType
    <2>3. p /\ op[c].dest # "ARCHIVED" => op[c].read.state # "ARCHIVED"
      BY <2>2, StoragePermission, SMT DEF ArchivedGuarded
    <2> HIDE DEF p
    <2>4. o.permission = p /\ o.kind = op[c].kind /\ o.dest = op[c].dest /\ o.read = op[c].read
      BY <1>t DEF Call
    <2> HIDE DEF o
    <2> QED
      BY <2>1, <2>2, <2>3, <2>4, SMT DEF Goto, StampInv, StampOf, ArchivedGuarded, StoreType
  <1>4. ASSUME NEW reply \in Replies, MemoryValidate(c, reply) PROVE StampInv'
    <2>1. CASE ~MemoryGrant(op[c], reply)
      BY <1>1, <1>4, <2>1 DEF MemoryValidate, Return
    <2>2. CASE MemoryGrant(op[c], reply)
      <3> DEFINE o == [op[c] EXCEPT !.target = memory_target(MemoryOperation(op[c]))]
      <3>1. /\ op' = [op EXCEPT ![c] = o] /\ Goto(c, "storage") /\ pc[c] = "memory"
            /\ UNCHANGED <<load, conf, raised, rows, disk, result>>
        BY <1>4, <2>2 DEF MemoryValidate
      <3>2. op[c].permission
        BY <2>2 DEF MemoryGrant, determine_memory_transition
      <3>3. o.kind = op[c].kind /\ o.dest = op[c].dest /\ o.read = op[c].read
        BY <1>t DEF Call
      <3> HIDE DEF o
      <3> QED
        BY <3>1, <3>2, <3>3, SMT DEF Goto, StampInv, StampOf, ArchivedGuarded, StoreType
    <2> QED
      BY <2>1, <2>2
  <1>5. CASE AssertTransition(c)
    <2>1. CASE Return(c, "invalid")
      BY <1>1, <1>5, <2>1 DEF AssertTransition, Return
    <2>2. CASE Goto(c, "storage")
      <3>1. pc[c] = "assert" /\ ~conf.memory /\ UNCHANGED <<load, conf, rows, disk, op>>
        BY <1>5 DEF AssertTransition, StoreType
      <3>2. Goto(c, "storage") /\ pc' # [pc EXCEPT ![c] = "idle"]
        BY <2>2 DEF Goto, StoreType
      <3>3. <<op[c].read.state, op[c].dest>> \in LEGACY_ALLOWED_TRANSITIONS
        BY <1>5, <3>1, <3>2 DEF AssertTransition, Authorized, ArchivedGuarded, Return, Goto
      <3>4. op[c].read.state # "ARCHIVED"
        BY <3>3 DEF LEGACY_ALLOWED_TRANSITIONS
      <3> QED
        BY <2>2, <3>1, <3>4 DEF Goto, StampInv, StampOf, ArchivedGuarded, StoreType
    <2> QED
      BY <1>5, <2>1, <2>2 DEF AssertTransition
  <1>6. ASSUME NEW reply \in Replies, Execute(c, reply) PROVE StampInv'
    <2> DEFINE o == op[c]
    <2>1. /\ pc[c] = "storage" /\ rows' = Written(op[c])
          /\ pc' = [pc EXCEPT ![c] = "commit"]
          /\ UNCHANGED <<load, conf, raised, disk, log, result>>
      BY <1>6 DEF Execute, Goto
    <2>2. /\ rows \in Seq(Row) /\ rows' \in Seq(Row) /\ Len(rows) \in Nat /\ o \in Call
      BY <1>t, <2>1, WrittenRows, SeqLength DEF StoreType
    <2>3. StampOf(rows')
      <3> SUFFICES ASSUME NEW t \in 1..Len(rows')
                   PROVE  rows'[t].stamped = (rows'[t].state = "ARCHIVED")
        BY <2>2, SeqLength DEF StampOf
      <3>1. ASSUME t \in 1..Len(rows), rows'[t] = rows[t]
            PROVE  rows'[t].stamped = (rows'[t].state = "ARCHIVED")
        BY <2>2, <3>1, SeqLength, SMT DEF StampInv, StampOf
      <3>2. CASE o.kind = "create"
        <4>1. /\ Len(rows') = Len(rows) + 1 /\ \A u \in 1..Len(rows) : rows'[u] = rows[u]
              /\ rows'[Len(rows) + 1] = [state |-> "CREATED", stamped |-> FALSE, data |-> o.data]
          BY <2>1, <3>2, WrittenRows
        <4>2. CASE t \in 1..Len(rows)
          BY <3>1, <4>1, <4>2
        <4>3. CASE t = Len(rows) + 1
          <5>1. rows'[t].stamped = FALSE /\ rows'[t].state = "CREATED"
            BY <4>1, <4>3, SMT
          <5> QED
            BY <5>1
        <4> QED
          BY <2>2, <4>1, <4>2, <4>3, SMT
      <3>3. CASE o.kind \in {"update", "transition"} /\ t # o.task
        BY <2>1, <2>2, <3>1, <3>3, WrittenRows
      <3>4. CASE o.kind = "update" /\ t = o.task
        <4>1. t \in 1..Len(rows) /\ rows'[t] = [rows[t] EXCEPT !.data = o.data]
          BY <2>1, <3>4, WrittenRows
        <4>2. rows[t] \in Row /\ rows[t].stamped = (rows[t].state = "ARCHIVED")
          BY <2>2, <4>1, SeqElement, SeqLength DEF StampInv, StampOf
        <4> QED
          BY <4>1, <4>2 DEF Row
      <3>5. CASE o.kind = "transition" /\ t = o.task
        <4>1. t \in 1..Len(rows)
              /\ rows'[t] = [rows[t] EXCEPT !.state = o.dest,
                                  !.stamped = o.dest = "ARCHIVED" \/ o.read.stamped]
          BY <2>1, <3>5, WrittenRows
        <4>2. rows[t] \in Row
          BY <2>2, <4>1, SeqElement
        <4>3. rows'[t].state = o.dest
              /\ rows'[t].stamped = (o.dest = "ARCHIVED" \/ o.read.stamped)
          BY <4>1, <4>2 DEF Row
        <4>4. o.read.stamped = (o.read.state = "ARCHIVED")
              /\ (o.dest # "ARCHIVED" => o.read.state # "ARCHIVED")
          BY <2>1, <3>5 DEF StampInv
        <4> QED
          BY <4>3, <4>4
      <3> QED
        BY <2>1, <3>2, <3>3, <3>4, <3>5, WrittenRows
    <2>4. \A d \in Callers : op'[d].read = op[d].read /\ op'[d].kind = op[d].kind
                             /\ op'[d].dest = op[d].dest /\ op'[d].permission = op[d].permission
      BY <1>6, SMT DEF Execute, StoreType, Call
    <2>5. StampOf(disk')
      BY <2>1 DEF StampInv, StampOf
    <2>6. \A d \in Callers : /\ pc'[d] \in {"storage", "memory"} => pc'[d] = pc[d]
                             /\ op'[d].read.stamped = (op'[d].read.state = "ARCHIVED")
      BY <2>1, <2>4, SMTT(20) DEF StampInv, StoreType
    <2>7. ASSUME NEW d \in Callers, pc'[d] = "storage" \/ (pc'[d] = "memory" /\ op'[d].permission),
                 op'[d].kind = "transition", op'[d].dest # "ARCHIVED"
          PROVE  op'[d].read.state # "ARCHIVED"
      <3>1. /\ pc[d] = "storage" \/ (pc[d] = "memory" /\ op[d].permission)
            /\ op[d].kind = "transition" /\ op[d].dest # "ARCHIVED" /\ op'[d].read = op[d].read
        BY <2>4, <2>6, <2>7
      <3> QED
        BY <3>1 DEF StampInv
    <2> QED
      BY <2>3, <2>5, <2>6, <2>7 DEF StampInv
  <1>7. CASE Reply(c)
    <2> DEFINE o == [op[c] EXCEPT !.read = rows[op[c].task]]
    <2>1. op[c].task \in 1..Len(rows) /\ rows \in Seq(Row)
      BY <1>7 DEF Reply, StoreType
    <2>2. rows[op[c].task].stamped = (rows[op[c].task].state = "ARCHIVED")
      BY <2>1, SeqLength DEF StampInv, StampOf
    <2>3. op' = [op EXCEPT ![c] = o] /\ pc' = [pc EXCEPT ![c] = "idle"]
          /\ UNCHANGED <<load, conf, raised, rows, disk, log>>
      BY <1>7 DEF Reply, Return, Goto
    <2>4. o.read = rows[op[c].task]
      BY <1>t DEF Call
    <2> HIDE DEF o
    <2> QED
      BY <2>2, <2>3, <2>4 DEF StampInv, StampOf, ArchivedGuarded, StoreType
  <1> QED
    BY <1>2, <1>3, <1>4, <1>5, <1>6, <1>7 DEF StoreStep

(* The stamps are kept by every step.                                      *)
LEMMA StampNext == StoreType /\ StampInv /\ [StoreNext]_vars => StampInv'
  <1> SUFFICES ASSUME StoreType, StampInv, [StoreNext]_vars PROVE StampInv'
    OBVIOUS
  <1>1. UNCHANGED conf
    BY DEF StoreNext, StoreBegins, CreateTask, UpdateTask, TransitionTask, TaskMissing, Start,
           StoreStep, TransportRaises, RequestStoragePermission, MemoryValidate, Return,
           AssertTransition, StorageDenies, Execute, Commit, SqliteRaises, Reply, Restart, vars
  <1>2. CASE ~ArchivedGuarded
    BY <1>1, <1>2 DEF StampInv, ArchivedGuarded
  <1>3. CASE ArchivedGuarded /\ Restart
    BY <1>3 DEF Restart, StampInv, NoCall, NoRow
  <1>4. CASE ArchivedGuarded /\ UNCHANGED vars
    BY <1>4 DEF vars, StampInv, ArchivedGuarded, StampOf
  <1> QED
    BY <1>2, <1>3, <1>4, StampBegins, StampStep DEF StoreNext

(* A new store has no rows and no calls.                                   *)
LEMMA StampInit == ASSUME Init PROVE StampInv
  <1>1. DOMAIN rows = {} /\ DOMAIN disk = {}
    BY SMT DEF Init
  <1>2. \A c \in Callers : /\ pc[c] = "idle" /\ op[c].read.stamped = FALSE
                           /\ op[c].read.state = "CREATED"
    BY DEF Init, NoCall, NoRow
  <1> QED
    BY <1>1, <1>2 DEF StampInv, StampOf

(* A step of the store by itself is a step of StoreNext.                   *)
LEMMA NextIsStoreNext == StoreType /\ [Next]_vars => [StoreNext]_vars
  <1> SUFFICES ASSUME StoreType, Next PROVE StoreNext
    OBVIOUS
  <1>1. load.tasks \in Nat
    BY TaskStoreAssumption DEF StoreType
  <1>2. ASSUME NEW c \in Callers, StoreCall(c) PROVE c \in load.callers /\ StoreBegins(c)
    BY <1>1, <1>2, SMT DEF StoreCall, StoreBegins
  <1> QED
    BY <1>2 DEF Next, StoreNext

(* A statement that was run is committed before its call ends.             *)
LEMMA DurableNext ==
    StoreType /\ CommittedIsDurable /\ [StoreNext]_vars => CommittedIsDurable'
  <1> SUFFICES ASSUME StoreType, CommittedIsDurable, [StoreNext]_vars
               PROVE  CommittedIsDurable'
    OBVIOUS
  <1> USE DEF CommittedIsDurable
  <1>1. ASSUME NEW c \in Callers, pc[c] # "commit", NEW l, Goto(c, l),
               UNCHANGED <<raised, rows, disk>>
        PROVE  CommittedIsDurable'
    BY <1>1 DEF Goto, StoreType
  <1>2. ASSUME NEW c \in load.callers, StoreBegins(c) PROVE CommittedIsDurable'
    <2>1. c \in Callers
      BY DEF Callers, StoreType
    <2>2. \E l : Goto(c, l) /\ pc[c] = "idle" /\ UNCHANGED <<raised, rows, disk>>
      BY <1>2 DEF StoreBegins, CreateTask, UpdateTask, TransitionTask, TaskMissing, Start, Return
    <2> QED
      BY <1>1, <2>1, <2>2
  <1>3. ASSUME NEW c \in Callers, StoreStep(c) PROVE CommittedIsDurable'
    <2>1. CASE SqliteRaises(c)
      BY <2>1 DEF SqliteRaises
    <2>2. CASE Commit(c)
      BY <2>2 DEF Commit
    <2>3. CASE \E reply \in Replies : Execute(c, reply)
      BY <2>3 DEF Execute, Goto, StoreType
    <2>4. CASE \/ TransportRaises(c) \/ AssertTransition(c) \/ Reply(c)
               \/ \E reply \in Replies : \/ RequestStoragePermission(c, reply)
                                         \/ MemoryValidate(c, reply)
                                         \/ StorageDenies(c, reply)
      <3>1. pc[c] # "commit" /\ UNCHANGED <<raised, rows, disk>> /\ \E l : Goto(c, l)
        BY <2>4 DEF TransportRaises, AssertTransition, Reply, RequestStoragePermission,
                    MemoryValidate, StorageDenies, Return
      <3> QED
        BY <1>1, <3>1
    <2> QED
      BY <1>3, <2>1, <2>2, <2>3, <2>4 DEF StoreStep
  <1>4. CASE Restart \/ UNCHANGED vars
    BY <1>4 DEF Restart, vars
  <1> QED
    BY <1>2, <1>3, <1>4 DEF StoreNext

(* What is written is what was granted.                                    *)
LEMMA TargetNext ==
    StoreType /\ WritesGrantedTarget /\ [StoreNext]_vars => WritesGrantedTarget'
  <1> SUFFICES ASSUME StoreType, WritesGrantedTarget, [StoreNext]_vars
               PROVE  WritesGrantedTarget'
    OBVIOUS
  <1> USE DEF WritesGrantedTarget
  <1>1. ASSUME NEW c \in Callers, NEW l, Goto(c, l), UNCHANGED conf,
               \A d \in Callers \ {c} : op'[d] = op[d],
               l = "storage" /\ op'[c].kind = "transition" /\ conf.memory
                 => op'[c].dest = op'[c].target
        PROVE  WritesGrantedTarget'
    BY <1>1 DEF Goto, StoreType
  <1>2. ASSUME NEW c \in load.callers, StoreBegins(c) PROVE WritesGrantedTarget'
    <2>1. c \in Callers
      BY DEF Callers, StoreType
    <2>2. ASSUME NEW o, NEW l, Start(c, o, l), l = "storage" => o.kind # "transition"
          PROVE  WritesGrantedTarget'
      BY <1>1, <2>1, <2>2 DEF Start, StoreType
    <2>3. ASSUME NEW d \in [Fields -> Values], CreateTask(c, d) PROVE WritesGrantedTarget'
      BY <2>2, <2>3 DEF CreateTask, NoCall
    <2>4. ASSUME NEW t \in Nat, NEW f \in Fields, NEW v \in Values, UpdateTask(c, t, f, v)
          PROVE  WritesGrantedTarget'
      BY <2>2, <2>4 DEF UpdateTask, NoCall
    <2>5. ASSUME NEW t \in Nat, NEW dest \in TaskState, TransitionTask(c, t, dest)
          PROVE  WritesGrantedTarget'
      BY <2>2, <2>5 DEF TransitionTask
    <2>6. ASSUME NEW t \in Nat, TaskMissing(c, t) PROVE WritesGrantedTarget'
      BY <1>1, <2>1, <2>6 DEF TaskMissing, Return, StoreType
    <2> QED
      BY <1>2, <2>3, <2>4, <2>5, <2>6 DEF StoreBegins
  <1>3. ASSUME NEW c \in Callers, StoreStep(c) PROVE WritesGrantedTarget'
    <2>t. op[c] \in Call
      BY DEF StoreType
    <2>1. CASE SqliteRaises(c) \/ TransportRaises(c) \/ Commit(c)
      BY <1>1, <2>1 DEF SqliteRaises, TransportRaises, Commit, Return
    <2>2. CASE AssertTransition(c)
      <3>1. ~conf.memory /\ UNCHANGED <<op, conf>> /\ \E l : Goto(c, l)
        BY <2>2 DEF AssertTransition, Return, StoreType
      <3> QED
        BY <1>1, <3>1
    <2>3. CASE Reply(c)
      BY <1>1, <2>3 DEF Reply, Return, StoreType
    <2>4. ASSUME NEW reply \in Replies, RequestStoragePermission(c, reply)
          PROVE  WritesGrantedTarget'
      BY <1>1, <2>4 DEF RequestStoragePermission, StoreType
    <2>5. ASSUME NEW reply \in Replies, MemoryValidate(c, reply) PROVE WritesGrantedTarget'
      <3>1. CASE ~MemoryGrant(op[c], reply)
        BY <1>1, <2>5, <3>1 DEF MemoryValidate, Return
      <3>2. CASE MemoryGrant(op[c], reply)
        <4>1. Goto(c, "storage") /\ UNCHANGED conf
              /\ op' = [op EXCEPT ![c].target = memory_target(MemoryOperation(op[c]))]
          BY <2>5, <3>2 DEF MemoryValidate
        <4>2. memory_target(MemoryOperation(op[c])) = op[c].dest
          BY <2>t, <3>2, GrantedTarget
        <4>3. op'[c].dest = op'[c].target
          BY <2>t, <4>1, <4>2 DEF StoreType, Call
        <4>4. \A d \in Callers \ {c} : op'[d] = op[d]
          BY <4>1 DEF StoreType
        <4> QED
          BY <1>1, <4>1, <4>3, <4>4
      <3> QED
        BY <3>1, <3>2
    <2>6. ASSUME NEW reply \in Replies, StorageDenies(c, reply) PROVE WritesGrantedTarget'
      BY <1>1, <2>6 DEF StorageDenies, Return
    <2>7. ASSUME NEW reply \in Replies, Execute(c, reply) PROVE WritesGrantedTarget'
      BY <1>1, <2>7 DEF Execute, StoreType
    <2> QED
      BY <1>3, <2>1, <2>2, <2>3, <2>4, <2>5, <2>6, <2>7 DEF StoreStep
  <1>4. CASE Restart \/ UNCHANGED vars
    BY <1>4 DEF Restart, vars
  <1> QED
    BY <1>2, <1>3, <1>4 DEF StoreNext
-----------------------------------------------------------------------------
(* One thread.                                                             *)

(* The thread that is in a call is the only one there is.                  *)
LEMMA SoloThread ==
    ASSUME StoreType, Solo
    PROVE  \E x \in Callers : load.callers = {x} /\ \A d \in Callers : pc[d] # "idle" => d = x
  <1>1. PICK x : load.callers = {x}
    BY DEF Solo
  <1>2. x \in Callers
    BY <1>1, SMTT(20) DEF Callers, StoreType
  <1> QED
    BY <1>1, <1>2 DEF StoreType

(* A step of a call is one of the thread that is in it.                    *)
LEMMA StepIsBusy == ASSUME NEW c, StoreStep(c) PROVE pc[c] # "idle" /\ UNCHANGED <<load, conf>>
  BY DEF StoreStep, TransportRaises, RequestStoragePermission, MemoryValidate, AssertTransition,
         StorageDenies, Execute, Commit, SqliteRaises, Reply

(* A call works on the row as it read it, and the table never undoes what  *)
(* is on disk.                                                             *)
LEMMA SoloNext == StoreType /\ StampInv /\ SoloInv /\ [StoreNext]_vars => SoloInv'
  <1> SUFFICES ASSUME StoreType, StampInv, SoloInv, [StoreNext]_vars PROVE SoloInv'
    OBVIOUS
  <1>0. UNCHANGED <<load, conf>>
    BY StepIsBusy DEF StoreNext, StoreBegins, CreateTask, UpdateTask, TransitionTask, TaskMissing,
                      Start, Return, Restart, vars
  <1> SUFFICES ASSUME Solo PROVE SoloInv'
    BY <1>0 DEF SoloInv, Solo
  <1>x. PICK x \in Callers : load.callers = {x} /\ \A d \in Callers : pc[d] # "idle" => d = x
    BY SoloThread
  <1> USE DEF SoloInv
  \* a step that leaves both tables alone
  <1>1. ASSUME UNCHANGED <<rows, disk>>, pc' = [pc EXCEPT ![x] = pc'[x]],
               pc'[x] \in Asking /\ op'[x].kind # "create" => op'[x].read = rows[op'[x].task]
        PROVE  SoloInv'
    <2>1. \A d \in Callers : d # x => pc'[d] = "idle"
      BY <1>1, <1>x DEF StoreType
    <2> QED
      BY <1>0, <1>1, <2>1 DEF ArchivedGuarded, Asking
  <1>2. ASSUME NEW c \in load.callers, StoreBegins(c) PROVE SoloInv'
    <2>1. ASSUME NEW o, NEW l, Start(x, o, l), o.kind # "create" => o.read = rows[o.task]
          PROVE  SoloInv'
      BY <1>1, <1>x, <2>1 DEF Start, Goto, StoreType
    <2>2. ASSUME NEW d \in [Fields -> Values], CreateTask(x, d) PROVE SoloInv'
      BY <2>1, <2>2 DEF CreateTask, NoCall
    <2>3. ASSUME NEW t \in Nat, NEW f \in Fields, NEW v \in Values, UpdateTask(x, t, f, v)
          PROVE  SoloInv'
      BY <2>1, <2>3 DEF UpdateTask, NoCall
    <2>4. ASSUME NEW t \in Nat, NEW dest \in TaskState, TransitionTask(x, t, dest)
          PROVE  SoloInv'
      BY <2>1, <2>4 DEF TransitionTask, NoCall
    <2>5. ASSUME NEW t \in Nat, TaskMissing(x, t) PROVE SoloInv'
      BY <1>1, <1>x, <2>5 DEF TaskMissing, Return, Goto, StoreType, Asking
    <2> QED
      BY <1>2, <1>x, <2>2, <2>3, <2>4, <2>5, SMT DEF StoreBegins
  <1>3. ASSUME NEW c \in Callers, StoreStep(c) PROVE SoloInv'
    <2>x. c = x
      BY <1>3, <1>x, StepIsBusy
    <2>t. op[x] \in Call
      BY DEF StoreType
    <2>1. CASE \/ SqliteRaises(x) \/ TransportRaises(x)
               \/ \E reply \in Replies : StorageDenies(x, reply)
      BY <1>1, <2>1, ZenonT(30) DEF SqliteRaises, TransportRaises, StorageDenies, Return, Goto, StoreType, Asking
    <2>2. CASE AssertTransition(x)
      BY <1>1, <2>2 DEF AssertTransition, Return, Goto, StoreType, Asking
    <2>3. CASE Reply(x)
      BY <1>1, <2>3 DEF Reply, Return, Goto, StoreType, Asking
    <2>4. ASSUME NEW reply \in Replies, RequestStoragePermission(x, reply) PROVE SoloInv'
      <3>1. op'[x].kind = op[x].kind /\ op'[x].read = op[x].read /\ op'[x].task = op[x].task
        BY <2>t, <2>4 DEF RequestStoragePermission, StoreType, Call
      <3> QED
        BY <1>1, <2>4, <3>1, SMT DEF RequestStoragePermission, Goto, StoreType, Asking
    <2>5. ASSUME NEW reply \in Replies, MemoryValidate(x, reply) PROVE SoloInv'
      <3>1. op'[x].kind = op[x].kind /\ op'[x].read = op[x].read /\ op'[x].task = op[x].task
        BY <2>t, <2>5, SMT DEF MemoryValidate, StoreType, Call
      <3> QED
        BY <1>1, <2>5, <3>1, SMT DEF MemoryValidate, Return, Goto, StoreType, Asking
    <2>6. CASE Commit(x)
      <3>1. \A d \in Callers : pc'[d] \notin Asking
        BY <1>x, <2>6 DEF Commit, Goto, StoreType, Asking
      <3> QED
        BY <2>6, <3>1 DEF Commit, ArchivedGuarded
    <2>7. ASSUME NEW reply \in Replies, Execute(x, reply) PROVE SoloInv'
      <3> DEFINE o == op[x]
      <3>1. \A d \in Callers : pc'[d] \notin Asking
        BY <1>x, <2>7 DEF Execute, Goto, StoreType, Asking
      <3>2. /\ pc[x] = "storage" /\ rows' = Written(o) /\ disk' = disk
            /\ StorageAllows(x, reply)
        BY <2>7 DEF Execute
      <3>3. /\ Len(rows) \in Nat /\ Len(disk) \in Nat /\ Len(disk) <= Len(rows)
            /\ DOMAIN disk = 1..Len(disk) /\ \A t \in 1..Len(rows) : rows[t] \in Row
        BY SeqLength, SeqElement DEF StoreType
      <3>4. ASSUME ArchivedGuarded, NEW t \in DOMAIN disk, disk[t].state = "ARCHIVED"
            PROVE  /\ rows'[t].state = "ARCHIVED"
                   /\ conf.storage => rows'[t].data = disk[t].data
        <4>1. /\ t \in 1..Len(rows) /\ rows[t].state = "ARCHIVED"
              /\ conf.storage => rows[t].data = disk[t].data
          BY <3>3, <3>4, SMT
        <4>2. CASE rows'[t] = rows[t]
          BY <4>1, <4>2
        <4>3. CASE o.kind = "update" /\ t = o.task
          <5>1. rows'[t] = [rows[t] EXCEPT !.data = o.data]
            BY <3>2, <4>3, WrittenRows
          <5>2. rows'[t].state = "ARCHIVED"
            BY <3>3, <4>1, <5>1 DEF Row
          <5>3. o.read.state = "ARCHIVED"
            BY <3>2, <4>1, <4>3 DEF Asking
          <5>4. ~conf.storage
            BY <3>2, <4>3, <5>3, StoragePermission, SMT DEF StorageAllows
          <5> QED
            BY <5>2, <5>4
        <4>4. CASE o.kind = "transition" /\ t = o.task
          <5>1. rows'[t] = [rows[t] EXCEPT !.state = o.dest,
                                  !.stamped = o.dest = "ARCHIVED" \/ o.read.stamped]
            BY <3>2, <4>4, WrittenRows
          <5>2. rows'[t].state = o.dest /\ rows'[t].data = rows[t].data
            BY <3>3, <4>1, <5>1 DEF Row
          <5>3. o.read.state = "ARCHIVED"
            BY <3>2, <4>1, <4>4 DEF Asking
          <5>4. o.dest = "ARCHIVED"
            BY <3>2, <3>4, <4>4, <5>3 DEF StampInv
          <5> QED
            BY <4>1, <5>2, <5>4
        <4> QED
          BY <3>2, <4>1, <4>2, <4>3, <4>4, WrittenRows
      <3> QED
        BY <1>0, <3>1, <3>2, <3>4 DEF ArchivedGuarded
    <2> QED
      BY <1>3, <2>x, <2>1, <2>2, <2>3, <2>4, <2>5, <2>6, <2>7 DEF StoreStep
  <1>4. CASE Restart
    BY <1>4 DEF Restart, Asking
  <1>5. CASE UNCHANGED vars
    BY <1>5 DEF vars, ArchivedGuarded
  <1> QED
    BY <1>2, <1>3, <1>4, <1>5 DEF StoreNext
-----------------------------------------------------------------------------
(* The transition log.                                                     *)

(* A new record becomes the last one of its task and of no other.          *)
LEMMA LastOfAppend ==
    ASSUME StoreType, NEW c \in Callers, log' = Append(log, Record(c)), NEW t \in Nat
    PROVE  /\ Len(log) \in Nat /\ Len(log') = Len(log) + 1
           /\ log'[Len(log) + 1] = Record(c)
           /\ \A i \in 1..Len(log) : log'[i] = log[i]
           /\ t = op[c].task => LastRecord(t)' = Len(log) + 1
           /\ t # op[c].task => LastRecord(t)' = LastRecord(t)
  <1> DEFINE n == Len(log)
             R == [task : Nat, from : TaskState, to : TaskState]
             I == {i \in 1..n : log[i].task = t}
             J == {i \in 1..Len(log') : log'[i].task = t}
  <1>1. Record(c) \in R
    <2>1. op[c] \in Call
      BY DEF StoreType
    <2> QED
      BY <2>1 DEF Record, Call, Row
  <1>2. /\ n \in Nat /\ Len(log') = n + 1 /\ log'[n + 1] = Record(c)
        /\ \A i \in 1..n : log'[i] = log[i]
    BY <1>1, SeqAppend, SeqLength, SMT DEF StoreType
  <1>3. LastRecord(t) = IF I # {} THEN Max(I) ELSE 0
    BY DEF LastRecord
  <1>4. LastRecord(t)' = IF J # {} THEN Max(J) ELSE 0
    BY DEF LastRecord
  <1>5. log'[n + 1].task = op[c].task
    BY <1>2, SMT DEF Record
  <1>6. CASE t # op[c].task
    <2>1. I = J
      BY <1>2, <1>5, <1>6, SMT
    <2> QED
      BY <1>2, <1>3, <1>4, <1>6, <2>1
  <1>7. CASE t = op[c].task
    <2>1. n + 1 \in J /\ \A j \in J : j \in Nat /\ n + 1 >= j
      BY <1>2, <1>5, <1>7, SMT
    <2> HIDE DEF J
    <2>2. \A x \in J : (\A y \in J : x >= y) => x = n + 1
      BY <1>2, <2>1, SMT
    <2>3. Max(J) = n + 1
      BY <2>1, <2>2 DEF Max
    <2> QED
      BY <1>2, <1>4, <1>7, <2>1, <2>3
  <1> QED
    BY <1>2, <1>6, <1>7

(* A task without records has no last one, and an old log keeps its last   *)
(* records.                                                                *)
LEMMA LastOfNone ==
    ASSUME NEW t, \A i \in 1..Len(log) : log[i].task # t
    PROVE  LastRecord(t) = 0
  BY DEF LastRecord

(* The last records are a matter of the log alone.                         *)
LEMMA LastKept == log' = log => \A t : LastRecord(t)' = LastRecord(t)
  BY DEF LastRecord

(* The log agrees with the rows, but for a call that is about to write.    *)
LEMMA LogNext == StoreType /\ LogInv /\ [StoreNext]_vars => LogInv'
  <1> SUFFICES ASSUME StoreType, LogInv, [StoreNext]_vars PROVE LogInv'
    OBVIOUS
  <1>0. UNCHANGED <<load, conf>>
    BY StepIsBusy DEF StoreNext, StoreBegins, CreateTask, UpdateTask, TransitionTask, TaskMissing,
                      Start, Return, Restart, vars
  <1>n. /\ Len(rows) \in Nat /\ DOMAIN rows = 1..Len(rows) /\ Len(log) \in Nat
        /\ \A i \in 1..Len(log) : log[i].task \in Nat
    <2>1. \A i \in 1..Len(log) : log[i] \in [task : Nat, from : TaskState, to : TaskState]
      BY SeqElement DEF StoreType
    <2> QED
      BY <2>1, SeqLength DEF StoreType
  \* a step that leaves the log and the table alone
  <1>1. ASSUME UNCHANGED <<rows, log>>, disk' \in {disk, rows}, ~raised' => ~raised,
               Solo /\ ~conf.memory /\ ~raised' /\ rows # <<>> =>
                 \A t \in DOMAIN rows : Pending(t) = {} /\ Pending(t)' = {}
        PROVE  LogInv'
    <2>1. \A t : LastRecord(t)' = LastRecord(t)
      BY <1>1, LastKept
    <2>2. /\ \A i \in 1..Len(log') : log'[i].task \in 1..Len(rows')
          /\ \A t \in Nat : LastRecord(t)' = 0 \/ LastRecord(t)' \in 1..Len(log')
          /\ ~conf'.storage /\ conf'.enforceStorage => rows' = <<>> /\ disk' = <<>>
      BY <1>0, <1>1, <2>1 DEF LogInv
    <2>3. ASSUME Solo, ~conf.memory, ~raised', NEW t \in DOMAIN rows, LastRecord(t)' # 0
          PROVE  Pending(t)' = {} /\ log'[LastRecord(t)'].to = rows'[t].state
      <3>1. rows # <<>>
        BY <1>n, <2>3, SMT
      <3>2. Pending(t) = {} /\ Pending(t)' = {} /\ LastRecord(t) # 0
        BY <1>1, <2>1, <2>3, <3>1
      <3> QED
        BY <1>1, <2>1, <2>3, <3>2 DEF LogInv
    <2> QED
      BY <1>0, <1>1, <2>2, <2>3 DEF LogInv, Solo
  <1>2. ASSUME Solo, NEW c \in Callers, pc'[c] # "storage" \/ op'[c].kind # "transition",
               NEW l, Goto(c, l), pc[c] # "idle" \/ c \in load.callers
        PROVE  \A t : Pending(t)' = {}
    BY <1>2, SoloThread, SMT DEF Pending, Goto, StoreType
  <1>3. ASSUME Solo, NEW c \in Callers, pc[c] # "storage" \/ op[c].kind # "transition",
               pc[c] # "idle" \/ c \in load.callers
        PROVE  \A t : Pending(t) = {}
    BY <1>3, SoloThread, SMTT(20) DEF Pending, StoreType
  <1>4. ASSUME NEW c \in load.callers, StoreBegins(c) PROVE LogInv'
    <2>1. c \in Callers
      BY DEF Callers, StoreType
    <2>2. /\ pc[c] = "idle" /\ UNCHANGED <<rows, log, disk, raised>> /\ \E l : Goto(c, l)
          /\ pc'[c] # "storage" \/ op'[c].kind # "transition"
      <3>1. ASSUME NEW o, NEW l, Start(c, o, l), l # "storage" \/ o.kind # "transition"
            PROVE  /\ pc[c] = "idle" /\ UNCHANGED <<rows, log, disk, raised>> /\ Goto(c, l)
                   /\ pc'[c] # "storage" \/ op'[c].kind # "transition"
        BY <2>1, <3>1 DEF Start, Goto, StoreType
      <3>2. CASE \E d \in [Fields -> Values] : CreateTask(c, d)
        BY <3>1, <3>2 DEF CreateTask, NoCall
      <3>3. CASE \E t \in Nat, f \in Fields, v \in Values : UpdateTask(c, t, f, v)
        BY <3>1, <3>3 DEF UpdateTask, NoCall
      <3>4. CASE \E t \in Nat, dest \in TaskState : TransitionTask(c, t, dest)
        BY <3>1, <3>4 DEF TransitionTask
      <3>5. CASE \E t \in Nat : TaskMissing(c, t)
        BY <2>1, <3>5 DEF TaskMissing, Return, Goto, StoreType
      <3> QED
        BY <1>4, <3>2, <3>3, <3>4, <3>5 DEF StoreBegins
    <2> QED
      BY <1>1, <1>2, <1>3, <2>1, <2>2
  <1>5. ASSUME NEW c \in Callers, StoreStep(c) PROVE LogInv'
    <2>b. pc[c] # "idle" /\ op[c] \in Call
      BY <1>5, StepIsBusy DEF StoreType
    <2>1. CASE \/ TransportRaises(c)
               \/ \E reply \in Replies : RequestStoragePermission(c, reply)
      <3>1. conf.memory /\ UNCHANGED <<rows, log, disk, raised>>
        BY <2>1 DEF TransportRaises, RequestStoragePermission, StoreType
      <3> QED
        BY <1>1, <3>1
    <2>2. ASSUME NEW reply \in Replies, StorageDenies(c, reply) PROVE LogInv'
      <3>1. UNCHANGED <<rows, log, disk, raised>>
        BY <2>2 DEF StorageDenies
      <3>2. conf.memory \/ rows = <<>>
        BY <2>2 DEF StorageDenies, StorageAllows, StoreType, LogInv
      <3> QED
        BY <1>1, <3>1, <3>2
    <2>3. CASE SqliteRaises(c)
      BY <1>1, <2>3 DEF SqliteRaises
    <2>4. CASE Commit(c) \/ Reply(c)
      <3>1. /\ UNCHANGED <<rows, log, raised>> /\ disk' \in {disk, rows}
            /\ pc[c] # "storage" /\ \E l : l # "storage" /\ Goto(c, l)
        BY <2>4 DEF Commit, Reply, Return
      <3>2. pc'[c] # "storage"
        BY <3>1 DEF Goto, StoreType
      <3> QED
        BY <1>1, <1>2, <1>3, <2>b, <3>1, <3>2
    <2>5. ASSUME log' = Append(log, Record(c)), UNCHANGED <<rows, disk, raised>>,
                 pc[c] \in {"memory", "assert"},
                 pc' = [pc EXCEPT ![c] = "storage"],
                 op'[c].kind = "transition", op'[c].dest = op[c].dest, op'[c].task = op[c].task
          PROVE  LogInv'
      <3>1. op[c].task \in 1..Len(rows) /\ Record(c).task = op[c].task /\ Record(c).to = op[c].dest
        BY <2>b, <2>5 DEF StoreType, Record
      <3>2. /\ Len(log') = Len(log) + 1
            /\ log'[Len(log) + 1] = Record(c)
            /\ \A i \in 1..Len(log) : log'[i] = log[i]
            /\ \A t \in Nat : t = op[c].task => LastRecord(t)' = Len(log) + 1
            /\ \A t \in Nat : t # op[c].task => LastRecord(t)' = LastRecord(t)
        BY <2>5, <1>n, <3>1, LastOfAppend
      <3>3. \A i \in 1..Len(log') : log'[i].task \in 1..Len(rows')
        BY <1>n, <2>5, <3>1, <3>2, SMT DEF LogInv
      <3>4. \A t \in Nat : LastRecord(t)' = 0 \/ LastRecord(t)' \in 1..Len(log')
        BY <1>n, <3>2, SMT DEF LogInv
      <3>5. ASSUME Solo, ~conf.memory, ~raised, NEW t \in DOMAIN rows, LastRecord(t)' # 0
            PROVE  /\ Pending(t)' = {} => log'[LastRecord(t)'].to = rows'[t].state
                   /\ \A d \in Pending(t)' : log'[LastRecord(t)'].to = op'[d].dest
        <4>1. PICK x \in Callers : \A d \in Callers : pc[d] # "idle" => d = x
          BY <3>5, SoloThread
        <4>2. c = x /\ \A d \in Callers : pc'[d] = "storage" => d = x
          BY <2>b, <2>5, <4>1 DEF StoreType
        <4>3. CASE t = op[c].task
          <5>1. Pending(t)' = {c}
            BY <2>5, <4>2, <4>3 DEF Pending, StoreType
          <5>2. log'[LastRecord(t)'].to = op'[c].dest
            BY <1>n, <2>5, <3>1, <3>2, <4>3, SMT
          <5> QED
            BY <5>1, <5>2
        <4>4. CASE t # op[c].task
          <5>1. Pending(t)' = {} /\ Pending(t) = {}
            BY <1>3, <2>b, <2>5, <3>5, <4>2, <4>4 DEF Pending
          <5>2. LastRecord(t)' = LastRecord(t) /\ LastRecord(t) \in 1..Len(log)
            BY <1>n, <3>2, <3>5, <4>4, SMT DEF LogInv
          <5>3. log[LastRecord(t)].to = rows[t].state
            BY <3>5, <5>1, <5>2 DEF LogInv
          <5> QED
            BY <2>5, <3>2, <5>1, <5>2, <5>3
        <4> QED
          BY <4>3, <4>4
      <3> QED
        BY <1>0, <2>5, <3>3, <3>4, <3>5 DEF LogInv, Solo
    <2>6. CASE AssertTransition(c)
      <3>1. CASE Return(c, "invalid") /\ UNCHANGED log
        BY <1>1, <1>2, <1>3, <2>b, <2>6, <3>1 DEF AssertTransition, Return, Goto, StoreType
      <3>2. CASE log' = Append(log, Record(c)) /\ Goto(c, "storage")
        BY <2>5, <2>6, <3>2 DEF AssertTransition, Goto, StoreType
      <3> QED
        BY <2>6, <3>1, <3>2 DEF AssertTransition
    <2>7. ASSUME NEW reply \in Replies, MemoryValidate(c, reply) PROVE LogInv'
      <3>1. CASE ~MemoryGrant(op[c], reply)
        BY <1>1, <1>2, <1>3, <2>b, <2>7, <3>1 DEF MemoryValidate, Return, Goto, StoreType
      <3>2. CASE MemoryGrant(op[c], reply)
        <4>1. op'[c].kind = op[c].kind /\ op'[c].dest = op[c].dest /\ op'[c].task = op[c].task
          BY <2>b, <2>7, SMT DEF MemoryValidate, StoreType, Call
        <4> QED
          BY <2>5, <2>7, <3>2, <4>1 DEF MemoryValidate, Goto, StoreType
      <3> QED
        BY <3>1, <3>2
    <2>8. ASSUME NEW reply \in Replies, Execute(c, reply) PROVE LogInv'
      <3> DEFINE o == op[c]
      <3>1. /\ pc[c] = "storage" /\ rows' = Written(o) /\ UNCHANGED <<disk, log, raised>>
            /\ StorageAllows(c, reply) /\ Goto(c, "commit")
        BY <2>8 DEF Execute
      <3>2. ~(~conf.storage /\ conf.enforceStorage)
        BY <3>1 DEF StorageAllows
      <3>3. \A t : LastRecord(t)' = LastRecord(t)
        BY <3>1, LastKept
      <3>4. /\ Len(rows') \in Nat /\ Len(rows) <= Len(rows') /\ Len(rows') <= Len(rows) + 1
            /\ DOMAIN rows' = 1..Len(rows')
        <4>1. /\ rows' \in Seq(Row) /\ Len(rows') \in {Len(rows), Len(rows) + 1}
          BY <3>1, WrittenRows
        <4> QED
          BY <1>n, <4>1, SeqLength, SMT
      <3>5. \A i \in 1..Len(log') : log'[i].task \in 1..Len(rows')
        BY <1>n, <3>1, <3>4, SMT DEF LogInv
      <3>6. ASSUME Solo, ~conf.memory, ~raised, NEW t \in DOMAIN rows', LastRecord(t)' # 0
            PROVE  Pending(t)' = {} /\ log'[LastRecord(t)'].to = rows'[t].state
        <4>1. pc'[c] # "storage"
          BY <3>1 DEF Goto, StoreType
        <4>2. Pending(t)' = {}
          BY <1>2, <2>b, <3>1, <3>6, <4>1
        <4>3. t \in 1..Len(rows)
          BY <1>n, <3>3, <3>4, <3>6, LastOfNone DEF LogInv
        <4>4. \A d \in Pending(t) : d = c
          BY <2>b, <3>6, SoloThread DEF Pending
        <4>5. CASE o.kind = "transition" /\ t = o.task
          <5>1. c \in Pending(t)
            BY <3>1, <4>5 DEF Pending
          <5>2. log[LastRecord(t)].to = o.dest
            BY <1>n, <3>3, <3>6, <4>3, <5>1 DEF LogInv
          <5>3. rows'[t] = [rows[t] EXCEPT !.state = o.dest,
                                  !.stamped = o.dest = "ARCHIVED" \/ o.read.stamped]
            BY <3>1, <4>5, WrittenRows
          <5>4. rows'[t].state = o.dest
            <6>1. rows[t] \in Row
              BY <4>3, SeqElement DEF StoreType
            <6> QED
              BY <5>3, <6>1 DEF Row
          <5> QED
            BY <3>1, <3>3, <4>2, <5>2, <5>4
        <4>6. CASE ~(o.kind = "transition" /\ t = o.task)
          <5>1. Pending(t) = {}
            BY <4>4, <4>6 DEF Pending
          <5>2. log[LastRecord(t)].to = rows[t].state
            BY <1>n, <3>3, <3>6, <4>3, <5>1 DEF LogInv
          <5>3. rows'[t].state = rows[t].state
            <6>1. rows[t] \in Row
              BY <4>3, SeqElement DEF StoreType
            <6>2. rows'[t] = rows[t] \/ rows'[t] = [rows[t] EXCEPT !.data = o.data]
              BY <3>1, <4>3, <4>6, WrittenRows, ZenonT(30)
            <6> QED
              BY <6>1, <6>2 DEF Row
          <5> QED
            BY <3>1, <3>3, <4>2, <5>2, <5>3
        <4> QED
          BY <4>5, <4>6
      <3> QED
        BY <1>0, <3>1, <3>2, <3>3, <3>5, <3>6 DEF LogInv, Solo
    <2> QED
      BY <1>5, <2>1, <2>2, <2>3, <2>4, <2>6, <2>7, <2>8 DEF StoreStep
  <1>6. CASE Restart
    <2>1. log' = <<>> /\ rows' = disk /\ disk' = disk /\ Len(log') = 0
      BY <1>6 DEF Restart
    <2>2. \A t : LastRecord(t)' = 0
      BY <2>1, SMT DEF LastRecord
    <2> QED
      BY <1>0, <2>1, <2>2, SMT DEF LogInv
  <1>7. CASE UNCHANGED vars
    <2>1. \A t : LastRecord(t)' = LastRecord(t)
      BY <1>7, LastKept DEF vars
    <2>2. \A t : Pending(t)' = Pending(t)
      BY <1>7 DEF vars, Pending
    <2> QED
      BY <1>7, <2>1, <2>2 DEF vars, LogInv, Solo
  <1> QED
    BY <1>4, <1>5, <1>6, <1>7 DEF StoreNext
-----------------------------------------------------------------------------
(* The store by itself.                                                    *)

(* The log is empty at first.                                              *)
LEMMA LogInit == Init => LogInv
  <1> SUFFICES ASSUME Init PROVE LogInv
    OBVIOUS
  <1>1. log = <<>> /\ rows = <<>> /\ disk = <<>> /\ Len(log) = 0 /\ DOMAIN rows = {}
    BY SMT DEF Init
  <1>2. \A t : LastRecord(t) = 0
    BY <1>1, LastOfNone, SMT
  <1> QED
    BY <1>1, <1>2, SMT DEF LogInv

(* The invariant of the store for every way to construct it.               *)
StoreInv == StoreType /\ CommittedIsDurable /\ WritesGrantedTarget /\ LogInv

(* It holds of a new store,                                                *)
LEMMA StoreInvInit == Init => StoreInv
  <1> SUFFICES ASSUME Init PROVE CommittedIsDurable /\ WritesGrantedTarget
    BY StoreTypeInit, LogInit DEF StoreInv
  <1> QED
    BY DEF Init, CommittedIsDurable, WritesGrantedTarget

(* every step of the store keeps it,                                       *)
LEMMA StoreInvNext == StoreInv /\ [StoreNext]_vars => StoreInv'
  BY StoreTypeNext, DurableNext, TargetNext, LogNext DEF StoreInv

(* and so it holds for every store.                                        *)
LEMMA StoreInvHolds == Spec => []StoreInv
  <1>1. StoreInv /\ [Next]_vars => StoreInv'
    BY NextIsStoreNext, StoreInvNext DEF StoreInv
  <1> QED
    BY <1>1, StoreInvInit, PTL DEF Spec

(* With any number of threads on one connection, and wherever the process  *)
(* dies: as long as sqlite does not raise, what the connection shows is on *)
(* disk unless some call is between its statement and its commit.          *)
THEOREM CommittedIsDurableHolds == Spec => []CommittedIsDurable
  <1>1. StoreInv => CommittedIsDurable
    BY DEF StoreInv
  <1> QED
    BY <1>1, StoreInvHolds, PTL

(* However calls interleave between the grant and the statement, the state *)
(* transition_task writes is the target the memory authority granted it.   *)
THEOREM WritesGrantedTargetHolds == Spec => []WritesGrantedTarget
  <1>1. StoreInv => WritesGrantedTarget
    BY DEF StoreInv
  <1> QED
    BY <1>1, StoreInvHolds, PTL

(* Between calls no change is pending, so the log and the rows agree.      *)
LEMMA LogMatches == StoreInv => LogMatchesRows
  <1> SUFFICES ASSUME StoreInv, Solo, \A c \in Callers : pc[c] = "idle", ~conf.memory, ~raised,
                      NEW t \in DOMAIN rows, LastRecord(t) # 0
               PROVE  log[LastRecord(t)].to = rows[t].state
    BY DEF LogMatchesRows
  <1>1. Pending(t) = {}
    BY DEF Pending
  <1> QED
    BY <1>1 DEF StoreInv, LogInv

(* For one thread without a bridge, the transition log and the rows agree  *)
(* between calls, after any history of calls, refusals and restarts.       *)
THEOREM LogMatchesRowsHolds == Spec => []LogMatchesRows
  BY LogMatches, StoreInvHolds, PTL

(* What depends on who lets a task out of ARCHIVED.                        *)
ArchiveInv == StoreType /\ StampInv /\ SoloInv

(* The invariant about archived rows holds of a new store,                 *)
LEMMA ArchiveInvInit == ASSUME Init PROVE ArchiveInv
  <1>1. DOMAIN disk = {} /\ \A c \in Callers : pc[c] = "idle"
    BY SMT DEF Init
  <1>2. SoloInv
    BY <1>1 DEF SoloInv, Asking
  <1> QED
    BY <1>2, StoreTypeInit, StampInit DEF ArchiveInv

(* and every step keeps it.                                                *)
LEMMA ArchiveInvNext == ArchiveInv /\ [StoreNext]_vars => ArchiveInv'
  BY StoreTypeNext, StampNext, SoloNext DEF ArchiveInv

(* A row carries the archived_at stamp exactly when it is ARCHIVED, in the *)
(* table and on disk, for any interleaving of any threads' calls, errors   *)
(* and restarts, in every store whose archived states somebody guards.     *)
THEOREM ArchivedIsStampedHolds == Spec => []ArchivedIsStamped
  <1>1. Init => ArchiveInv
    BY ArchiveInvInit
  <1>2. ArchiveInv /\ [Next]_vars => ArchiveInv'
    BY NextIsStoreNext, ArchiveInvNext DEF ArchiveInv
  <1>3. ArchiveInv => ArchivedIsStamped
    BY DEF ArchiveInv, StampInv, ArchivedIsStamped
  <1> QED
    BY <1>1, <1>2, <1>3, PTL DEF Spec

(* The table on disk changes only by a commit, and a commit of one thread  *)
(* finds every archived row as it is on disk.                              *)
LEMMA ArchivedStep ==
    ASSUME ArchiveInv, [StoreNext]_vars, Solo, NEW t \in DOMAIN disk,
           disk[t].state = "ARCHIVED"
    PROVE  /\ ArchivedGuarded => disk'[t].state = "ARCHIVED"
           /\ conf.storage => disk'[t].data = disk[t].data
  <1>1. disk' = disk \/ disk' = rows
    BY DEF StoreNext, StoreBegins, CreateTask, UpdateTask, TransitionTask, TaskMissing, Start,
           StoreStep, TransportRaises, RequestStoragePermission, MemoryValidate, Return,
           AssertTransition, StorageDenies, Execute, Commit, SqliteRaises, Reply, Restart, vars
  <1>2. conf.storage => ArchivedGuarded
    BY DEF ArchiveInv, ArchivedGuarded, StoreType
  <1> QED
    BY <1>1, <1>2 DEF ArchiveInv, SoloInv

(* For one thread, what is archived on disk stays archived in every store  *)
(* whose archived states somebody guards, and under the storage authority  *)
(* keeps its columns, across denials, errors, lost commits and restarts.   *)
THEOREM ArchivedIsFinalHolds == Spec => ArchivedIsFinal
  <1>1. Init => ArchiveInv
    BY ArchiveInvInit
  <1>2. ArchiveInv /\ [Next]_vars => ArchiveInv'
    BY NextIsStoreNext, ArchiveInvNext DEF ArchiveInv
  <1>3. ArchiveInv /\ [Next]_vars =>
          [\A t \in DOMAIN disk :
             Solo /\ disk[t].state = "ARCHIVED" =>
               /\ ArchivedGuarded => disk'[t].state = "ARCHIVED"
               /\ conf.storage => disk'[t].data = disk[t].data]_vars
    BY NextIsStoreNext, ArchivedStep DEF ArchiveInv
  <1> QED
    BY <1>1, <1>2, <1>3, PTL DEF Spec, ArchivedIsFinal
=============================================================================
