---------------------------- MODULE VectorMemory ----------------------------
(***************************************************************************)
(* core/memory/vector_memory.py, a caller of the bridge: upsert and delete *)
(* of the in-process vector cache.  A call asks the storage authority      *)
(* whether it may (preflight), hands that answer to the memory authority,  *)
(* and asks the storage authority once more, under a new correlation id,   *)
(* before it touches the cache.  Each answer crosses the pipes of          *)
(* IpcBridge, late or not at all.                                          *)
(***************************************************************************)
EXTENDS Connectors

VARIABLES
    vcall,          \* the call in progress
    records,        \* VectorMemory._records
    applied         \* history: changes of the cache, with what was granted

vectorVars == <<vcall, records, applied>>

Config == load.vectors

(* memory_bridge or storage_bridge                                         *)
HasMemoryBridge == Config.memoryBridge \/ Config.storageBridge

(* A call: its place, what it is to do, the preflight answer, and the      *)
(* requests granted to it so far.                                          *)
Call(at, op, v, permission, grants) ==
    [at |-> at, op |-> op, vector |-> v, permission |-> permission, grants |-> grants]

NoCall == Call("idle", "none", "none", FALSE, {})

VectorInit ==
    /\ vcall = NoCall
    /\ records = {}
    /\ applied = {}

StorageRequest(op) ==
    [type |-> "STORAGE_VALIDATE", valid |-> TRUE, operation |-> op, state |-> "CREATED",
     mode |-> Config.storageMode, execution |-> Config.execution, encrypted |-> TRUE]

MemoryRequest(op, permission) ==
    [type |-> "MEMORY_VALIDATE", valid |-> TRUE, operation |-> "VECTOR_TIER_SHIFT",
     state |-> IF op = "VECTOR_WRITE" THEN "ACTIVE" ELSE "DORMANT",
     mode |-> Config.memoryMode, permission |-> permission,
     flags |-> [critical_reminder |-> FALSE, allow_archived_reactivation |-> FALSE,
                retention_due |-> FALSE]]

(* _write and _delete                                                      *)
Apply(c) ==
    /\ records' = IF c.op = "VECTOR_WRITE" THEN records \cup {c.vector}
                                           ELSE records \ {c.vector}
    /\ applied' = applied \cup {[op |-> c.op, grants |-> c.grants]}
    /\ vcall' = NoCall

(* RuntimeError: the cache stays as it is.                                 *)
Raise == vcall' = NoCall /\ UNCHANGED <<records, applied>>

Goto(c, at, permission) ==
    /\ vcall' = Call(at, c.op, c.vector, permission, c.grants)
    /\ UNCHANGED <<records, applied>>

Store__preflighted(c) ==
    IF Config.storageBridge /\ ~c.permission THEN Goto(c, "storage", c.permission)
    ELSE IF Config.enforceStorage /\ ~Config.storageBridge THEN Raise
    ELSE Apply(c)

(* _validate_storage_and_maybe_execute, up to its request                  *)
Store(c) ==
    IF Config.storageBridge THEN Goto(c, "storage", c.permission)
    ELSE IF Config.enforceStorage THEN Raise
    ELSE Apply(c)

(* upsert and delete: _validate_memory_and_maybe_transition up to its      *)
(* first request                                                           *)
CallVector(op, v) ==
    /\ alive
    /\ vcall = NoCall /\ waiting = <<>>
    /\ LET c == Call("begun", op, v, FALSE, {}) IN
         IF Config.storageBridge THEN Goto(c, "preflight", FALSE)
         ELSE IF Config.memoryBridge THEN Goto(c, "memory", ~Config.enforceStorage)
         ELSE IF Config.enforceMemory THEN Raise
         ELSE Store(c)
    /\ UNCHANGED <<vars, connectorVars>>

TheRequest ==
    IF vcall.at = "memory" THEN MemoryRequest(vcall.op, vcall.permission)
                           ELSE StorageRequest(vcall.op)

AskAuthority(id) ==
    /\ vcall # NoCall
    /\ Request(id, TheRequest)
    /\ foreign' = foreign \cup {id}
    /\ UNCHANGED <<load, ingress, vectorVars>>

(* What the call does with an answer.                                      *)
Continue(allowed) ==
    LET c == [vcall EXCEPT !.grants = @ \cup {<<vcall.at, TheRequest>>}] IN
      CASE vcall.at = "preflight" -> Goto(vcall, "memory", allowed)
        [] vcall.at = "memory" -> IF allowed THEN Store(c) ELSE Raise
        [] vcall.at = "storage" -> IF allowed THEN Apply(c) ELSE Raise

AnswerArrives ==
    /\ vcall # NoCall
    /\ TransportReturns
    /\ Continue(Accepts(Head(toPython), waiting[1]))
    /\ UNCHANGED connectorVars

AnswerFails ==
    /\ vcall # NoCall
    /\ TransportFails
    /\ Continue(FALSE)
    /\ UNCHANGED connectorVars
-----------------------------------------------------------------------------
VectorStep ==
    \/ \E op \in {"VECTOR_WRITE", "VECTOR_DELETE"}, v \in load.keys : CallVector(op, v)
    \/ \E id \in Ids : AskAuthority(id)
    \/ AnswerArrives
    \/ AnswerFails

(* The other callers of the bridge, one at a time.                         *)
OtherCallers ==
    /\ vcall = NoCall
    /\ \/ \E id \in Ids, r \in load.requests :
            Request(id, r) /\ foreign' = foreign \cup {id}
       \/ (TransportReturns \/ TransportFails) /\ UNCHANGED foreign
    /\ UNCHANGED <<load, ingress, vectorVars>>

(* The cache dies with the child.                                          *)
KillChild ==
    /\ Shutdown
    /\ vcall' = NoCall
    /\ records' = {}
    /\ UNCHANGED <<connectorVars, applied>>

MemoryInit == Init /\ ConnectorInit /\ VectorInit

MemoryNext ==
    \/ (RustStep \/ ProcessLine) /\ UNCHANGED <<connectorVars, vectorVars>>
    \/ (Connect \/ OthersSend) /\ UNCHANGED vectorVars
    \/ VectorStep
    \/ OtherCallers
    \/ KillChild

MemorySpec == MemoryInit /\ [][MemoryNext]_<<vars, connectorVars, vectorVars>>
-----------------------------------------------------------------------------
(* The cache changes only in a call to which every authority it is wired   *)
(* to said yes, in this call and about this change: the preflight answer   *)
(* does not stand in for the storage decision, an answer to an earlier     *)
(* call does not count, and an enforced authority that is not there        *)
(* means no.                                                               *)
VectorChangesGranted ==
    \A a \in applied :
        /\ Config.storageBridge =>
             /\ <<"storage", StorageRequest(a.op)>> \in a.grants
             /\ Decision(StorageRequest(a.op))
        /\ HasMemoryBridge =>
             /\ <<"memory", MemoryRequest(a.op, TRUE)>> \in a.grants
             /\ Decision(MemoryRequest(a.op, TRUE))
        /\ Config.enforceStorage => Config.storageBridge
        /\ Config.enforceMemory => HasMemoryBridge
=============================================================================
