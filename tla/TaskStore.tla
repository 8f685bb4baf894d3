----------------------------- MODULE TaskStore -----------------------------
(***************************************************************************)
(* The sqlite task store (core/memory/task_store.py) with its lifecycle    *)
(* manager (core/memory/lifecycle_manager.py) and the storage and memory   *)
(* requests it sends through the Rust bridge (services/ipc/rust_bridge.py). *)
(*                                                                         *)
(* Calls of several threads share one connection (check_same_thread=False) *)
(* and no lock.  A call is a sequence of steps, one per database statement *)
(* or bridge request; between two of them other calls may run and the      *)
(* process may crash.  Committed rows survive a crash; the transition log  *)
(* is kept in memory.                                                      *)
(*                                                                         *)
(* A definition with a suffix after `__` is an erroneous variant of the    *)
(* definition it precedes; no specification uses it.                       *)
(***************************************************************************)
EXTENDS Integers, Sequences, FiniteSets, FiniteSetsExt, Functions, Authorities

CONSTANTS
    Loads,        \* the ways the store is used: threads, constructor arguments
                  \* and bounds on the rows created and the calls started
    Fields,       \* mutable non-state columns
    Values,       \* values a column may be given
    Faults        \* whether sqlite may raise on a statement or a commit

Callers == UNION {l.callers : l \in Loads}

TaskState == {"CREATED", "ACTIVE", "COMPLETED", "ARCHIVED"}

LEGACY_ALLOWED_TRANSITIONS ==
    {<<"CREATED", "ACTIVE">>, <<"CREATED", "ARCHIVED">>, <<"ACTIVE", "COMPLETED">>,
     <<"ACTIVE", "ARCHIVED">>, <<"COMPLETED", "ARCHIVED">>}

(* What TaskStore.__init__ and LifecycleManager.__init__ are given.        *)
Argument == [storage : BOOLEAN, memory : BOOLEAN,
             enforceStorage : BOOLEAN, enforceMemory : BOOLEAN,
             authorizer : BOOLEAN, legacy : BOOLEAN,
             storageMode : EnergyModes, memoryMode : EnergyModes,
             execution : ExecutionTypes]

ASSUME TaskStoreAssumption ==
    /\ \A l \in Loads :
         /\ IsFiniteSet(l.callers)
         /\ l.arguments \subseteq Argument /\ l.tasks \in Nat /\ l.calls \in Nat
    /\ Faults \in BOOLEAN

VARIABLES
    load,      \* the use of this behaviour
    conf,      \* the configuration, fixed at construction
    raised,    \* history: sqlite has raised since the process started
    rows,      \* the tasks table as the connection sees it
    disk,      \* the tasks table as last committed
    log,       \* LifecycleManager._transition_log
    pc,        \* where each caller is in its call
    op,        \* the arguments and locals of the call
    result,    \* how the caller's last call ended
    calls      \* history: calls started

vars == <<load, conf, raised, rows, disk, log, pc, op, result, calls>>

(* `self._memory_bridge = memory_bridge or storage_bridge`                 *)
Construct(args) == [args EXCEPT !.memory = args.memory \/ args.storage]

NoRow == [state |-> "CREATED", stamped |-> FALSE, data |-> [f \in Fields |-> 0]]
NoCall == [kind |-> "none", task |-> 0, dest |-> "CREATED", read |-> NoRow,
           data |-> NoRow.data, permission |-> FALSE, target |-> "CREATED"]

Init ==
    /\ load \in Loads
    /\ \E args \in load.arguments : conf = Construct(args)
    /\ raised = FALSE
    /\ rows = <<>>
    /\ disk = <<>>
    /\ log = <<>>
    /\ pc = [c \in Callers |-> "idle"]
    /\ op = [c \in Callers |-> NoCall]
    /\ result = [c \in Callers |-> "none"]
    /\ calls = 0
-----------------------------------------------------------------------------
Goto(c, l) == pc' = [pc EXCEPT ![c] = l]

(* A call ends, normally or by the exception named.                        *)
Return(c, how) == Goto(c, "idle") /\ result' = [result EXCEPT ![c] = how]

Start(c, o, l) ==
    /\ pc[c] = "idle"
    /\ calls' = calls + 1
    /\ op' = [op EXCEPT ![c] = o]
    /\ result' = [result EXCEPT ![c] = "none"]
    /\ Goto(c, l)
    /\ UNCHANGED <<load, conf, raised, rows, disk, log>>

CreateTask(c, d) ==
    Start(c, [NoCall EXCEPT !.kind = "create", !.data = d], "storage")

(* update_task writes every column back, the ones not given as it read     *)
(* them.                                                                   *)
UpdateTask(c, t, f, v) ==
    /\ t \in DOMAIN rows
    /\ Start(c, [NoCall EXCEPT !.kind = "update", !.task = t, !.read = rows[t],
                               !.data = [rows[t].data EXCEPT ![f] = v]], "storage")

(* transition_task reads the row; the rest of the call works on that copy. *)
TransitionTask(c, t, dest) ==
    /\ t \in DOMAIN rows
    /\ Start(c, [NoCall EXCEPT !.kind = "transition", !.task = t, !.dest = dest,
                               !.read = rows[t]],
             IF conf.memory THEN "preflight" ELSE "assert")

(* get_task returned None: KeyError.                                       *)
TaskMissing(c, t) ==
    /\ pc[c] = "idle"
    /\ t \notin DOMAIN rows
    /\ calls' = calls + 1
    /\ op' = [op EXCEPT ![c] = [NoCall EXCEPT !.kind = "missing", !.task = t]]
    /\ Return(c, "missing")
    /\ UNCHANGED <<load, conf, raised, rows, disk, log>>

StorageOperation__archive(o) == IF o.kind = "create" THEN "WRITE_TASK" ELSE "ARCHIVE_TASK"

StorageOperation(o) ==
    CASE o.kind = "create" -> "WRITE_TASK"
      [] o.kind = "transition" /\ o.dest = "ARCHIVED" -> "ARCHIVE_TASK"
      [] OTHER -> "UPDATE_TASK"

MemoryOperation__archives(o) ==
    CASE o.dest = "ACTIVE" -> "PROMOTE_TO_ACTIVE"
      [] o.dest = "ARCHIVED" /\ o.read.state = "ARCHIVED" -> "FINALIZE_ARCHIVE"
      [] OTHER -> "ARCHIVE_ITEM"

MemoryOperation(o) ==
    CASE o.dest = "ACTIVE" -> "PROMOTE_TO_ACTIVE"
      [] o.dest = "COMPLETED" -> "DEMOTE_TO_DORMANT"
      [] o.dest = "ARCHIVED" /\ o.read.state = "ARCHIVED" -> "FINALIZE_ARCHIVE"
      [] o.dest = "ARCHIVED" /\ o.read.state # "ARCHIVED" -> "ARCHIVE_ITEM"
      [] OTHER -> "RETENTION_TRIGGER"

(* A bridge request is answered with the authority's decision; or there is *)
(* no transport, or the response is malformed or for another correlation   *)
(* id, which count as a denial.  A transport may also raise.               *)
Replies == {"answer", "invalid"}

StorageGrant(o, reply) ==
    reply = "answer"
      /\ determine_storage_policy(StorageOperation(o), o.read.state, conf.storageMode,
                                  conf.execution, TRUE)

MemoryGrant(o, reply) ==
    reply = "answer"
      /\ determine_memory_transition(o.read.state, conf.memoryMode, o.permission,
            MemoryOperation(o),
            [critical_reminder |-> FALSE, allow_archived_reactivation |-> FALSE,
             retention_due |-> o.dest = "ARCHIVED"])

TransportRaises(c) ==
    /\ \/ pc[c] \in {"preflight", "storage"} /\ conf.storage
       \/ pc[c] = "memory"
    /\ Return(c, "internal")
    /\ UNCHANGED <<load, conf, raised, rows, disk, log, op, calls>>

RequestStoragePermission(c, reply) ==
    /\ pc[c] = "preflight"
    /\ op' = [op EXCEPT ![c].permission =
                IF conf.storage THEN StorageGrant(op[c], reply) ELSE ~conf.enforceStorage]
    /\ Goto(c, "memory")
    /\ UNCHANGED <<load, conf, raised, rows, disk, log, result, calls>>

Record(c) == [task |-> op[c].task, from |-> op[c].read.state, to |-> op[c].dest]

(* The log entry is written before storage is asked.                       *)
MemoryValidate(c, reply) ==
    /\ pc[c] = "memory"
    /\ IF MemoryGrant(op[c], reply)
         THEN /\ log' = Append(log, Record(c))
              /\ op' = [op EXCEPT ![c].target = memory_target(MemoryOperation(op[c]))]
              /\ Goto(c, "storage")
              /\ UNCHANGED result
         ELSE Return(c, "invalid") /\ UNCHANGED <<log, op>>
    /\ UNCHANGED <<load, conf, raised, rows, disk, calls>>

(* LifecycleManager._authorize_transition: an external authorizer may give *)
(* any answer; without one the legacy matrix decides, if it is allowed to. *)
Authorized(c) ==
    IF conf.authorizer THEN BOOLEAN
    ELSE {conf.legacy /\ <<op[c].read.state, op[c].dest>> \in LEGACY_ALLOWED_TRANSITIONS}

AssertTransition(c) ==
    /\ pc[c] = "assert"
    /\ \E allowed \in Authorized(c) :
         IF allowed /\ ~conf.enforceMemory
           THEN /\ log' = Append(log, Record(c))
                /\ Goto(c, "storage")
                /\ UNCHANGED result
           ELSE Return(c, "invalid") /\ UNCHANGED log
    /\ UNCHANGED <<load, conf, raised, rows, disk, op, calls>>

Written__stateKept(o) ==
    CASE o.kind = "create" ->
           Append(rows, [state |-> "CREATED", stamped |-> FALSE, data |-> o.data])
      [] o.kind = "update" -> [rows EXCEPT ![o.task].data = o.data]
      [] o.kind = "transition" -> [rows EXCEPT ![o.task].state = o.read.state]

Written__unstamped(o) ==
    CASE o.kind = "create" ->
           Append(rows, [state |-> "CREATED", stamped |-> FALSE, data |-> o.data])
      [] o.kind = "update" -> [rows EXCEPT ![o.task].data = o.data]
      [] o.kind = "transition" ->
           [rows EXCEPT ![o.task].state = o.dest, ![o.task].stamped = o.read.stamped]

(* The statement of each operation.  archived_at is stamped on archiving   *)
(* and otherwise written back as it was read.                              *)
Written(o) ==
    CASE o.kind = "create" ->
           Append(rows, [state |-> "CREATED", stamped |-> FALSE, data |-> o.data])
      [] o.kind = "update" ->
           [rows EXCEPT ![o.task].data = o.data]
      [] o.kind = "transition" ->
           [rows EXCEPT ![o.task].state = o.dest,
                        ![o.task].stamped = o.dest = "ARCHIVED" \/ o.read.stamped]

(* _validate_storage_and_maybe_execute: ask, then run the statement.       *)
StorageAllows(c, reply) ==
    IF conf.storage THEN StorageGrant(op[c], reply) ELSE ~conf.enforceStorage

StorageDenies__late(c, reply) ==
    /\ pc[c] = "storage"
    /\ ~StorageAllows(c, reply)
    /\ rows' = Written(op[c])
    /\ Return(c, "internal")
    /\ UNCHANGED <<load, conf, raised, disk, log, op, calls>>

StorageDenies(c, reply) ==
    /\ pc[c] = "storage"
    /\ ~StorageAllows(c, reply)
    /\ Return(c, "internal")
    /\ UNCHANGED <<load, conf, raised, rows, disk, log, op, calls>>

Execute(c, reply) ==
    /\ pc[c] = "storage"
    /\ StorageAllows(c, reply)
    /\ rows' = Written(op[c])
    /\ op' = IF op[c].kind = "create" THEN [op EXCEPT ![c].task = Len(rows) + 1] ELSE op
    /\ Goto(c, "commit")
    /\ UNCHANGED <<load, conf, raised, disk, log, result, calls>>

Commit__forgotten(c) ==
    /\ pc[c] = "commit"
    /\ Goto(c, "reply")
    /\ UNCHANGED <<load, conf, raised, rows, disk, log, op, result, calls>>

Commit(c) ==
    /\ pc[c] = "commit"
    /\ disk' = rows
    /\ Goto(c, "reply")
    /\ UNCHANGED <<load, conf, raised, rows, log, op, result, calls>>

(* sqlite3.OperationalError from a statement or a commit; nothing rolls    *)
(* back.                                                                   *)
SqliteRaises(c) ==
    /\ Faults
    /\ pc[c] \in {"storage", "commit", "reply"}
    /\ Return(c, "internal")
    /\ raised' = TRUE
    /\ UNCHANGED <<load, conf, rows, disk, log, op, calls>>

(* The call ends by reading the row back.                                  *)
Reply(c) ==
    /\ pc[c] = "reply"
    /\ op' = [op EXCEPT ![c].read = rows[op[c].task]]
    /\ Return(c, "ok")
    /\ UNCHANGED <<load, conf, raised, rows, disk, log, calls>>

(* The process dies and starts again on the same database file.            *)
Restart ==
    /\ rows' = disk
    /\ log' = <<>>
    /\ pc' = [c \in Callers |-> "idle"]
    /\ op' = [c \in Callers |-> NoCall]
    /\ result' = [c \in Callers |-> "none"]
    /\ raised' = FALSE
    /\ UNCHANGED <<load, conf, disk, calls>>
-----------------------------------------------------------------------------
StoreStep(c) ==
    \/ TransportRaises(c)
    \/ \E reply \in Replies : RequestStoragePermission(c, reply)
    \/ \E reply \in Replies : MemoryValidate(c, reply)
    \/ AssertTransition(c)
    \/ \E reply \in Replies : StorageDenies(c, reply)
    \/ \E reply \in Replies : Execute(c, reply)
    \/ Commit(c)
    \/ SqliteRaises(c)
    \/ Reply(c)

StoreCall(c) ==
    /\ c \in load.callers /\ calls < load.calls
    /\ \/ Len(rows) < load.tasks /\ \E d \in [Fields -> Values] : CreateTask(c, d)
       \/ \E t \in 1 .. load.tasks, f \in Fields, v \in Values : UpdateTask(c, t, f, v)
       \/ \E t \in 1 .. load.tasks, dest \in TaskState : TransitionTask(c, t, dest)
       \/ \E t \in 1 .. load.tasks : TaskMissing(c, t)

Next ==
    \/ \E c \in Callers : StoreCall(c)
    \/ \E c \in Callers : StoreStep(c)
    \/ Restart

Spec == Init /\ [][Next]_vars
-----------------------------------------------------------------------------

StampOf(table) == \A t \in DOMAIN table : table[t].stamped = (table[t].state = "ARCHIVED")

(* Somebody who refuses to let a task out of ARCHIVED is asked about every *)
(* transition: the storage authority (or nobody answers, enforce_storage), *)
(* or without a bridge the legacy matrix.  An external authorizer may      *)
(* answer anything; and with a memory bridge alone nobody looks, as the    *)
(* memory authority demotes an item of any state (DEMOTE_TO_DORMANT) and   *)
(* storage permission is taken as given.                                   *)
ArchivedGuarded ==
    IF conf.memory THEN conf.storage \/ conf.enforceStorage ELSE ~conf.authorizer

(* archived_at and state never disagree: a row carries the stamp exactly   *)
(* when it is ARCHIVED, whatever calls overlapped and wherever a crash or  *)
(* an error fell (transition_task writes archived_at back as it read it);  *)
(* only an external authorizer or a memory bridge alone can let a task out *)
(* of ARCHIVED, stamp and all.                                             *)
ArchivedIsStamped == ArchivedGuarded => StampOf(rows) /\ StampOf(disk)

(* One thread uses the store, as in the wiring of the application.         *)
Solo == \E x \in load.callers : load.callers = {x}

(* "Memory authority decides transition permission and target state":     *)
(* the state transition_task writes is the target of the grant it holds.   *)
WritesGrantedTarget ==
    \A c \in Callers :
        pc[c] = "storage" /\ op[c].kind = "transition" /\ conf.memory
          => op[c].dest = op[c].target

(* A call that ends is durable: unless some call is between its statement  *)
(* and its commit, or sqlite has raised, the connection and the database   *)
(* file agree.                                                             *)
CommittedIsDurable ==
    ~raised /\ (\A c \in Callers : pc[c] # "commit") => disk = rows

LastRecord(t) ==
    LET I == {i \in 1..Len(log) : log[i].task = t} IN IF I # {} THEN Max(I) ELSE 0

(* The transition log tells the truth: between calls, the last record of a *)
(* task names the state its row is in (get_transition_log).  It does not   *)
(* hold with a bridge, as storage may deny what is already logged, nor     *)
(* after sqlite has raised, nor when calls overlap.                        *)
LogMatchesRows ==
    Solo /\ (\A c \in Callers : pc[c] = "idle") /\ ~conf.memory /\ ~raised =>
      \A t \in DOMAIN rows :
        LastRecord(t) # 0 => log[LastRecord(t)].to = rows[t].state

(* "Archived states are terminal unless explicitly authorized by policy"   *)
(* and "immutable for update-style writes": a committed ARCHIVED row keeps *)
(* its state, unless an external authorizer or the memory authority alone  *)
(* decides, and under the storage authority its columns, across errors and *)
(* restarts.  Two overlapping calls break it: the second writes the state  *)
(* it asked for, whatever the first made of the row it read.               *)
ArchivedIsFinal ==
    [][\A t \in DOMAIN disk :
         Solo /\ disk[t].state = "ARCHIVED" =>
           /\ ArchivedGuarded => disk'[t].state = "ARCHIVED"
           /\ conf.storage => disk'[t].data = disk[t].data]_vars
=============================================================================
