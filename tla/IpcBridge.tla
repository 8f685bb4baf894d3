----------------------------- MODULE IpcBridge -----------------------------
(***************************************************************************)
(* The JSON-lines bridge between the Rust supervisor (os/src/ipc.rs) and   *)
(* its Python child (services/ipc/rust_bridge.py).  Lines travel over two  *)
(* pipes.  Both ends drop lines whose correlation id they have seen: Rust  *)
(* with a bounded tracker that forgets the oldest id, Python with a set    *)
(* that only grows.                                                        *)
(*                                                                         *)
(* Python asks an authority through a transport that is not part of the    *)
(* repository: it writes the request and hands back a line it read, late   *)
(* answers to earlier requests included, or gives up.                      *)
(*                                                                         *)
(* A definition with a suffix after `__` is an erroneous variant of the    *)
(* definition it precedes; no specification uses it.                       *)
(***************************************************************************)
EXTENDS Integers, Sequences, FiniteSets, Functions, Authorities

CONSTANTS
    Ids,            \* correlation ids
    MaxEntries,     \* the tracker's max_entries
    MaxLines        \* bound: lines written that are not answers

ASSUME IpcAssumption == MaxEntries \in Nat /\ MaxLines \in Nat

RequestTypes == {"AUTH_REQUEST", "TRANSITION_VALIDATE", "ENERGY_VALIDATE",
                 "STORAGE_VALIDATE", "MEMORY_VALIDATE"}

ResultType(type) ==
    CASE type = "AUTH_REQUEST" -> "AUTH_RESULT"
      [] type = "TRANSITION_VALIDATE" -> "TRANSITION_RESULT"
      [] type = "ENERGY_VALIDATE" -> "ENERGY_RESULT"
      [] type = "STORAGE_VALIDATE" -> "STORAGE_RESULT"
      [] type = "MEMORY_VALIDATE" -> "MEMORY_RESULT"

ResultTypes == {ResultType(t) : t \in RequestTypes}

VARIABLES
    toPython, toRust,   \* the two pipes
    seen, queue,        \* CorrelationTracker.set and .queue
    pythonSeen,         \* RustBridge._seen_correlation_ids
    waiting,            \* the request a Python caller waits for, if any
    alive,              \* the child process runs
    marks,              \* history: ids for which mark_seen returned true
    forwarded,          \* history: ids of events published on the bus
    handled,            \* history: ids of events given to event_handler
    granted,            \* history: requests whose callable Python ran
    used,               \* history: ids drawn by uuid4
    lines               \* history: lines written that are not answers

vars == <<toPython, toRust, seen, queue, pythonSeen, waiting, alive, marks, forwarded,
          handled, granted, used, lines>>

Line(type, id, body) == [type |-> type, id |-> id, body |-> body]

Init ==
    /\ toPython = <<>> /\ toRust = <<>>
    /\ seen = {} /\ queue = <<>>
    /\ pythonSeen = {}
    /\ waiting = <<>>
    /\ alive = TRUE
    /\ marks = <<>> /\ forwarded = <<>> /\ handled = <<>>
    /\ granted = {}
    /\ used = {}
    /\ lines = 0
-----------------------------------------------------------------------------
(* Rust *)

EventNames__oneMissing ==
    {"IntentParsed", "LifecycleValidated", "TaskCreated", "TaskCompleted", "BatteryLow",
     "ThermalHigh", "SleepEntered", "SleepExited", "IdentityChanged", "ModelDowngrade",
     "ModelUnload"}

(* The events Rust knows by name (map_event_name).                         *)
EventNames ==
    {"IntentParsed", "LifecycleValidated", "TaskCreated", "TaskCompleted", "TaskArchived",
     "BatteryLow", "ThermalHigh", "SleepEntered", "SleepExited", "IdentityChanged",
     "ModelDowngrade", "ModelUnload"}

Limit == IF MaxEntries = 0 THEN 1 ELSE MaxEntries

Evicted__early(q) == IF Len(q) >= Limit THEN <<Head(q)>> ELSE <<>>

(* CorrelationTracker.mark_seen, for an id it does not hold ...            *)
Evicted(q) == IF Len(q) > Limit THEN <<Head(q)>> ELSE <<>>

Insert(id) ==
    LET q == Append(queue, id) IN
      /\ queue' = SubSeq(q, Len(Evicted(q)) + 1, Len(q))
      /\ seen' = (seen \cup {id}) \ Range(Evicted(q))
      /\ marks' = Append(marks, id)

(* ... and in general.                                                     *)
MarkSeen(id) == IF id \in seen THEN UNCHANGED <<seen, queue, marks>> ELSE Insert(id)

(* What the authorities answer; a payload that does not deserialise, or    *)
(* names an unknown class, is denied.                                      *)
AuthDecision(r) == authorize_with_tier_string(r.user, r.tier, r.authenticated, r.action)

TransitionDecision(r) == validate_transition_from_str(r.from, r.to)

EnergyDecision(r) ==
    /\ r.execution \in ExecutionTypes
    /\ authorize_execution(determine_mode(r.battery), r.execution)

StorageDecision(r) ==
    /\ r.operation \in StorageOperations
    /\ r.mode \in EnergyModes
    /\ r.execution \in ExecutionTypes
    /\ determine_storage_policy(r.operation, r.state, r.mode, r.execution, r.encrypted)

MemoryDecision(r) ==
    /\ r.operation \in MemoryOperations
    /\ r.mode \in EnergyModes
    /\ determine_memory_transition(r.state, r.mode, r.permission, r.operation, r.flags)

Decision(r) ==
    /\ r.valid
    /\ CASE r.type = "AUTH_REQUEST" -> AuthDecision(r)
         [] r.type = "TRANSITION_VALIDATE" -> TransitionDecision(r)
         [] r.type = "ENERGY_VALIDATE" -> EnergyDecision(r)
         [] r.type = "STORAGE_VALIDATE" -> StorageDecision(r)
         [] r.type = "MEMORY_VALIDATE" -> MemoryDecision(r)

(* A failed write to a dead child returns before the id is marked.         *)
SendEvent(id) ==
    /\ alive
    /\ lines < MaxLines
    /\ lines' = lines + 1
    /\ toPython' = Append(toPython, Line("EVENT", id, "BatteryLow"))
    /\ MarkSeen(id)
    /\ UNCHANGED <<toRust, pythonSeen, waiting, alive, forwarded, handled, granted, used>>

(* read_and_dispatch_once takes the next line ...                          *)
ReadLine == toRust # <<>> /\ toRust' = Tail(toRust)

Incoming == Head(toRust)

(* ... that does not parse, or whose id was seen: dropped.                 *)
DispatchDropped ==
    /\ ReadLine
    /\ Incoming.type = "MALFORMED" \/ Incoming.id \in seen
    /\ UNCHANGED <<toPython, seen, queue, pythonSeen, waiting, alive, marks, forwarded,
                   handled, granted, used, lines>>

Fresh(m) == m.type # "MALFORMED" /\ m.id \notin seen

(* State updates, results and unknown events have no effect.               *)
DispatchIgnored ==
    /\ ReadLine
    /\ Fresh(Incoming)
    /\ \/ Incoming.type \in {"STATE_UPDATE"} \cup ResultTypes
       \/ Incoming.type = "EVENT" /\ Incoming.body \notin EventNames
    /\ MarkSeen(Incoming.id)
    /\ UNCHANGED <<toPython, pythonSeen, waiting, alive, forwarded, handled, granted,
                   used, lines>>

(* A known event goes to the bus, whether or not the bus takes it.         *)
DispatchEvent ==
    /\ ReadLine
    /\ Fresh(Incoming)
    /\ Incoming.type = "EVENT" /\ Incoming.body \in EventNames
    /\ MarkSeen(Incoming.id)
    /\ forwarded' = Append(forwarded, Incoming.id)
    /\ UNCHANGED <<toPython, pythonSeen, waiting, alive, handled, granted, used, lines>>

(* A request is decided and answered under its own id.  Sending the answer *)
(* marks the id once more, which finds it there.                           *)
DispatchRequest ==
    /\ ReadLine
    /\ Fresh(Incoming)
    /\ Incoming.type \in RequestTypes
    /\ MarkSeen(Incoming.id)
    /\ toPython' = IF alive
                     THEN Append(toPython, Line(ResultType(Incoming.type), Incoming.id,
                                                Decision(Incoming.body)))
                     ELSE toPython
    /\ UNCHANGED <<pythonSeen, waiting, alive, forwarded, handled, granted, used, lines>>

(* shutdown() kills the child; what it wrote can still be read.            *)
Shutdown ==
    /\ alive
    /\ alive' = FALSE
    /\ toPython' = <<>>
    /\ waiting' = <<>>
    /\ UNCHANGED <<toRust, seen, queue, pythonSeen, marks, forwarded, handled, granted,
                   used, lines>>
-----------------------------------------------------------------------------
(* Python *)

PythonWrite(m) ==
    /\ alive
    /\ lines < MaxLines
    /\ lines' = lines + 1
    /\ toRust' = Append(toRust, m)

(* Any other user of send_message: an event, sent again if the sender      *)
(* chooses, or a line that is no envelope.                                 *)
PythonSend(type, id, body) ==
    /\ PythonWrite(Line(type, id, body))
    /\ UNCHANGED <<toPython, seen, queue, pythonSeen, waiting, alive, marks, forwarded,
                   handled, granted, used>>

(* process_line: an unseen EVENT is handled and acknowledged under its id; *)
(* every other line is dropped.                                            *)
Unseen(m) == m.id \notin pythonSeen

ProcessLine ==
    /\ alive
    /\ toPython # <<>>
    /\ LET m == Head(toPython) IN
         IF Unseen(m) /\ m.type = "EVENT"
           THEN /\ handled' = Append(handled, m.id)
                /\ toRust' = Append(toRust, Line("STATE_UPDATE", m.id, "accepted"))
           ELSE UNCHANGED <<handled, toRust>>
    /\ pythonSeen' = pythonSeen \cup {Head(toPython).id}
    /\ toPython' = Tail(toPython)
    /\ UNCHANGED <<seen, queue, waiting, alive, marks, forwarded, granted, used, lines>>

(* A caller asks under an id of its own (uuid4) and waits.                 *)
Request(id, r) ==
    /\ waiting = <<>>
    /\ id \notin used
    /\ PythonWrite(Line(r.type, id, r))
    /\ waiting' = <<[id |-> id, request |-> r]>>
    /\ used' = used \cup {id}
    /\ UNCHANGED <<toPython, seen, queue, pythonSeen, alive, marks, forwarded, handled,
                   granted>>

Accepts__anyId(m, w) ==
    /\ m.type = ResultType(w.request.type)
    /\ m.body

(* parse_*_result on what the transport returned                           *)
Accepts(m, w) ==
    /\ m.type = ResultType(w.request.type)
    /\ m.id = w.id
    /\ m.body

TransportReturns ==
    /\ alive
    /\ waiting # <<>>
    /\ toPython # <<>>
    /\ LET w == waiting[1] IN
         granted' = IF Accepts(Head(toPython), w) THEN granted \cup {w.request} ELSE granted
    /\ toPython' = Tail(toPython)
    /\ waiting' = <<>>
    /\ UNCHANGED <<toRust, seen, queue, pythonSeen, alive, marks, forwarded, handled,
                   used, lines>>

(* No transport, None, or a response that is no object: denied.            *)
TransportFails ==
    /\ waiting # <<>>
    /\ waiting' = <<>>
    /\ UNCHANGED <<toPython, toRust, seen, queue, pythonSeen, alive, marks, forwarded,
                   handled, granted, used, lines>>
-----------------------------------------------------------------------------
RustStep ==
    \/ DispatchDropped
    \/ DispatchIgnored
    \/ DispatchEvent
    \/ DispatchRequest
-----------------------------------------------------------------------------

TrackerConsistent ==
    /\ seen = Range(queue)
    /\ Cardinality(seen) = Len(queue)
    /\ Len(queue) <= Limit

(* Python gives an event to its handler at most once per correlation id,   *)
(* however often Rust sends it.                                            *)
HandledOnce == IsInjective(handled)

(* Duplicates are dropped at both ends.  The Rust tracker's set and queue  *)
(* hold the same ids, each once and within the limit, so that an eviction  *)
(* leaves no id behind that would be blocked for ever; an id counts as     *)
(* first observed again only after as many other new ids as the tracker    *)
(* holds; and Python's handler sees an id once.                            *)
DuplicatesDropped ==
    /\ TrackerConsistent
    /\ \A i, j \in DOMAIN marks :
          i < j /\ marks[i] = marks[j] => j - i > Limit
    /\ HandledOnce

(* Fail closed: Python only runs what an authority allowed in answer to    *)
(* that very request.  Late, lost and mismatched answers, and answers      *)
(* overtaken by a retry, never grant.                                      *)
GrantsAreDecisions == \A r \in granted : Decision(r)
=============================================================================
