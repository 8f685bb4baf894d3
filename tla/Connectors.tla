----------------------------- MODULE Connectors -----------------------------
(***************************************************************************)
(* The two ways in for outside events: MobileConnector.receive_event       *)
(* (core/connectors/mobile_connector.py) and SyncDaemon.receive_sync       *)
(* (services/sync_daemon.py).  Each validates one payload, gives it a      *)
(* correlation id if it came without, translates its kind to the name of   *)
(* an internal event and writes one EVENT line to the bridge.  The names   *)
(* are translated in Python and looked up again in Rust, and a client that *)
(* repeats a payload relies on the correlation id to have it taken once.   *)
(* The limits that Rust puts on a line are not checked in Python.          *)
(***************************************************************************)
EXTENDS IpcBridge

CONSTANT Loads      \* what a behaviour is made of, see the instances

(* Callers build their requests with the build_* functions of the bridge.  *)
ASSUME LoadsAssumption == \A l \in Loads : \A r \in l.requests : r.type \in RequestTypes

VARIABLES
    load,           \* the senders of this behaviour
    ingress,        \* history: the lines the connectors wrote
    foreign         \* history: ids under which others sent events or requests

connectorVars == <<load, ingress, foreign>>

(* MobileConnector.ACTION_EVENT_MAP and SyncDaemon.SYNC_EVENT_MAP          *)
ACTION_EVENT_MAP ==
    [create_task   |-> "TaskCreated",
     complete_task |-> "TaskCompleted",
     archive_task  |-> "TaskArchived",
     cancel_task   |-> "TaskArchived",
     reminder_ack  |-> "LifecycleValidated"]

SYNC_EVENT_MAP ==
    [TASK_SNAPSHOT   |-> "LifecycleValidated",
     TASK_UPDATE     |-> "TaskCreated",
     VECTOR_UPDATE   |-> "ModelDowngrade",
     ARCHIVAL_HINT   |-> "TaskArchived",
     STATE_RECONCILE |-> "IdentityChanged"]

(* What a caller may hand in: the fields that validation looks at, whether *)
(* Rust will parse the line it makes, and whether it carries a correlation *)
(* id of its own.                                                          *)
Payloads(kinds) ==
    [kind : kinds, body : {"plain", "unfit", "unsafe"}, id : {"given", "none"}]

ConnectorInit ==
    /\ load \in Loads
    /\ ingress = {}
    /\ foreign = {}

(* _validate_payload: anything but a supported kind with a body of safe    *)
(* keys raises before a line is written.                                   *)
ValidEvent(p) == p.kind \in DOMAIN ACTION_EVENT_MAP /\ p.body # "unsafe"
ValidSync(p) == p.kind \in DOMAIN SYNC_EVENT_MAP /\ p.body # "unsafe"

(* The caller's id, or one that uuid4 draws.                               *)
CorrelationId(p, id) ==
    /\ p.id = "none" => id \notin used
    /\ used' = IF p.id = "none" THEN used \cup {id} ELSE used

(* The line of an accepted payload.  parse_envelope_line refuses one that  *)
(* is longer than 64 KiB, has a correlation id of more than 128 bytes, a   *)
(* negative timestamp, or a value that is not JSON (NaN).                  *)
Envelope(p, id, event) ==
    IF p.body = "unfit" THEN Line("MALFORMED", id, "none") ELSE Line("EVENT", id, event)

Publish(m) ==
    /\ PythonWrite(m)
    /\ ingress' = ingress \cup {m}
    /\ UNCHANGED <<toPython, seen, queue, pythonSeen, waiting, alive, marks, forwarded,
                   handled, granted, load, foreign>>

ReceiveEvent(p, id) ==
    /\ ValidEvent(p)
    /\ CorrelationId(p, id)
    /\ Publish(Envelope(p, id, ACTION_EVENT_MAP[p.kind]))

ReceiveSync(p, id) ==
    /\ ValidSync(p)
    /\ CorrelationId(p, id)
    /\ Publish(Envelope(p, id, SYNC_EVENT_MAP[p.kind]))

ReceiveRaises ==
    /\ ~ /\ \A p \in Payloads(load.actions) : ValidEvent(p)
         /\ \A p \in Payloads(load.syncs) : ValidSync(p)
    /\ UNCHANGED <<vars, connectorVars>>
-----------------------------------------------------------------------------
Connect ==
    \/ \E p \in Payloads(load.actions), id \in Ids : ReceiveEvent(p, id)
    \/ \E p \in Payloads(load.syncs), id \in Ids : ReceiveSync(p, id)
    \/ ReceiveRaises

(* The other senders of events, whose ids the connectors do not know.      *)
OthersSend ==
    \E id \in load.others :
      /\ \/ SendEvent(id)
         \/ PythonSend("EVENT", id, "Unrecognised")
         \/ PythonSend("MALFORMED", id, "none")
      /\ foreign' = foreign \cup {id}
      /\ UNCHANGED <<load, ingress>>
-----------------------------------------------------------------------------
(* What a connector has accepted reaches the bus if Rust can parse its     *)
(* line: that is still in the pipe, or an event with its id has been       *)
(* forwarded, unless somebody else used that id.  It fails if the two      *)
(* languages disagree about a name, if a line is dropped though its id was *)
(* never seen, or if a line that does not parse takes the id of a later    *)
(* one with it.  (That Python accepts what Rust then refuses to parse is   *)
(* what the code does, and the payload is lost.)                           *)
IngressReachesBus ==
    \A m \in ingress :
        \/ m.type = "MALFORMED"
        \/ m \in Range(toRust)
        \/ m.id \in Range(forwarded)
        \/ m.id \in foreign
=============================================================================
