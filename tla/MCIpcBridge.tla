---------------------------- MODULE MCIpcBridge ----------------------------
(* Small instances of the bridge with its callers.                         *)
EXTENDS VectorMemory, TLC

CONSTANTS i1, i2, i3

MCIds == {i1, i2, i3}
Symmetry == Permutations(MCIds)

Auth(tier, action) ==
    [type |-> "AUTH_REQUEST", valid |-> TRUE, user |-> "u", tier |-> tier,
     authenticated |-> TRUE, action |-> action]
Move(from, to) == [type |-> "TRANSITION_VALIDATE", valid |-> TRUE, from |-> from, to |-> to]
Energy(battery, execution) ==
    [type |-> "ENERGY_VALIDATE", valid |-> TRUE, battery |-> battery,
     execution |-> execution]
Storage(operation, state) ==
    [type |-> "STORAGE_VALIDATE", valid |-> TRUE, operation |-> operation, state |-> state,
     mode |-> "STRATEGIC", execution |-> "VOICE", encrypted |-> TRUE]
Memory(operation, state) ==
    [type |-> "MEMORY_VALIDATE", valid |-> TRUE, operation |-> operation, state |-> state,
     mode |-> "REDUCED", permission |-> TRUE,
     flags |-> [critical_reminder |-> FALSE, allow_archived_reactivation |-> FALSE,
                retention_due |-> FALSE]]

(* For each authority a request it allows and one it denies, and requests  *)
(* to two authorities that cross.                                          *)
MCRequests ==
    {{Auth("owner", "CANCEL_TASK"), Auth("family", "CANCEL_TASK"),
      [Auth("owner", "CANCEL_TASK") EXCEPT !.valid = FALSE]},
     {Move("Pending", "Completed"), Move("Completed", "Pending")},
     {Energy(49, "LLM"), Energy(19, "LLM")},
     {Storage("UPDATE_TASK", "ACTIVE"), Storage("UPDATE_TASK", "ARCHIVED")},
     {Memory("PROMOTE_TO_ACTIVE", "COMPLETED"), Memory("PROMOTE_TO_ACTIVE", "ARCHIVED")},
     {Auth("owner", "CANCEL_TASK"), Energy(19, "LLM")}}

Unwired ==
    [storageBridge |-> FALSE, memoryBridge |-> FALSE, enforceStorage |-> FALSE,
     enforceMemory |-> FALSE, storageMode |-> "STRATEGIC", memoryMode |-> "STRATEGIC",
     execution |-> "BACKGROUND_TASK"]
Wired == [Unwired EXCEPT !.storageBridge = TRUE]

Quiet ==
    [requests |-> {}, actions |-> {}, syncs |-> {}, others |-> MCIds, keys |-> {},
     vectors |-> Unwired]

(* Connectors: every action and every sync type, in pairs.                 *)
ConnectorLoads ==
    {[Quiet EXCEPT !.actions = {k[1], "unsupported"},
                       !.syncs = {k[2], "unsupported"}] :
        k \in {<<"create_task", "TASK_SNAPSHOT">>, <<"complete_task", "TASK_UPDATE">>,
               <<"archive_task", "VECTOR_UPDATE">>, <<"cancel_task", "ARCHIVAL_HINT">>,
               <<"reminder_ack", "STATE_RECONCILE">>}}

(* A connector beside a caller of the authorities.                         *)
CrossingLoad ==
    [Quiet EXCEPT !.actions = {"create_task"}, !.requests = {Auth("owner", "CANCEL_TASK")},
                  !.others = {}]

(* Vector calls: every wiring, an authority that refuses, one that is      *)
(* enforced and missing.                                                   *)
VectorLoads ==
    {[Quiet EXCEPT !.others = {}, !.keys = {"v"}, !.vectors = c] :
        c \in {Wired,
               [Wired EXCEPT !.memoryMode = "SILENT"],
               [Wired EXCEPT !.storageMode = "REDUCED", !.execution = "LLM"],
               [Unwired EXCEPT !.memoryBridge = TRUE],
               [Unwired EXCEPT !.memoryBridge = TRUE, !.enforceStorage = TRUE],
               Unwired,
               [Unwired EXCEPT !.enforceStorage = TRUE],
               [Unwired EXCEPT !.enforceMemory = TRUE]}}

MCLoads ==
    {[Quiet EXCEPT !.requests = rs] : rs \in MCRequests} \cup ConnectorLoads \cup VectorLoads
      \cup {CrossingLoad}
=============================================================================
