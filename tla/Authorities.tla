---------------------------- MODULE Authorities ----------------------------
(***************************************************************************)
(* The decisions of the Rust authorities, as pure operators: lifecycle     *)
(* (os/src/runtime/lifecycle.rs), identity (os/src/identity), energy       *)
(* (os/src/energy_manager.rs), storage (os/src/secure_storage.rs) and      *)
(* memory (os/src/runtime/memory_authority.rs).  A decision is whether the *)
(* request is allowed; the reason strings are left out.                    *)
(***************************************************************************)
EXTENDS Integers

(* Energy modes and execution classes *)
EnergyModes == {"STRATEGIC", "REDUCED", "SILENT"}
ExecutionTypes == {"LLM", "PROACTIVE", "BACKGROUND_TASK", "CRITICAL_REMINDER", "VOICE"}

determine_mode(battery) ==
    IF battery >= 50 THEN "STRATEGIC" ELSE IF battery >= 20 THEN "REDUCED" ELSE "SILENT"

authorize_execution(mode, execution) ==
    \/ mode = "STRATEGIC"
    \/ mode = "REDUCED" /\ execution # "BACKGROUND_TASK"
    \/ mode = "SILENT" /\ execution \in {"CRITICAL_REMINDER", "VOICE"}

(* Identity tiers *)
Tiers == {"owner", "family", "guest"}
TierActions == {"CREATE_TASK", "COMPLETE_TASK", "CANCEL_TASK", "STRATEGY"}

is_allowed(tier, action) ==
    \/ tier = "owner" /\ action \in TierActions
    \/ tier = "family" /\ action \in TierActions \ {"CANCEL_TASK"}

(* An unknown tier (parse_tier), a blank user and an unknown action are    *)
(* denied.                                                                 *)
authorize_with_tier_string(user, tier, authenticated, action) ==
    tier \in Tiers /\ authenticated /\ user # "" /\ is_allowed(tier, action)

(* Task lifecycle as the Rust side names it *)
RustTaskStates == {"Pending", "Completed", "Archived"}

is_valid_transition(from, to) ==
    <<from, to>> \in {<<"Pending", "Completed">>, <<"Pending", "Archived">>,
                      <<"Completed", "Archived">>}

(* parse_task_state knows the Rust names only; any other state is denied.  *)
validate_transition_from_str(from, to) ==
    /\ from \in RustTaskStates /\ to \in RustTaskStates
    /\ from # "Archived"
    /\ is_valid_transition(from, to)

(* Storage *)
StorageOperations == {"WRITE_TASK", "UPDATE_TASK", "ARCHIVE_TASK", "DELETE_TASK",
                      "VECTOR_WRITE", "VECTOR_DELETE"}

determine_storage_policy(operation, state, mode, execution, encrypted) ==
    /\ encrypted
    /\ operation # "DELETE_TASK"
    /\ ~(state = "ARCHIVED"
           /\ operation \in {"WRITE_TASK", "UPDATE_TASK", "VECTOR_WRITE", "VECTOR_DELETE"})
    /\ ~(mode \in {"REDUCED", "SILENT"} /\ execution = "LLM"
           /\ operation \in StorageOperations)

(* Memory *)
MemoryOperations == {"PROMOTE_TO_ACTIVE", "DEMOTE_TO_DORMANT", "ARCHIVE_ITEM",
                     "FINALIZE_ARCHIVE", "RETENTION_TRIGGER", "VECTOR_TIER_SHIFT"}

memory_target(operation) ==
    CASE operation = "PROMOTE_TO_ACTIVE" -> "ACTIVE"
      [] operation = "DEMOTE_TO_DORMANT" -> "COMPLETED"
      [] operation \in {"ARCHIVE_ITEM", "FINALIZE_ARCHIVE", "RETENTION_TRIGGER"} -> "ARCHIVED"
      [] operation = "VECTOR_TIER_SHIFT" -> "DORMANT"

determine_memory_transition(state, mode, permission, operation, flags) ==
    /\ permission
    /\ mode = "SILENT" => flags.critical_reminder
    /\ operation = "PROMOTE_TO_ACTIVE" =>
         state # "ARCHIVED" \/ flags.allow_archived_reactivation
    /\ operation = "FINALIZE_ARCHIVE" => state = "ARCHIVED"
    /\ operation = "RETENTION_TRIGGER" => flags.retention_due
=============================================================================
