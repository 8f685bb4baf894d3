---------------------------- MODULE MCTaskStore ----------------------------
(* Instance of TaskStore: one thread and two tasks under every way to      *)
(* construct the store, and two threads on one task.                       *)
EXTENDS TaskStore

Bare == [storage |-> FALSE, memory |-> FALSE, enforceStorage |-> FALSE,
         enforceMemory |-> FALSE, authorizer |-> FALSE, legacy |-> TRUE,
         storageMode |-> "STRATEGIC", memoryMode |-> "STRATEGIC",
         execution |-> "BACKGROUND_TASK"]
Enforced == [Bare EXCEPT !.enforceStorage = TRUE, !.enforceMemory = TRUE]

(* No bridge, and an authorizer, or nobody to ask.                         *)
MCUnbridged == {Bare, [Bare EXCEPT !.authorizer = TRUE], [Bare EXCEPT !.legacy = FALSE],
                Enforced, [Bare EXCEPT !.enforceStorage = TRUE]}

(* A storage bridge, which also serves memory requests.                    *)
MCBridged ==
    {[Enforced EXCEPT !.storage = TRUE],
     [Enforced EXCEPT !.storage = TRUE, !.memoryMode = "SILENT"],
     [Enforced EXCEPT !.storage = TRUE, !.storageMode = "REDUCED", !.execution = "LLM"]}

(* A memory bridge alone: with it, ARCHIVED is left for COMPLETED.         *)
MCMemoryOnly == {[Bare EXCEPT !.memory = TRUE], [Enforced EXCEPT !.memory = TRUE]}

MCSafe == {Bare, [Enforced EXCEPT !.storage = TRUE], [Bare EXCEPT !.storage = TRUE]}

(* The ways to construct a store that differ in who decides, an authorizer *)
(* that nobody asks beside a bridge included.                              *)
MCSolo == MCUnbridged \cup MCBridged \cup MCMemoryOnly
            \cup {[Bare EXCEPT !.storage = TRUE, !.authorizer = TRUE]}

MCLoads ==
    {[callers |-> {"c1"}, arguments |-> MCSolo, tasks |-> 2, calls |-> 5],
     [callers |-> {"c1", "c2"}, arguments |-> MCSafe, tasks |-> 1, calls |-> 4]}
=============================================================================
