-------------------------- MODULE MCCommandRouter --------------------------
(* Instance of CommandRouter: one thread and two tasks, and two threads on *)
(* one task with scores that may be null.                                  *)
EXTENDS CommandRouter

Bare == [storage |-> FALSE, memory |-> FALSE, enforceStorage |-> FALSE,
         enforceMemory |-> FALSE, authorizer |-> FALSE, legacy |-> TRUE,
         storageMode |-> "STRATEGIC", memoryMode |-> "STRATEGIC",
         execution |-> "BACKGROUND_TASK"]

MCBoth == {Bare, [Bare EXCEPT !.storage = TRUE, !.enforceStorage = TRUE]}

MCLoads ==
    {[callers |-> {"c1"}, arguments |-> MCBoth, tasks |-> 2, calls |-> 3,
      scores |-> {"high", "low"}, routes |-> 3],
     [callers |-> {"c1", "c2"}, arguments |-> MCBoth, tasks |-> 1, calls |-> 2,
      scores |-> {"low", "null"}, routes |-> 2]}
=============================================================================
