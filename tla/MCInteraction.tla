--------------------------- MODULE MCInteraction ---------------------------
(***************************************************************************)
(* Instance of Interaction: two dates; a context with all three patterns,  *)
(* two of them tied in score, and one with a single pattern that repeats a *)
(* key of the first.  A session is either long in inputs or in proactive   *)
(* cycles of its own.                                                      *)
(***************************************************************************)
EXTENDS Interaction

MCContexts ==
    {[task |-> "global", overdue |-> 1, scheduled |-> 9, capacity |-> 8, alignment |-> 52],
     [task |-> "global", overdue |-> 1, scheduled |-> 0, capacity |-> 8, alignment |-> 100]}

MCLoads ==
    {[inputs |-> 2, evaluations |-> 1, outcomes |-> 0],
     [inputs |-> 1, evaluations |-> 2, outcomes |-> 1],
     [inputs |-> 1, evaluations |-> 3, outcomes |-> 0],
     [inputs |-> 0, evaluations |-> 5, outcomes |-> 1]}
=============================================================================
