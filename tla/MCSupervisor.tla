---------------------------- MODULE MCSupervisor ----------------------------
(***************************************************************************)
(* Instance of the two supervisor components that share no state, the      *)
(* service registry and the scheduler: a behaviour is one of either.       *)
(***************************************************************************)
EXTENDS ServiceRegistry, Scheduler

VARIABLE side       \* the component this behaviour is about

MCDependencies == {<<>>, <<"a">>, <<"b">>, <<"c">>, <<"b", "c">>}
MCInterval == [t \in Tasks |-> IF t = "t1" THEN 2 ELSE 1]

SupervisorInit == side \in {"registry", "scheduler"} /\ RegistryInit /\ SchedulerInit

SupervisorNext ==
    \/ side = "registry" /\ RegistryNext /\ UNCHANGED <<svars, side>>
    \/ side = "scheduler" /\ SchedulerNext /\ UNCHANGED <<rvars, side>>

SupervisorSpec ==
    /\ SupervisorInit /\ [][SupervisorNext]_<<rvars, svars, side>>
    /\ SchedulerFairness
=============================================================================
