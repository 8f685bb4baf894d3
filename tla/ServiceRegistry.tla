-------------------------- MODULE ServiceRegistry --------------------------
(***************************************************************************)
(* The registry of supervised services: registration with dependencies,    *)
(* recursive start with cycle detection, stop, restart, start_all and      *)
(* stop_all.                                                               *)
(*                                                                         *)
(* The methods take &mut self, so calls do not overlap, but a service is a *)
(* trait object: its start and stop may fail, and it may end on its own at *)
(* any moment, also in the middle of a call.  start_recursive's activation *)
(* records are `stack`.  start_all and stop_all walk the keys of a         *)
(* HashMap, in any order.                                                  *)
(*                                                                         *)
(* A definition with a suffix after `__` is an erroneous variant of the    *)
(* definition it precedes; no specification uses it.                       *)
(***************************************************************************)
EXTENDS Integers, Sequences, FiniteSets, Functions

CONSTANTS
    Services,       \* service names
    Dependencies,   \* dependency lists used in registrations
    MaxCalls        \* bound: start, stop and restart calls

ASSUME RegistryAssumption ==
    /\ Dependencies \subseteq Seq(Services)
    /\ MaxCalls \in Nat

VARIABLES
    deps,           \* services: registered name |-> dependencies
    up,             \* services whose is_running() is true
    call,           \* method being executed, "none" between calls
    names,          \* names the call still has to start or stop
    stack,          \* frames of start_recursive, the innermost last
    visiting,       \* start_recursive's `visiting`
    ok,             \* whether the last call returned Ok
    targets,        \* history: services the last starting call was about
    died,           \* history: services that ended by themselves since it began
    calls           \* calls made

rvars == <<deps, up, call, names, stack, visiting, ok, targets, died, calls>>

Registered == DOMAIN deps

-----------------------------------------------------------------------------
RegistryInit ==
    /\ deps = [s \in {} |-> <<>>] /\ up = {}
    /\ call = "none" /\ names = <<>> /\ stack = <<>> /\ visiting = {}
    /\ ok = TRUE /\ targets = {} /\ died = {} /\ calls = 0

\* register_service: a duplicate and a service that depends on itself are
\* refused.
RegisterService(s, d) ==
    /\ call = "none"
    /\ s \notin Registered /\ s \notin Range(d)
    /\ deps' = [x \in Registered \cup {s} |-> IF x = s THEN d ELSE deps[x]]
    /\ ok' = TRUE /\ targets' = {}
    /\ UNCHANGED <<up, call, names, stack, visiting, died, calls>>

Begin(c, list) ==
    /\ call = "none" /\ calls < MaxCalls
    /\ calls' = calls + 1
    /\ call' = c /\ names' = list
    /\ died' = {}
    /\ targets' = IF c \in {"stop", "stop_all"} THEN {} ELSE Range(list)
    /\ UNCHANGED <<deps, up, stack, visiting, ok>>

StartService(s)   == Begin("start", <<s>>)
StopService(s)    == Begin("stop", <<s>>)
RestartService(s) == Begin("restart", <<s>>)

\* The orders in which the keys of the map may come (only for n = the number
\* of registered services is there a bijection).
Orders == UNION {Bijection(1..n, Registered) : n \in 0..Cardinality(Registered)}

StartAll == \E list \in Orders : Begin("start_all", list)
StopAll  == \E list \in Orders : Begin("stop_all", list)

Return(result) ==
    /\ call' = "none" /\ names' = <<>> /\ stack' = <<>> /\ visiting' = {}
    /\ ok' = result

\* start_recursive on one name, called with the frames `below` it and with
\* `rest` left of the call.
Enter__trusting(s, below, v, rest) ==
    IF s \in v THEN stack' = below /\ names' = rest /\ UNCHANGED <<call, visiting, ok>>
    ELSE IF s \notin Registered THEN Return(FALSE)
    ELSE /\ stack' = Append(below, [name |-> s, left |-> deps[s]])
         /\ visiting' = v \cup {s} /\ names' = rest
         /\ UNCHANGED <<call, ok>>

Enter(s, below, v, rest) ==
    IF s \in v \/ s \notin Registered THEN Return(FALSE)
    ELSE /\ stack' = Append(below, [name |-> s, left |-> deps[s]])
         /\ visiting' = v \cup {s} /\ names' = rest
         /\ UNCHANGED <<call, ok>>

Starting == call \in {"start", "start_all"}

\* start_service of the next name, with a fresh `visiting`.
StartNext ==
    /\ Starting /\ stack = <<>> /\ names # <<>>
    /\ Enter(Head(names), <<>>, {}, Tail(names))
    /\ UNCHANGED <<deps, up, targets, died, calls>>

TopFrame    == stack[Len(stack)]
LowerFrames == SubSeq(stack, 1, Len(stack) - 1)

\* The innermost frame calls start_recursive for its next dependency.
Descend ==
    /\ stack # <<>>
    /\ LET frame == TopFrame IN
       /\ frame.left # <<>>
       /\ LET below == Append(LowerFrames, [frame EXCEPT !.left = Tail(@)])
          IN  Enter(Head(frame.left), below, visiting, names)
    /\ UNCHANGED <<deps, up, targets, died, calls>>

Innermost == stack # <<>> /\ TopFrame.left = <<>>

Leave ==
    /\ stack' = LowerFrames
    /\ visiting' = visiting \ {TopFrame.name}
    /\ UNCHANGED <<call, names, ok>>

\* All dependencies are done: the service is started unless it runs.
ServiceStarts ==
    /\ Innermost
    /\ up' = up \cup {TopFrame.name}
    /\ Leave
    /\ UNCHANGED <<deps, targets, died, calls>>

StartFails__ignored ==
    /\ Innermost /\ TopFrame.name \notin up
    /\ Leave
    /\ UNCHANGED <<deps, up, targets, died, calls>>

StartFails ==
    /\ Innermost /\ TopFrame.name \notin up
    /\ Return(FALSE)
    /\ UNCHANGED <<deps, up, targets, died, calls>>

\* stop_service of the next name; restart goes on to start it.
Stopping == call \in {"stop", "stop_all", "restart"} /\ names # <<>>

StopNext ==
    /\ Stopping
    /\ IF Head(names) \notin Registered
       THEN Return(FALSE) /\ UNCHANGED up
       ELSE /\ up' = up \ {Head(names)}
            /\ IF call = "restart"
               THEN call' = "start" /\ UNCHANGED names
               ELSE names' = Tail(names) /\ UNCHANGED call
            /\ UNCHANGED <<stack, visiting, ok>>
    /\ UNCHANGED <<deps, targets, died, calls>>

StopFails ==
    /\ Stopping /\ Head(names) \in up
    /\ Return(FALSE)
    /\ UNCHANGED <<deps, up, targets, died, calls>>

Done ==
    /\ call # "none" /\ names = <<>> /\ stack = <<>>
    /\ Return(TRUE)
    /\ UNCHANGED <<deps, up, targets, died, calls>>

\* External: a running service ends.
ServiceDies(s) ==
    /\ s \in up
    /\ up' = up \ {s} /\ died' = died \cup {s}
    /\ UNCHANGED <<deps, call, names, stack, visiting, ok, targets, calls>>

CallStep ==
    StartNext \/ Descend \/ ServiceStarts \/ StartFails \/ StopNext \/ StopFails \/ Done

RegistryNext ==
    \/ \E s \in Services, d \in Dependencies : RegisterService(s, d)
    \/ \E s \in Services : StartService(s) \/ StopService(s) \/ RestartService(s)
    \/ StartAll \/ StopAll
    \/ CallStep
    \/ \E s \in Services : ServiceDies(s)

RegistrySpec == RegistryInit /\ [][RegistryNext]_rvars

-----------------------------------------------------------------------------
(* Properties.                                                             *)

\* A service is started only when everything it depends on runs, except for
\* what ended by itself during the call.
StartsAfterDependencies ==
    [][\A s \in up' \ up : Range(deps[s]) \subseteq up \cup died]_rvars

\* t is among what s depends on, directly or not: it is in every set that
\* holds the dependencies of s and of its own members.
Needs(s, t) ==
    \A C \in SUBSET Services :
        (\A x \in (C \cup {s}) \cap Registered : Range(deps[x]) \subseteq C) => t \in C

\* Nothing on a dependency cycle, or that needs such a service or one that
\* is not registered, ever runs, although registration only looks at a
\* service's own list and the cycle may be closed by a later registration.
UnstartableNeverRuns ==
    \A s \in up : \A t \in Services :
        (s = t \/ Needs(s, t)) => t \in Registered /\ ~Needs(t, t)

\* "Start a service and all of its dependencies in order."
\* (service_registry.rs:61): when a start, restart or start_all returned Ok,
\* its services and all they need run, or ended by themselves since.
OkMeansUp ==
    call = "none" /\ ok =>
        \A s \in targets, t \in Services : (s = t \/ Needs(s, t)) => t \in up \cup died

=============================================================================
