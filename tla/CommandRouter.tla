--------------------------- MODULE CommandRouter ---------------------------
(***************************************************************************)
(* The command router (core/cognition/command_router.py) and its challenge *)
(* gate (core/cognition/challenge_logic.py) on top of the task store.      *)
(*                                                                         *)
(* route() runs on the thread that calls it.  The router's lock guards the *)
(* registry and the audit list only, so two routes interleave between the  *)
(* challenge check, its recording, the handler's read and the store call.  *)
(* The task title is the column "title"; other code may activate a task    *)
(* through the store, which the router cannot do.                          *)
(*                                                                         *)
(* A definition with a suffix after `__` is an erroneous variant of the    *)
(* definition it precedes; no specification uses it.                       *)
(***************************************************************************)
EXTENDS TaskStore

VARIABLES
    rpc,         \* where each thread is in route()
    intent,      \* the intent it routes, and what it read
    audit,       \* CommandRouter._audit_events
    challenged,  \* ChallengeLogic._challenged_keys
    rejected,    \* ChallengeLogic._rejected_keys
    issued,      \* history: challenges returned to users
    routed,      \* history: intents routed
    forgotten,   \* history: intents routed before the last restart
    escaped      \* history: routes since then that ended by an exception

routerVars == <<rpc, intent, audit, challenged, rejected, issued, routed, forgotten, escaped>>
allVars == <<vars, routerVars>>

(* A load also bounds the intents routed and gives the alignment scores    *)
(* they carry.                                                             *)
ASSUME RouterAssumption ==
    /\ \A l \in Loads : l.scores \subseteq {"high", "low", "null"} /\ l.routes \in Nat
    /\ "title" \in Fields

Challengeable == {"COMPLETE_TASK", "CANCEL_TASK"}

(* A task is referred to by id, or else by title.                          *)
References == [by : {"id"}, value : 1 .. load.tasks] \cup [by : {"title"}, value : Values]

NoIntent == [action |-> "UNKNOWN", ref |-> [by |-> "id", value |-> 1], score |-> "high",
             overrode |-> FALSE, task |-> 0, before |-> "CREATED", seen |-> <<>>]

RouterInit ==
    /\ Init
    /\ rpc = [c \in Callers |-> "idle"]
    /\ intent = [c \in Callers |-> NoIntent]
    /\ audit = <<>>
    /\ challenged = {}
    /\ rejected = {}
    /\ issued = <<>>
    /\ routed = 0
    /\ forgotten = 0
    /\ escaped = 0

Step(c, l) == rpc' = [rpc EXCEPT ![c] = l]

(* _resolve_task_reference: the tasks the reference names; anything but    *)
(* exactly one is an error.                                                *)
Resolve(ref) ==
    {t \in DOMAIN rows :
        \/ ref.by = "id" /\ t = ref.value
        \/ ref.by = "title" /\ rows[t].data["title"] = ref.value}

Resolves(ref) == \E t \in Resolve(ref) : Resolve(ref) = {t}
TheTask(ref) == CHOOSE t \in Resolve(ref) : TRUE

(* _emit_audit_event, the last thing route() does on every path.           *)
Emit(c, event) ==
    /\ audit' = Append(audit, event)
    /\ intent' = [intent EXCEPT ![c] = NoIntent]
    /\ Step(c, "idle")

Failure == [task |-> 0, before |-> "none", after |-> "none", ok |-> FALSE]

Success(t, before, after) == [task |-> t, before |-> before, after |-> after, ok |-> TRUE]
-----------------------------------------------------------------------------
CanRoute(c) == rpc[c] = "idle" /\ pc[c] = "idle" /\ routed < load.routes

(* A mapping that is malformed, of low confidence or unsupported, or whose *)
(* entities do not validate or convert: rejected before anything is read.  *)
RouteRejected(c) ==
    /\ CanRoute(c)
    /\ routed' = routed + 1
    /\ audit' = Append(audit, Failure)
    /\ UNCHANGED <<vars, rpc, intent, challenged, rejected, issued, forgotten, escaped>>

(* An intent that is no mapping: the rejection itself raises, as it asks   *)
(* intent_object for its fields to audit them.  And an OverflowError of    *)
(* float() or astimezone() is no ValueError.                               *)
RouteRaises(c) ==
    /\ CanRoute(c)
    /\ routed' = routed + 1
    /\ escaped' = escaped + 1
    /\ UNCHANGED <<vars, rpc, intent, audit, challenged, rejected, issued, forgotten>>

Route(c, action, ref, score, overrode) ==
    /\ CanRoute(c)
    /\ routed' = routed + 1
    /\ intent' = [intent EXCEPT ![c] =
                    [NoIntent EXCEPT !.action = action, !.ref = ref, !.score = score,
                                     !.overrode = overrode, !.seen = rows]]
    /\ Step(c, IF action \in Challengeable THEN "challenge" ELSE "handler")
    /\ UNCHANGED <<vars, audit, challenged, rejected, issued, forgotten, escaped>>

Key(c) == <<TheTask(intent[c].ref), intent[c].action>>

ShouldChallenge__again(c) ==
    /\ Resolves(intent[c].ref)
    /\ ~intent[c].overrode
    /\ Key(c) \notin rejected
    /\ intent[c].score = "low"

(* ChallengeLogic.evaluate up to the point where it records the key.       *)
ShouldChallenge(c) ==
    /\ Resolves(intent[c].ref)
    /\ ~intent[c].overrode
    /\ Key(c) \notin rejected
    /\ Key(c) \notin challenged
    /\ intent[c].score = "low"

(* float(None) for a null score.                                           *)
ScoreRaises(c) == Resolves(intent[c].ref) /\ intent[c].score = "null"

(* There is no handler around the challenge but for a task that does not   *)
(* resolve: the exception, sqlite's on reading the tasks included, leaves  *)
(* route().                                                                *)
EvaluateRaises(c) ==
    /\ rpc[c] = "challenge"
    /\ ~Faults => ScoreRaises(c)
    /\ intent' = [intent EXCEPT ![c] = NoIntent]
    /\ Step(c, "idle")
    /\ escaped' = escaped + 1
    /\ UNCHANGED <<vars, audit, challenged, rejected, issued, routed, forgotten>>

EvaluateChallenge(c) ==
    /\ rpc[c] = "challenge"
    /\ ~ScoreRaises(c)
    /\ IF ShouldChallenge(c)
         THEN /\ intent' = [intent EXCEPT ![c].task = TheTask(intent[c].ref)]
              /\ Step(c, "issue")
         ELSE Step(c, "handler") /\ UNCHANGED intent
    /\ UNCHANGED <<vars, audit, challenged, rejected, issued, routed, forgotten, escaped>>

IssueChallenge__silent(c) ==
    /\ rpc[c] = "issue"
    /\ LET key == <<intent[c].task, intent[c].action>> IN
         /\ challenged' = challenged \cup {key}
         /\ issued' = Append(issued, key)
    /\ Step(c, "idle")
    /\ UNCHANGED <<vars, intent, audit, rejected, routed, forgotten, escaped>>

IssueChallenge(c) ==
    /\ rpc[c] = "issue"
    /\ LET key == <<intent[c].task, intent[c].action>> IN
         /\ challenged' = challenged \cup {key}
         /\ issued' = Append(issued, key)
    /\ Emit(c, Failure)
    /\ UNCHANGED <<vars, rejected, routed, forgotten, escaped>>

(* record_response with accepted=False                                     *)
RecordRejection(key) ==
    /\ rejected' = rejected \cup {key}
    /\ UNCHANGED <<vars, rpc, intent, audit, challenged, issued, routed, forgotten, escaped>>

HandleCreate(c) ==
    /\ rpc[c] = "handler"
    /\ intent[c].action = "CREATE_TASK"
    /\ \E title \in Values : CreateTask(c, [f \in Fields |-> title])
    /\ Step(c, "store")
    /\ UNCHANGED <<intent, audit, challenged, rejected, issued, routed, forgotten, escaped>>

Destination(action) == IF action = "COMPLETE_TASK" THEN "COMPLETED" ELSE "ARCHIVED"

(* KeyError or ValueError of the reference: INVALID_ENTITY; or sqlite      *)
(* raised on reading the tasks: INTERNAL_ERROR.                            *)
HandleUnresolved(c) ==
    /\ rpc[c] = "handler"
    /\ intent[c].action \in Challengeable
    /\ ~Faults => ~Resolves(intent[c].ref)
    /\ Emit(c, Failure)
    /\ UNCHANGED <<vars, challenged, rejected, issued, routed, forgotten, escaped>>

(* The handler reads the task; if it is already where it should be the     *)
(* route succeeds without a store call.                                    *)
HandleRead(c) ==
    /\ rpc[c] = "handler"
    /\ intent[c].action \in Challengeable
    /\ Resolves(intent[c].ref)
    /\ LET t == TheTask(intent[c].ref)
           before == rows[t].state
       IN IF before = Destination(intent[c].action)
            THEN Emit(c, Success(t, before, before))
            ELSE /\ intent' = [intent EXCEPT ![c].task = t, ![c].before = before]
                 /\ Step(c, "call")
                 /\ UNCHANGED audit
    /\ UNCHANGED <<vars, challenged, rejected, issued, routed, forgotten, escaped>>

HandleCall(c) ==
    /\ rpc[c] = "call"
    /\ TransitionTask(c, intent[c].task, Destination(intent[c].action))
    /\ Step(c, "store")
    /\ UNCHANGED <<intent, audit, challenged, rejected, issued, routed, forgotten, escaped>>

HandleResult__rereads(c) ==
    /\ rpc[c] = "store"
    /\ pc[c] = "idle"
    /\ Emit(c, IF result[c] = "ok"
                 THEN Success(op[c].task, op[c].read.state, op[c].read.state)
                 ELSE Failure)
    /\ UNCHANGED <<vars, challenged, rejected, issued, routed, forgotten, escaped>>

(* A new task that is no longer CREATED when it is read back is rejected.  *)
Executed(c) ==
    /\ result[c] = "ok"
    /\ intent[c].action = "CREATE_TASK" => op[c].read.state = "CREATED"

(* The store call ended: INVALID_TRANSITION, INTERNAL_ERROR or executed.   *)
HandleResult(c) ==
    /\ rpc[c] = "store"
    /\ pc[c] = "idle"
    /\ Emit(c, IF Executed(c)
                 THEN Success(op[c].task,
                              IF intent[c].action = "CREATE_TASK" THEN "none"
                              ELSE intent[c].before,
                              op[c].read.state)
                 ELSE Failure)
    /\ UNCHANGED <<vars, challenged, rejected, issued, routed, forgotten, escaped>>

(* Code outside the router activates a task.                               *)
DirectActivate(c, t) ==
    /\ rpc[c] = "idle"
    /\ TransitionTask(c, t, "ACTIVE")
    /\ UNCHANGED routerVars

StoreWork(c) == StoreStep(c) /\ UNCHANGED routerVars

RouterRestart ==
    /\ Restart
    /\ rpc' = [c \in Callers |-> "idle"]
    /\ intent' = [c \in Callers |-> NoIntent]
    /\ audit' = <<>>
    /\ challenged' = {}
    /\ rejected' = {}
    /\ issued' = <<>>
    /\ forgotten' = routed
    /\ escaped' = 0
    /\ UNCHANGED routed
-----------------------------------------------------------------------------
RouterStep(c) ==
    \/ EvaluateRaises(c)
    \/ EvaluateChallenge(c)
    \/ IssueChallenge(c)
    \/ HandleCreate(c)
    \/ HandleUnresolved(c)
    \/ HandleRead(c)
    \/ HandleCall(c)
    \/ HandleResult(c)
    \/ StoreWork(c)

RouterCall(c) ==
    /\ c \in load.callers
    /\ \/ RouteRejected(c)
       \/ RouteRaises(c)
       \/ Len(rows) < load.tasks /\ Route(c, "CREATE_TASK", NoIntent.ref, "high", FALSE)
       \/ \E action \in Challengeable, ref \in References, score \in load.scores,
             overrode \in BOOLEAN : Route(c, action, ref, score, overrode)
       \/ calls < load.calls /\ \E t \in DOMAIN rows : DirectActivate(c, t)

RouterNext ==
    \/ \E c \in Callers : RouterCall(c)
    \/ \E c \in Callers : RouterStep(c)
    \/ \E key \in Range(issued) : RecordRejection(key)
    \/ RouterRestart

RouterSpec == RouterInit /\ [][RouterNext]_allVars

-----------------------------------------------------------------------------

InRoute == {c \in Callers : rpc[c] # "idle"}

(* Every route() that returns has emitted exactly one audit event,         *)
(* whichever of its return paths it took and whatever other routes did     *)
(* meanwhile, and a route() that raises has emitted none (RouteRaises and  *)
(* EvaluateRaises: no other exception leaves it).  So the calls that are   *)
(* not accounted for are as many as the threads in route().                *)
OneAuditPerRoute ==
    LET accounted == forgotten + Len(audit) + escaped
    IN  accounted <= routed /\ ExistsBijection(InRoute, (accounted + 1)..routed)

(* "at most one challenge per task+action key", while one thread routes    *)
ChallengeOnce == Solo => IsInjective(issued)

(* While one thread routes, a route that is not executed leaves the tasks  *)
(* table as it found it: no rejection comes after the statement was run.   *)
RejectedLeavesRows ==
    [][\A c \in load.callers :
         Solo /\ rpc[c] # "idle" /\ rpc'[c] = "idle" /\ Len(audit') > Len(audit) /\ ~audit'[Len(audit')].ok
           => rows = intent[c].seen]_allVars

(* The executed state changes of the audit trail, the completions and      *)
(* archivings of the transition log, and that they agree one by one in     *)
(* their order.                                                            *)
ChangeAt == {i \in DOMAIN audit : audit[i].ok /\ audit[i].before \notin {"none", audit[i].after}}
EndingAt == {i \in DOMAIN log : log[i].to # "ACTIVE"}

Matched(E) ==
    \E f \in Bijection(ChangeAt, E) :
        /\ \A i, j \in ChangeAt : i < j => f[i] < f[j]
        /\ \A i \in ChangeAt : /\ audit[i].task = log[f[i]].task
                              /\ audit[i].before = log[f[i]].from
                              /\ audit[i].after = log[f[i]].to

(* The router's audit trail and the store's transition log, kept           *)
(* separately, tell the same story: between the routes of one thread, the  *)
(* executed state changes of the one are the completions and archivings of *)
(* the other, in the same order and with the same states before and after. *)
(* (With a bridge the log also holds transitions that storage denied.)     *)
AuditMatchesLog == Solo /\ InRoute = {} /\ ~conf.memory => Matched(EndingAt)
=============================================================================
