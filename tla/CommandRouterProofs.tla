------------------------ MODULE CommandRouterProofs -------------------------
(***************************************************************************)
(* The command router over the task store, for any threads, loads and      *)
(* construction of the store and any number of routes.  The invariants of  *)
(* the store carry over: below the router it takes no other steps.         *)
(***************************************************************************)
EXTENDS CommandRouter, TaskStoreProofs

(* Zenon tries every leaf that names no other prover.                      *)
USE Zenon

(* The types of what the router keeps: the states an audit event names,    *)
(* the event, the actions, what a command refers to, and the intent of a   *)
(* route.                                                                  *)
States == TaskState \cup {"none"}
Event == [task : Nat, before : States, after : States, ok : BOOLEAN]
Actions == Challengeable \cup {"CREATE_TASK", "UNKNOWN"}
Reference == [by : {"id"}, value : Nat] \cup [by : {"title"}, value : Values]
Intent == [action : Actions, ref : Reference, score : {"high", "low", "null"},
           overrode : BOOLEAN, task : Nat, before : TaskState, seen : Seq(Row)]
(* The labels of a route at which its thread is in no call of the store.   *)
Reading == {"challenge", "issue", "handler", "call"}

(* A thread in route() is one of the load's, and in a store call only when *)
(* its handler made one.                                                   *)
RouterType ==
    /\ rpc \in [Callers -> Reading \cup {"idle", "store"}]
    /\ intent \in [Callers -> Intent]
    /\ audit \in Seq(Event)
    /\ issued \in Seq(Nat \X Actions)
    /\ routed \in Nat /\ forgotten \in Nat /\ escaped \in Nat
    /\ \A c \in Callers : rpc[c] # "idle" => c \in load.callers
    /\ \A c \in Callers : rpc[c] \in Reading => pc[c] = "idle"
    /\ \A c \in Callers : rpc[c] \in {"challenge", "issue", "call"} =>
                             intent[c].action \in Challengeable

(* The intent of a thread that routes nothing has its type.                *)
LEMMA NoIntentType == NoIntent \in Intent
  <1>1. <<>> \in Seq(Row)
    BY SMT
  <1> QED
    BY <1>1 DEF NoIntent, Intent, Actions, Reference, TaskState

(* A reference that resolves names a row.                                  *)
LEMMA TheTaskIsRow ==
    ASSUME StoreType, NEW ref, Resolves(ref)
    PROVE  TheTask(ref) \in 1..Len(rows)
  <1>1. /\ rows \in Seq(Row) /\ Len(rows) \in Nat /\ DOMAIN rows = 1..Len(rows)
    BY SeqLength DEF StoreType
  <1>2. Resolve(ref) \subseteq 1..Len(rows)
    BY <1>1 DEF Resolve
  <1>3. TheTask(ref) \in Resolve(ref)
    BY DEF Resolves, TheTask
  <1> QED
    BY <1>2, <1>3

(* What the router does to the store is what any caller may do.            *)
LEMMA RouterIsStoreNext ==
    StoreType /\ RouterType /\ [RouterNext]_allVars => [StoreNext]_vars
  <1> SUFFICES ASSUME StoreType, RouterType, RouterNext PROVE StoreNext \/ UNCHANGED vars
    BY DEF allVars
  <1>1. ASSUME NEW c \in Callers, RouterCall(c) PROVE StoreNext \/ UNCHANGED vars
    <2>1. ASSUME NEW t \in DOMAIN rows, DirectActivate(c, t) PROVE StoreBegins(c)
      <3>1. t \in Nat
        BY SeqLength, SMT DEF StoreType
      <3> QED
        BY <2>1, <3>1 DEF DirectActivate, StoreBegins, TaskState
    <2> QED
      BY <1>1, <2>1 DEF RouterCall, RouteRejected, RouteRaises, Route, StoreNext
  <1>2. ASSUME NEW c \in Callers, RouterStep(c) PROVE StoreNext \/ UNCHANGED vars
    <2>1. CASE StoreWork(c)
      BY <2>1 DEF StoreWork, StoreNext
    <2>2. CASE HandleCreate(c)
      <3>1. PICK title \in Values : CreateTask(c, [f \in Fields |-> title])
        BY <2>2 DEF HandleCreate
      <3>2. [f \in Fields |-> title] \in [Fields -> Values]
        OBVIOUS
      <3>3. c \in load.callers
        BY <2>2 DEF HandleCreate, RouterType
      <3> QED
        BY <3>1, <3>2, <3>3 DEF StoreNext, StoreBegins
    <2>3. CASE HandleCall(c)
      <3>1. TransitionTask(c, intent[c].task, Destination(intent[c].action)) /\ c \in load.callers
        BY <2>3 DEF HandleCall, RouterType
      <3>2. intent[c].task \in Nat /\ Destination(intent[c].action) \in TaskState
        BY DEF RouterType, Intent, Destination, TaskState
      <3> QED
        BY <3>1, <3>2 DEF StoreNext, StoreBegins
    <2> QED
      BY <1>2, <2>1, <2>2, <2>3 DEF RouterStep, EvaluateRaises, EvaluateChallenge, IssueChallenge,
                                    HandleUnresolved, HandleRead, HandleResult
  <1>3. CASE RouterRestart
    BY <1>3 DEF RouterRestart, StoreNext
  <1>4. CASE \E key \in Range(issued) : RecordRejection(key)
    BY <1>4 DEF RecordRejection
  <1> QED
    BY <1>1, <1>2, <1>3, <1>4 DEF RouterNext

(* A route ends with an audit event.                                       *)
LEMMA RouterEmits ==
    ASSUME RouterType, NEW c \in Callers, NEW e \in Event, Emit(c, e),
           issued' \in Seq(Nat \X Actions), UNCHANGED <<vars, routed, forgotten, escaped>>
    PROVE  RouterType'
  <1>1. audit' \in Seq(Event)
    BY SeqAppend DEF Emit, RouterType
  <1>2. /\ rpc' = [rpc EXCEPT ![c] = "idle"] /\ intent' = [intent EXCEPT ![c] = NoIntent]
        /\ UNCHANGED <<load, pc>>
    BY DEF Emit, Step, vars
  <1>3. /\ rpc' \in [Callers -> Reading \cup {"idle", "store"}] /\ rpc'[c] = "idle"
        /\ \A d \in Callers : d # c => rpc'[d] = rpc[d] /\ intent'[d] = intent[d]
        /\ intent' \in [Callers -> Intent]
    BY <1>2, NoIntentType DEF RouterType
  <1> QED
    BY <1>1, <1>2, <1>3 DEF RouterType, Reading

(* A route goes on.                                                        *)
LEMMA RouterMoves ==
    ASSUME RouterType, NEW c \in load.callers, c \in Callers, NEW l \in Reading, Step(c, l),
           pc[c] = "idle",
           NEW i \in Intent, intent' = [intent EXCEPT ![c] = i],
           l \in {"challenge", "issue", "call"} => i.action \in Challengeable,
           UNCHANGED <<vars, audit, issued, forgotten, escaped>>, routed' \in Nat
    PROVE  RouterType'
  <1>1. rpc' = [rpc EXCEPT ![c] = l] /\ UNCHANGED <<load, pc>>
    BY DEF Step, vars
  <1> QED
    BY <1>1 DEF RouterType

(* Steps of the store leave the router's types alone.                      *)
LEMMA StoreKeepsPlaces ==
    ASSUME StoreType, NEW c \in Callers, StoreStep(c)
    PROVE  /\ UNCHANGED load /\ pc[c] # "idle"
           /\ \A d \in Callers : pc[d] = "idle" => pc'[d] = "idle"
  <1>1. UNCHANGED load /\ pc[c] # "idle"
    BY StepIsBusy
  <1>2. \E l : Goto(c, l)
    BY DEF StoreStep, TransportRaises, RequestStoragePermission, MemoryValidate, AssertTransition,
           StorageDenies, Execute, Commit, SqliteRaises, Reply, Return
  <1> QED
    BY <1>1, <1>2 DEF Goto, StoreType

(* ... leave the calls of other threads alone, and the destination a call  *)
(* asked for.                                                              *)
LEMMA StoreKeepsCalls ==
    ASSUME StoreType, NEW c \in Callers, StoreStep(c)
    PROVE  /\ \A d \in Callers : d # c => pc'[d] = pc[d] /\ op'[d] = op[d]
           /\ op'[c].dest = op[c].dest
  <1>1. \E l : Goto(c, l)
    BY DEF StoreStep, TransportRaises, RequestStoragePermission, MemoryValidate, AssertTransition,
           StorageDenies, Execute, Commit, SqliteRaises, Reply, Return
  <1>2. \E v : \/ op' = op
               \/ op' = [op EXCEPT ![c].permission = v] \/ op' = [op EXCEPT ![c].target = v]
               \/ op' = [op EXCEPT ![c].task = v] \/ op' = [op EXCEPT ![c].read = v]
    BY DEF StoreStep, TransportRaises, RequestStoragePermission, MemoryValidate, AssertTransition,
           StorageDenies, Execute, Commit, SqliteRaises, Reply
  <1>3. op \in [Callers -> Call] /\ op[c] \in Call /\ DOMAIN pc = Callers
    BY DEF StoreType
  <1>4. \A d \in Callers : d # c => pc'[d] = pc[d]
    BY <1>1, <1>3 DEF Goto
  <1>5. /\ \A d \in Callers : d # c => op'[d] = op[d]
        /\ op'[c].dest = op[c].dest
    BY <1>2, <1>3, SMT DEF Call
  <1> QED
    BY <1>4, <1>5

(* The router's state is well formed throughout.                           *)
LEMMA RouterTypeNext ==
    StoreType /\ RouterType /\ [RouterNext]_allVars => RouterType'
  <1> SUFFICES ASSUME StoreType, RouterType, [RouterNext]_allVars PROVE RouterType'
    OBVIOUS
  <1>f. Failure \in Event
    BY DEF Failure, Event, States
  <1>1. ASSUME NEW c \in Callers, RouterCall(c) PROVE RouterType'
    <2>c. c \in load.callers
      BY <1>1 DEF RouterCall
    <2>1. CASE RouteRejected(c)
      <3>1. audit' \in Seq(Event)
        BY <1>f, <2>1, SeqAppend DEF RouteRejected, RouterType
      <3> QED
        BY <2>1, <3>1, SMT DEF RouteRejected, RouterType, vars
    <2>6. CASE RouteRaises(c)
      BY <2>6, SMT DEF RouteRaises, RouterType, vars
    <2>2. ASSUME NEW action \in Actions, NEW ref \in Reference, NEW score \in {"high", "low", "null"},
                 NEW overrode \in BOOLEAN, Route(c, action, ref, score, overrode)
          PROVE  RouterType'
      <3> DEFINE i == [NoIntent EXCEPT !.action = action, !.ref = ref, !.score = score,
                                     !.overrode = overrode, !.seen = rows]
                 l == IF action \in Challengeable THEN "challenge" ELSE "handler"
      <3>1. i \in Intent /\ i.action = action
        BY NoIntentType DEF Intent, StoreType
      <3>2. /\ pc[c] = "idle" /\ Step(c, l) /\ intent' = [intent EXCEPT ![c] = i]
            /\ UNCHANGED <<vars, audit, issued, forgotten, escaped>> /\ routed' \in Nat
        BY <2>2, SMT DEF Route, CanRoute, RouterType
      <3>3. l \in Reading /\ (l \in {"challenge", "issue", "call"} => action \in Challengeable)
        BY DEF Reading
      <3> HIDE DEF i, l
      <3> QED
        BY <2>c, <3>1, <3>2, <3>3, RouterMoves
    <2>3. CASE Route(c, "CREATE_TASK", NoIntent.ref, "high", FALSE)
      <3>1. NoIntent.ref \in Reference /\ "CREATE_TASK" \in Actions
        BY NoIntentType DEF Intent, Actions
      <3> QED
        BY <2>2, <2>3, <3>1
    <2>4. ASSUME NEW action \in Challengeable, NEW ref \in References, NEW score \in load.scores,
                 NEW overrode \in BOOLEAN, Route(c, action, ref, score, overrode)
          PROVE  RouterType'
      <3>1. action \in Actions /\ score \in {"high", "low", "null"}
        BY RouterAssumption DEF Actions, StoreType
      <3>2. load.tasks \in Nat
        BY TaskStoreAssumption DEF StoreType
      <3>3. ref \in Reference
        BY <3>2, SMT DEF References, Reference
      <3> QED
        BY <2>2, <2>4, <3>1, <3>3
    <2>5. ASSUME NEW t \in DOMAIN rows, DirectActivate(c, t) PROVE RouterType'
      <3>1. /\ rpc[c] = "idle" /\ UNCHANGED routerVars /\ UNCHANGED load /\ \E l : Goto(c, l)
        BY <2>5 DEF DirectActivate, TransitionTask, Start
      <3>2. \A d \in Callers : d # c => pc'[d] = pc[d]
        BY <3>1 DEF Goto, StoreType
      <3> QED
        BY <3>1, <3>2 DEF RouterType, routerVars, Reading
    <2> QED
      BY <1>1, <2>1, <2>3, <2>4, <2>5, <2>6 DEF RouterCall
  <1>2. ASSUME NEW c \in Callers, RouterStep(c) PROVE RouterType'
    <2>i. intent[c] \in Intent /\ op[c] \in Call
      BY DEF RouterType, StoreType
    <2>1. CASE EvaluateRaises(c)
      <3>1. /\ rpc' = [rpc EXCEPT ![c] = "idle"] /\ intent' = [intent EXCEPT ![c] = NoIntent]
            /\ escaped' = escaped + 1 /\ UNCHANGED <<audit, issued, routed, forgotten, load, pc>>
        BY <2>1 DEF EvaluateRaises, Step, vars
      <3>2. /\ rpc' \in [Callers -> Reading \cup {"idle", "store"}] /\ rpc'[c] = "idle"
            /\ \A d \in Callers : d # c => rpc'[d] = rpc[d] /\ intent'[d] = intent[d]
            /\ intent' \in [Callers -> Intent]
        BY <3>1, NoIntentType DEF RouterType
      <3> QED
        BY <3>1, <3>2, SMT DEF RouterType, Reading
    <2>2. CASE EvaluateChallenge(c)
      <3>1. /\ rpc[c] = "challenge" /\ c \in load.callers /\ pc[c] = "idle"
            /\ intent[c].action \in Challengeable
            /\ UNCHANGED <<vars, audit, issued, forgotten, escaped>> /\ routed' \in Nat
        BY <2>2 DEF EvaluateChallenge, RouterType, Reading
      <3>2. CASE ~ShouldChallenge(c)
        <4>1. Step(c, "handler") /\ intent' = [intent EXCEPT ![c] = intent[c]]
          BY <2>2, <3>2 DEF EvaluateChallenge, RouterType
        <4> QED
          BY <2>i, <3>1, <4>1, RouterMoves DEF Reading
      <3>3. CASE ShouldChallenge(c)
        <4> DEFINE i == [intent[c] EXCEPT !.task = TheTask(intent[c].ref)]
        <4>1. Step(c, "issue") /\ intent' = [intent EXCEPT ![c] = i]
          BY <2>2, <3>3 DEF EvaluateChallenge
        <4>2. TheTask(intent[c].ref) \in Nat
          BY <3>3, TheTaskIsRow, SMT DEF ShouldChallenge
        <4>3. i \in Intent /\ i.action = intent[c].action
          BY <2>i, <4>2 DEF Intent
        <4> HIDE DEF i
        <4> QED
          BY <3>1, <4>1, <4>3, RouterMoves DEF Reading
      <3> QED
        BY <3>2, <3>3
    <2>3. CASE IssueChallenge(c)
      <3>1. /\ issued' = Append(issued, <<intent[c].task, intent[c].action>>)
            /\ Emit(c, Failure) /\ UNCHANGED <<vars, routed, forgotten, escaped>>
        BY <2>3 DEF IssueChallenge
      <3>2. <<intent[c].task, intent[c].action>> \in Nat \X Actions
        BY <2>i DEF Intent
      <3>3. issued' \in Seq(Nat \X Actions)
        BY <3>1, <3>2, SeqAppend DEF RouterType
      <3> QED
        BY <1>f, <3>1, <3>3, RouterEmits
    <2>4. CASE HandleCreate(c) \/ HandleCall(c)
      <3>1. /\ rpc' = [rpc EXCEPT ![c] = "store"] /\ rpc[c] # "idle"
            /\ UNCHANGED <<intent, audit, issued, routed, forgotten, escaped, load>>
            /\ \E l : Goto(c, l)
        BY <2>4 DEF HandleCreate, HandleCall, CreateTask, TransitionTask, Start, Step
      <3>2. /\ rpc' \in [Callers -> Reading \cup {"idle", "store"}] /\ rpc'[c] = "store"
            /\ \A d \in Callers : d # c => rpc'[d] = rpc[d] /\ pc'[d] = pc[d]
        BY <3>1 DEF RouterType, StoreType, Goto
      <3> QED
        BY <3>1, <3>2 DEF RouterType, Reading
    <2>5. CASE HandleUnresolved(c)
      BY <1>f, <2>5, RouterEmits DEF HandleUnresolved, RouterType
    <2>6. CASE HandleRead(c)
      <3> DEFINE t == TheTask(intent[c].ref)
                 before == rows[t].state
                 i == [intent[c] EXCEPT !.task = t, !.before = before]
      <3>1. /\ rpc[c] = "handler" /\ intent[c].action \in Challengeable /\ c \in load.callers
            /\ pc[c] = "idle" /\ Resolves(intent[c].ref)
            /\ UNCHANGED <<vars, issued, routed, forgotten, escaped>>
        BY <2>6 DEF HandleRead, RouterType, Reading
      <3>2. t \in Nat /\ t \in 1..Len(rows)
        BY <3>1, TheTaskIsRow, SMT
      <3>3. before \in TaskState
        <4>1. rows[t] \in Row
          BY <3>2, SeqElement DEF StoreType
        <4> QED
          BY <4>1 DEF Row
      <3>4. CASE Emit(c, Success(t, before, before))
        <4>1. Success(t, before, before) \in Event
          BY <3>2, <3>3 DEF Success, Event, States
        <4> QED
          BY <3>1, <3>4, <4>1, RouterEmits DEF RouterType
      <3>5. CASE /\ intent' = [intent EXCEPT ![c].task = t, ![c].before = before]
                 /\ Step(c, "call") /\ UNCHANGED audit
        <4>1. intent' = [intent EXCEPT ![c] = i]
          BY <2>i, <3>5 DEF RouterType, Intent
        <4>2. i \in Intent /\ i.action = intent[c].action
          BY <2>i, <3>2, <3>3 DEF Intent
        <4> HIDE DEF i
        <4>3. "call" \in Reading /\ routed' \in Nat /\ i.action \in Challengeable
          BY <3>1, <4>2 DEF Reading, RouterType
        <4> QED
          BY <3>1, <3>5, <4>1, <4>2, <4>3, RouterMoves
      <3> QED
        BY <2>6, <3>4, <3>5 DEF HandleRead
    <2>7. CASE HandleResult(c)
      <3> DEFINE e == Success(op[c].task,
                              IF intent[c].action = "CREATE_TASK" THEN "none"
                              ELSE intent[c].before,
                              op[c].read.state)
      <3>1. e \in Event
        <4>1. op[c].task \in Nat /\ op[c].read.state \in States
          BY <2>i DEF Call, Row, States
        <4>2. intent[c].before \in States /\ "none" \in States
          BY <2>i DEF Intent, States
        <4> QED
          BY <4>1, <4>2 DEF Success, Event
      <3>2. /\ Emit(c, IF Executed(c) THEN e ELSE Failure)
            /\ UNCHANGED <<vars, issued, routed, forgotten, escaped>>
        BY <2>7 DEF HandleResult
      <3> HIDE DEF e
      <3> QED
        BY <1>f, <3>1, <3>2, RouterEmits DEF RouterType
    <2>8. CASE StoreWork(c)
      BY <2>8, StoreKeepsPlaces DEF StoreWork, RouterType, routerVars
    <2> QED
      BY <1>2, <2>1, <2>2, <2>3, <2>4, <2>5, <2>6, <2>7, <2>8 DEF RouterStep
  <1>3. CASE RouterRestart
    <2>1. <<>> \in Seq(Event) /\ <<>> \in Seq(Nat \X Actions)
      BY SMT
    <2>2. /\ audit' = <<>> /\ issued' = <<>> /\ forgotten' = routed /\ escaped' = 0
          /\ routed' = routed /\ UNCHANGED load
          /\ rpc' = [d \in Callers |-> "idle"] /\ intent' = [d \in Callers |-> NoIntent]
      BY <1>3 DEF RouterRestart, Restart
    <2>3. /\ rpc' \in [Callers -> Reading \cup {"idle", "store"}]
          /\ intent' \in [Callers -> Intent] /\ \A d \in Callers : rpc'[d] = "idle"
      BY <2>2, NoIntentType
    <2> QED
      BY <2>1, <2>2, <2>3 DEF RouterType, Reading
  <1>4. CASE (\E key \in Range(issued) : RecordRejection(key)) \/ UNCHANGED allVars
    BY <1>4 DEF RecordRejection, RouterType, vars, allVars, routerVars
  <1> QED
    BY <1>1, <1>2, <1>3, <1>4 DEF RouterNext

(* What holds of the store and of the router together.                     *)
RouterInv == StoreInv /\ RouterType

(* The store under the router keeps all its invariants.                    *)
LEMMA RouterInvInit == RouterInit => RouterInv
  <1> SUFFICES ASSUME RouterInit PROVE RouterType
    BY StoreInvInit DEF RouterInit, RouterInv
  <1>1. <<>> \in Seq(Event) /\ <<>> \in Seq(Nat \X Actions)
    BY SMT
  <1>2. /\ rpc \in [Callers -> Reading \cup {"idle", "store"}]
        /\ intent \in [Callers -> Intent] /\ \A d \in Callers : rpc[d] = "idle"
    BY NoIntentType DEF RouterInit
  <1>3. audit = <<>> /\ issued = <<>> /\ routed = 0 /\ forgotten = 0 /\ escaped = 0
    BY DEF RouterInit
  <1> QED
    BY <1>1, <1>2, <1>3 DEF RouterType, Reading

(* Every step of the router keeps it.                                      *)
LEMMA RouterInvNext == RouterInv /\ [RouterNext]_allVars => RouterInv'
  BY RouterIsStoreNext, StoreInvNext, RouterTypeNext DEF RouterInv, StoreInv

(* So it holds for every router.                                           *)
LEMMA RouterInvHolds == RouterSpec => []RouterInv
  BY RouterInvInit, RouterInvNext, PTL DEF RouterSpec

(* The promises of the store survive being called by routes and by others  *)
(* at once: durability, granted targets, a log that tells the truth, and,  *)
(* wherever somebody guards the archived states, stamps and the finality   *)
(* of archiving.                                                           *)
THEOREM RoutesKeepStore ==
    RouterSpec => /\ []CommittedIsDurable /\ []WritesGrantedTarget /\ []LogMatchesRows
                  /\ []ArchivedIsStamped /\ ArchivedIsFinal
  <1>1. RouterInit => RouterInv /\ ArchiveInv
    BY RouterInvInit, ArchiveInvInit DEF RouterInit
  <1>2. RouterInv /\ ArchiveInv /\ [RouterNext]_allVars => RouterInv' /\ ArchiveInv'
    BY RouterInvNext, RouterIsStoreNext, ArchiveInvNext DEF ArchiveInv, RouterInv
  <1>3. RouterInv /\ ArchiveInv =>
          CommittedIsDurable /\ WritesGrantedTarget /\ LogMatchesRows /\ ArchivedIsStamped
    BY LogMatches DEF RouterInv, StoreInv, ArchiveInv, StampInv, ArchivedIsStamped
  <1>4. RouterInv /\ ArchiveInv /\ [RouterNext]_allVars =>
          [\A t \in DOMAIN disk :
             Solo /\ disk[t].state = "ARCHIVED" =>
               /\ ArchivedGuarded => disk'[t].state = "ARCHIVED"
               /\ conf.storage => disk'[t].data = disk[t].data]_vars
    BY RouterIsStoreNext, ArchivedStep DEF RouterInv, ArchiveInv
  <1> QED
    BY <1>1, <1>2, <1>3, <1>4, PTL DEF RouterSpec, ArchivedIsFinal
-----------------------------------------------------------------------------
(* Challenges.                                                             *)

(* With one thread, a key about to be issued is still not in the gate's    *)
(* memory, and everything issued is.                                       *)
OnceInv ==
    Solo =>
        /\ IsInjective(issued)
        /\ Range(issued) \subseteq challenged
        /\ \A c \in Callers :
             rpc[c] = "issue" => <<intent[c].task, intent[c].action>> \notin challenged

(* The thread in route() is the only one there is.                         *)
LEMMA SoloRoute ==
    ASSUME StoreType, RouterType, Solo
    PROVE  \E x \in Callers : /\ load.callers = {x}
                             /\ \A d \in Callers : rpc[d] # "idle" \/ pc[d] # "idle" => d = x
  BY SoloThread DEF RouterType

(* The load and the way the store was constructed never change.            *)
LEMMA RouterKeepsLoad == StoreType /\ RouterType /\ [RouterNext]_allVars => UNCHANGED <<load, conf>>
  BY RouterIsStoreNext, StepIsBusy
     DEF StoreNext, StoreBegins, CreateTask, UpdateTask, TransitionTask, TaskMissing,
         Start, Return, Restart, vars

(* A key is recorded before the next intent of the same thread is          *)
(* evaluated.                                                              *)
LEMMA OnceNext == RouterInv /\ OnceInv /\ [RouterNext]_allVars => OnceInv'
  <1> SUFFICES ASSUME StoreType, RouterType, OnceInv, [RouterNext]_allVars PROVE OnceInv'
    BY DEF RouterInv, StoreInv
  <1>0. UNCHANGED load
    BY RouterKeepsLoad
  <1> SUFFICES ASSUME Solo PROVE OnceInv'
    BY <1>0 DEF OnceInv, Solo
  <1>x. PICK x \in Callers : /\ load.callers = {x}
                            /\ \A d \in Callers : rpc[d] # "idle" \/ pc[d] # "idle" => d = x
    BY SoloRoute
  \* a step after which nobody is about to issue
  <1>1. ASSUME UNCHANGED <<issued, challenged>>, \A d \in Callers : rpc'[d] # "issue"
        PROVE  OnceInv'
    BY <1>1 DEF OnceInv
  <1>2. ASSUME UNCHANGED <<rpc, intent, issued, challenged>> PROVE OnceInv'
    BY <1>2 DEF OnceInv
  <1>3. ASSUME NEW l, l # "issue", Step(x, l) PROVE \A d \in Callers : rpc'[d] # "issue"
    BY <1>3, <1>x DEF Step, RouterType
  <1>4. ASSUME NEW c \in Callers, RouterCall(c) PROVE OnceInv'
    <2>x. c = x
      BY <1>4, <1>x DEF RouterCall
    <2>1. CASE \/ RouteRejected(c) \/ RouteRaises(c)
               \/ \E t \in DOMAIN rows : DirectActivate(c, t)
      BY <1>2, <2>1 DEF RouteRejected, RouteRaises, DirectActivate, routerVars
    <2>2. ASSUME NEW action, NEW ref, NEW score, NEW overrode,
                 Route(x, action, ref, score, overrode)
          PROVE  OnceInv'
      BY <1>1, <1>3, <2>2 DEF Route
    <2> QED
      BY <1>4, <2>x, <2>1, <2>2 DEF RouterCall
  <1>5. ASSUME NEW c \in Callers, RouterStep(c) PROVE OnceInv'
    <2>x. c = x
      BY <1>5, <1>x, StepIsBusy DEF RouterStep, EvaluateRaises, EvaluateChallenge, IssueChallenge,
         HandleCreate, HandleUnresolved, HandleRead, HandleCall, HandleResult, StoreWork
    <2>1. CASE StoreWork(x)
      BY <1>2, <2>1 DEF StoreWork, routerVars
    <2>2. CASE EvaluateRaises(x) \/ HandleCreate(x) \/ HandleUnresolved(x) \/ HandleRead(x)
               \/ HandleCall(x) \/ HandleResult(x)
      <3>1. UNCHANGED <<issued, challenged>> /\ \E l : l # "issue" /\ Step(x, l)
        BY <2>2 DEF EvaluateRaises, HandleCreate, HandleUnresolved, HandleRead, HandleCall,
                    HandleResult, Emit
      <3> QED
        BY <1>1, <1>3, <3>1
    <2>3. CASE EvaluateChallenge(x)
      <3>1. CASE ~ShouldChallenge(x)
        BY <1>1, <1>3, <2>3, <3>1 DEF EvaluateChallenge
      <3>2. CASE ShouldChallenge(x)
        <4>1. /\ intent' = [intent EXCEPT ![x].task = TheTask(intent[x].ref)]
              /\ Step(x, "issue") /\ UNCHANGED <<issued, challenged>>
          BY <2>3, <3>2 DEF EvaluateChallenge
        <4>2. <<TheTask(intent[x].ref), intent[x].action>> \notin challenged
          BY <3>2 DEF ShouldChallenge, Key
        <4>3. intent[x] \in Intent
          BY DEF RouterType
        <4>4. intent'[x].task = TheTask(intent[x].ref) /\ intent'[x].action = intent[x].action
          BY <4>1, <4>3 DEF RouterType, Intent
        <4>5. \A d \in Callers : rpc'[d] = "issue" => d = x
          BY <1>x, <4>1 DEF Step, RouterType
        <4> QED
          BY <4>1, <4>2, <4>4, <4>5, SMT DEF OnceInv
      <3> QED
        BY <3>1, <3>2
    <2>4. CASE IssueChallenge(x)
      <3> DEFINE key == <<intent[x].task, intent[x].action>>
                 n == Len(issued)
      <3>1. /\ challenged' = challenged \cup {key} /\ issued' = Append(issued, key)
            /\ Step(x, "idle") /\ rpc[x] = "issue"
        BY <2>4 DEF IssueChallenge, Emit
      <3>2. key \notin challenged
        BY <3>1 DEF OnceInv
      <3>3. key \in Nat \X Actions
        BY DEF RouterType, Intent
      <3> HIDE DEF key
      <3>4. /\ n \in Nat /\ DOMAIN issued = 1..n /\ DOMAIN issued' = 1..(n + 1)
            /\ issued'[n + 1] = key /\ \A i \in 1..n : issued'[i] = issued[i]
        BY <3>1, <3>3, SeqAppend, SeqLength, SMT DEF RouterType
      <3>5. \A i \in 1..n : issued[i] \in challenged /\ issued[i] # key
        BY <3>2, <3>4 DEF OnceInv, Range
      <3>6. IsInjective(issued')
        <4> SUFFICES ASSUME NEW a \in 1..(n + 1), NEW b \in 1..(n + 1), issued'[a] = issued'[b]
                     PROVE  a = b
          BY <3>4 DEF IsInjective
        <4>1. CASE a \in 1..n /\ b \in 1..n
          BY <3>4, <4>1 DEF OnceInv, IsInjective
        <4>2. CASE ~(a \in 1..n /\ b \in 1..n)
          BY <3>4, <3>5, <4>2, SMT
        <4> QED
          BY <4>1, <4>2
      <3>7. Range(issued') \subseteq challenged'
        BY <3>1, <3>4, <3>5, SMT DEF Range
      <3>8. \A d \in Callers : rpc'[d] # "issue"
        BY <1>3, <3>1
      <3> QED
        BY <3>6, <3>7, <3>8 DEF OnceInv
    <2> QED
      BY <1>5, <2>x, <2>1, <2>2, <2>3, <2>4 DEF RouterStep
  <1>6. CASE RouterRestart
    <2>1. issued' = <<>> /\ \A d \in Callers : rpc'[d] = "idle"
      BY <1>6 DEF RouterRestart
    <2>2. DOMAIN issued' = {}
      BY <2>1, SMT
    <2> QED
      BY <2>1, <2>2 DEF OnceInv, IsInjective, Range
  <1>7. CASE (\E key \in Range(issued) : RecordRejection(key)) \/ UNCHANGED allVars
    BY <1>2, <1>7 DEF RecordRejection, allVars, routerVars
  <1> QED
    BY <1>4, <1>5, <1>6, <1>7 DEF RouterNext

(* One thread never returns two challenges for the same task and action,   *)
(* whatever it routes and however often, until the process restarts.       *)
THEOREM ChallengeOnceHolds == RouterSpec => []ChallengeOnce
  <1>1. RouterInit => OnceInv
    <2> SUFFICES ASSUME RouterInit PROVE OnceInv
      OBVIOUS
    <2>1. DOMAIN issued = {} /\ \A d \in Callers : rpc[d] = "idle"
      BY SMT DEF RouterInit
    <2> QED
      BY <2>1 DEF OnceInv, IsInjective, Range
  <1>2. OnceInv => ChallengeOnce
    BY DEF OnceInv, ChallengeOnce
  <1> QED
    BY <1>1, <1>2, OnceNext, RouterInvHolds, PTL DEF RouterSpec
-----------------------------------------------------------------------------
(* Outcomes.                                                               *)

(* One thread, and a sqlite that does not raise: until its statement is    *)
(* run a route has changed nothing, and a call that was run is carried     *)
(* through to an executed result.                                          *)
RouteOk(c) ==
    /\ rpc[c] \in Reading \/ (rpc[c] = "store" /\ pc[c] \in Asking) => rows = intent[c].seen
    /\ rpc[c] = "call" =>
         /\ intent[c].before = rows[intent[c].task].state
         /\ intent[c].before # Destination(intent[c].action)
    /\ rpc[c] = "store" =>
         /\ intent[c].action = "CREATE_TASK" => op[c].kind = "create" /\ op[c].dest = "CREATED"
         /\ intent[c].action # "CREATE_TASK" =>
              /\ op[c].kind = "transition" /\ op[c].dest \in {"COMPLETED", "ARCHIVED"}
              /\ intent[c].before # op[c].dest
              /\ pc[c] # "idle" => op[c].read.state = intent[c].before
         /\ pc[c] \in {"commit", "reply"} => rows[op[c].task].state = op[c].dest
         /\ pc[c] = "idle" /\ result[c] # "ok" => rows = intent[c].seen
         /\ pc[c] = "idle" /\ result[c] = "ok" => op[c].read.state = op[c].dest

(* With one thread and no fault, every route is as RouteOk says.           *)
RouteInv == Solo /\ ~Faults => \A c \in Callers : RouteOk(c)

(* Asking goes on, or ends, before the statement: nothing has changed.     *)
LEMMA RouteAsks ==
    ASSUME StoreType, RouterType, NEW x \in Callers, RouteOk(x),
           UNCHANGED <<rows, routerVars>>, pc[x] \in Asking,
           \/ pc'[x] \in Asking
           \/ pc'[x] = "idle" /\ result'[x] # "ok",
           op'[x].kind = op[x].kind, op'[x].dest = op[x].dest, op'[x].read = op[x].read
    PROVE  RouteOk(x)'
  <1>1. rpc'[x] = rpc[x] /\ intent'[x] = intent[x] /\ rows' = rows
    BY DEF routerVars
  <1>2. /\ pc[x] # "idle" /\ pc'[x] \notin {"commit", "reply"} /\ rpc[x] \notin Reading
        /\ rpc[x] \in {"store", "idle"}
    BY DEF Asking, RouterType
  <1>3. CASE rpc[x] = "store"
    <2>1. /\ rows' = intent'[x].seen
          /\ intent'[x].action = "CREATE_TASK" => op'[x].kind = "create" /\ op'[x].dest = "CREATED"
      BY <1>1, <1>3 DEF RouteOk
    <2>2. intent'[x].action # "CREATE_TASK" =>
              /\ op'[x].kind = "transition" /\ op'[x].dest \in {"COMPLETED", "ARCHIVED"}
              /\ intent'[x].before # op'[x].dest
              /\ op'[x].read.state = intent'[x].before
      BY <1>1, <1>2, <1>3 DEF RouteOk
    <2> QED
      BY <1>1, <1>2, <1>3, <2>1, <2>2 DEF RouteOk, Asking
  <1>4. CASE rpc[x] = "idle"
    BY <1>1, <1>2, <1>4 DEF RouteOk
  <1> QED
    BY <1>2, <1>3, <1>4

(* A step of the store call of the only thread's route.                    *)
LEMMA RouteStore ==
    ASSUME StoreType, RouterType, ~Faults, NEW x \in Callers, RouteOk(x), StoreWork(x)
    PROVE  RouteOk(x)'
  <1>t. op[x] \in Call /\ pc[x] \in Places /\ UNCHANGED routerVars
    BY DEF StoreType, StoreWork
  <1>p. pc \in [Callers -> Places] /\ op \in [Callers -> Call]
        /\ result \in [Callers -> {"none", "ok", "missing", "invalid", "internal"}]
    BY DEF StoreType
  <1>1. CASE TransportRaises(x) \/ \E reply \in Replies : StorageDenies(x, reply)
    <2>1. /\ pc[x] \in Asking /\ pc'[x] = "idle" /\ result'[x] = "internal"
          /\ UNCHANGED <<rows, op>>
      BY <1>1, <1>p DEF TransportRaises, StorageDenies, Return, Goto, Asking
    <2> QED
      BY <1>t, <2>1, RouteAsks
  <1>2. ASSUME NEW reply \in Replies, RequestStoragePermission(x, reply) PROVE RouteOk(x)'
    <2>1. /\ pc[x] \in Asking /\ pc'[x] = "memory" /\ UNCHANGED rows
      BY <1>2, <1>p DEF RequestStoragePermission, Goto, Asking
    <2>2. op'[x].kind = op[x].kind /\ op'[x].dest = op[x].dest /\ op'[x].read = op[x].read
      BY <1>2, <1>p, <1>t DEF RequestStoragePermission, Call
    <2> QED
      BY <1>t, <2>1, <2>2, RouteAsks DEF Asking
  <1>3. ASSUME NEW reply \in Replies, MemoryValidate(x, reply) PROVE RouteOk(x)'
    <2>1. /\ pc[x] \in Asking /\ UNCHANGED rows
          /\ pc'[x] = "storage" \/ (pc'[x] = "idle" /\ result'[x] = "invalid")
      BY <1>3, <1>p DEF MemoryValidate, Return, Goto, Asking
    <2>2. op'[x].kind = op[x].kind /\ op'[x].dest = op[x].dest /\ op'[x].read = op[x].read
      BY <1>3, <1>p, <1>t, SMTT(20) DEF MemoryValidate, Call
    <2> QED
      BY <1>t, <2>1, <2>2, RouteAsks DEF Asking
  <1>4. CASE AssertTransition(x)
    <2>1. /\ pc[x] \in Asking /\ UNCHANGED <<rows, op>>
          /\ pc'[x] = "storage" \/ (pc'[x] = "idle" /\ result'[x] = "invalid")
      BY <1>4, <1>p DEF AssertTransition, Return, Goto, Asking
    <2> QED
      BY <1>t, <2>1, RouteAsks DEF Asking
  <1>5. ASSUME NEW reply \in Replies, Execute(x, reply) PROVE RouteOk(x)'
    <2>1. /\ pc[x] = "storage" /\ rows' = Written(op[x]) /\ pc'[x] = "commit"
      BY <1>5, <1>p DEF Execute, Goto
    <2>2. /\ op'[x].kind = op[x].kind /\ op'[x].dest = op[x].dest /\ op'[x].read = op[x].read
          /\ op'[x].task = IF op[x].kind = "create" THEN Len(rows) + 1 ELSE op[x].task
      BY <1>5, <1>p, <1>t DEF Execute, Call
    <2>3. CASE rpc[x] = "store"
      <3>1. rows'[op'[x].task].state = op[x].dest
        <4>1. CASE op[x].kind = "create"
          <5>1. op[x].dest = "CREATED"
            BY <2>3, <4>1, SMT DEF RouteOk
          <5>2. rows'[Len(rows) + 1] = [state |-> "CREATED", stamped |-> FALSE, data |-> op[x].data]
            BY <2>1, <4>1, WrittenRows
          <5> QED
            BY <2>2, <4>1, <5>1, <5>2, SMT
        <4>2. CASE op[x].kind = "transition"
          <5>1. /\ op[x].task \in 1..Len(rows)
                /\ rows'[op[x].task] = [rows[op[x].task] EXCEPT !.state = op[x].dest,
                        !.stamped = op[x].dest = "ARCHIVED" \/ op[x].read.stamped]
            BY <2>1, <4>2, WrittenRows
          <5>2. rows[op[x].task] \in Row
            BY <5>1, SeqElement DEF StoreType
          <5> QED
            BY <2>2, <4>2, <5>1, <5>2 DEF Row
        <4> QED
          BY <2>3, <4>1, <4>2 DEF RouteOk
      <3>2. pc[x] # "idle" /\ pc'[x] \notin Asking /\ rpc'[x] = "store" /\ intent'[x] = intent[x]
            /\ pc'[x] # "idle" /\ "store" \notin Reading
        BY <1>t, <2>1, <2>3 DEF routerVars, Asking, Reading
      <3> QED
        BY <2>2, <2>3, <3>1, <3>2 DEF RouteOk
    <2>4. CASE rpc[x] # "store"
      BY <1>t, <2>1, <2>4 DEF RouteOk, routerVars, RouterType
    <2> QED
      BY <2>3, <2>4
  <1>6. CASE Commit(x)
    <2>1. pc[x] = "commit" /\ pc'[x] = "reply" /\ UNCHANGED <<rows, op, result>>
          /\ rpc'[x] = rpc[x] /\ intent'[x] = intent[x] /\ rpc[x] \notin Reading
      BY <1>6, <1>p, <1>t DEF Commit, Goto, routerVars, RouterType
    <2> QED
      BY <2>1 DEF RouteOk, Asking, Reading
  <1>7. CASE Reply(x)
    <2>1. pc[x] = "reply" /\ pc'[x] = "idle" /\ UNCHANGED rows /\ result'[x] = "ok"
          /\ rpc'[x] = rpc[x] /\ intent'[x] = intent[x] /\ rpc[x] \notin Reading
      BY <1>7, <1>p, <1>t DEF Reply, Return, Goto, routerVars, RouterType
    <2>2. /\ op'[x].kind = op[x].kind /\ op'[x].dest = op[x].dest
          /\ op'[x].read = rows[op[x].task]
      BY <1>7, <1>p, <1>t DEF Reply, Call
    <2> QED
      BY <2>1, <2>2 DEF RouteOk, Asking, Reading
  <1> QED
    BY <1>1, <1>2, <1>3, <1>4, <1>5, <1>6, <1>7 DEF StoreWork, StoreStep, SqliteRaises

(* The other steps of the only thread's route.                             *)
LEMMA RouteNext == RouterInv /\ RouteInv /\ [RouterNext]_allVars => RouteInv'
  <1> SUFFICES ASSUME StoreType, RouterType, RouteInv, [RouterNext]_allVars PROVE RouteInv'
    BY DEF RouterInv, StoreInv
  <1>0. UNCHANGED load
    BY RouterKeepsLoad
  <1> SUFFICES ASSUME Solo, ~Faults PROVE RouteInv'
    BY <1>0 DEF RouteInv, Solo
  <1>x. PICK x \in Callers : /\ load.callers = {x}
                            /\ \A d \in Callers : rpc[d] # "idle" \/ pc[d] # "idle" => d = x
    BY SoloRoute
  <1>y. RouteOk(x)
    BY DEF RouteInv
  <1>p. /\ rpc \in [Callers -> Reading \cup {"idle", "store"}] /\ intent \in [Callers -> Intent]
        /\ pc \in [Callers -> Places] /\ op \in [Callers -> Call]
    BY DEF RouterType, StoreType
  <1>1. ASSUME NEW d \in Callers, rpc'[d] = "idle" PROVE RouteOk(d)'
    BY <1>1 DEF RouteOk, Reading
  <1>2. ASSUME \A d \in Callers : d # x => rpc'[d] = rpc[d], RouteOk(x)' PROVE RouteInv'
    <2>1. ASSUME NEW d \in Callers PROVE RouteOk(d)'
      BY <1>1, <1>2, <1>x
    <2> QED
      BY <2>1 DEF RouteInv
  <1>3. ASSUME UNCHANGED <<rows, pc, op, result, rpc, intent>> PROVE RouteInv'
    BY <1>2, <1>3, <1>y DEF RouteOk
  <1>4. ASSUME NEW l, Step(x, l) PROVE rpc'[x] = l /\ \A d \in Callers : d # x => rpc'[d] = rpc[d]
    BY <1>4, <1>p DEF Step
  <1>5. ASSUME NEW c \in Callers, RouterCall(c) PROVE RouteInv'
    <2>x. c = x
      BY <1>5, <1>x DEF RouterCall
    <2>1. CASE RouteRejected(x) \/ RouteRaises(x)
      BY <1>3, <2>1 DEF RouteRejected, RouteRaises, vars
    <2>2. ASSUME NEW t \in DOMAIN rows, DirectActivate(x, t) PROVE RouteInv'
      BY <1>1, <1>2, <2>2 DEF DirectActivate, routerVars
    <2>3. ASSUME NEW action, NEW ref, NEW score, NEW overrode,
                 Route(x, action, ref, score, overrode)
          PROVE  RouteInv'
      <3>1. \E l \in {"challenge", "handler"} : Step(x, l)
        BY <2>3 DEF Route
      <3>2. intent'[x].seen = rows /\ UNCHANGED rows
        BY <2>3, <1>p DEF Route, NoIntent, vars
      <3> QED
        BY <1>2, <1>4, <3>1, <3>2 DEF RouteOk
    <2> QED
      BY <1>5, <2>x, <2>1, <2>2, <2>3 DEF RouterCall
  <1>6. ASSUME NEW c \in Callers, RouterStep(c) PROVE RouteInv'
    <2>x. c = x
      BY <1>6, <1>x, StepIsBusy DEF RouterStep, EvaluateRaises, EvaluateChallenge, IssueChallenge,
         HandleCreate, HandleUnresolved, HandleRead, HandleCall, HandleResult, StoreWork
    <2>i. intent[x] \in Intent
      BY <1>p
    <2>1. CASE StoreWork(x)
      BY <1>2, <1>y, <2>1, RouteStore DEF StoreWork, routerVars
    <2>2. CASE Step(x, "idle")
      BY <1>1, <1>2, <1>4, <2>2
    <2>3. CASE EvaluateChallenge(x)
      <3>1. \E l \in {"issue", "handler"} : Step(x, l)
        BY <2>3 DEF EvaluateChallenge
      <3>2. intent'[x].seen = intent[x].seen /\ UNCHANGED rows
        BY <2>3, <2>i, <1>p, SMT DEF EvaluateChallenge, vars, Intent
      <3>3. rows = intent[x].seen
        BY <1>y, <2>3 DEF EvaluateChallenge, RouteOk, Reading
      <3> QED
        BY <1>2, <1>4, <3>1, <3>2, <3>3 DEF RouteOk
    <2>4. CASE HandleCreate(x)
      <3>1. /\ Step(x, "store") /\ UNCHANGED <<rows, intent>> /\ intent[x].action = "CREATE_TASK"
            /\ pc'[x] = "storage" /\ op'[x].kind = "create" /\ op'[x].dest = "CREATED"
            /\ rpc[x] = "handler"
        BY <2>4, <1>p, SMT DEF HandleCreate, CreateTask, Start, Goto, NoCall
      <3>2. rows = intent[x].seen
        BY <1>y, <3>1 DEF RouteOk, Reading
      <3> QED
        BY <1>2, <1>4, <3>1, <3>2, SMT DEF RouteOk
    <2>5. CASE HandleRead(x) /\ ~Step(x, "idle")
      <3> DEFINE t == TheTask(intent[x].ref)
      <3>1. /\ intent' = [intent EXCEPT ![x].task = t, ![x].before = rows[t].state]
            /\ Step(x, "call") /\ UNCHANGED rows /\ rpc[x] = "handler"
            /\ rows[t].state # Destination(intent[x].action)
        BY <2>5 DEF HandleRead, Emit, vars
      <3>2. /\ intent'[x].seen = intent[x].seen /\ intent'[x].task = t
            /\ intent'[x].before = rows[t].state /\ intent'[x].action = intent[x].action
        BY <1>p, <2>i, <3>1 DEF Intent
      <3>3. rows = intent[x].seen
        BY <1>y, <3>1 DEF RouteOk, Reading
      <3> HIDE DEF t
      <3> QED
        BY <1>2, <1>4, <3>1, <3>2, <3>3, SMT DEF RouteOk, Destination
    <2>6. CASE HandleCall(x)
      <3> DEFINE dest == Destination(intent[x].action)
      <3>1. /\ Step(x, "store") /\ UNCHANGED <<rows, intent>> /\ rpc[x] = "call"
            /\ pc'[x] \in {"preflight", "assert"} /\ op'[x].kind = "transition"
            /\ op'[x].dest = dest /\ op'[x].read = rows[intent[x].task]
        BY <2>6, <1>p DEF HandleCall, TransitionTask, Start, Goto, NoCall
      <3>2. /\ rows = intent[x].seen /\ intent[x].before = rows[intent[x].task].state
            /\ intent[x].before # dest
        BY <1>y, <3>1 DEF RouteOk, Reading
      <3>3. intent[x].action # "CREATE_TASK" /\ dest \in {"COMPLETED", "ARCHIVED"}
        BY <3>1 DEF RouterType, Challengeable, Destination
      <3> HIDE DEF dest
      <3> QED
        BY <1>2, <1>4, <3>1, <3>2, <3>3, SMT DEF RouteOk
    <2> QED
      BY <1>6, <2>x, <2>1, <2>2, <2>3, <2>4, <2>5, <2>6
         DEF RouterStep, EvaluateRaises, IssueChallenge, HandleUnresolved, HandleResult, Emit
  <1>7. CASE RouterRestart
    BY <1>1, <1>7 DEF RouterRestart, RouteInv
  <1>8. CASE (\E key \in Range(issued) : RecordRejection(key)) \/ UNCHANGED allVars
    BY <1>3, <1>8 DEF RecordRejection, allVars, routerVars, vars
  <1> QED
    BY <1>5, <1>6, <1>7, <1>8 DEF RouterNext

(* No route is under way at first.                                         *)
LEMMA RouteInit == RouterInit => RouteInv
  BY DEF RouterInit, RouteInv, RouteOk, Reading

(* Only a route that was executed has run a statement.                     *)
LEMMA RejectedStep ==
    ASSUME StoreType, RouterType, RouteInv, ~Faults, [RouterNext]_allVars,
           NEW c \in load.callers, Solo, rpc[c] # "idle", rpc'[c] = "idle",
           Len(audit') > Len(audit), ~audit'[Len(audit')].ok
    PROVE  rows = intent[c].seen
  <1>c. c \in Callers
    BY DEF Callers, StoreType
  <1>y. RouteOk(c)
    BY <1>c DEF RouteInv
  <1>n. Len(audit) \in Nat
    BY SeqLength DEF RouterType
  <1>p. rpc \in [Callers -> Reading \cup {"idle", "store"}]
    BY DEF RouterType
  <1>1. CASE rpc[c] \in Reading
    BY <1>1, <1>y DEF RouteOk
  <1>2. CASE rpc[c] = "store"
    <2>1. ASSUME NEW d \in Callers, Step(d, "idle") PROVE d = c
      BY <2>1, <1>c, <1>p DEF Step
    <2>2. CASE HandleResult(c)
      <3>1. audit' = Append(audit, IF Executed(c)
                 THEN Success(op[c].task,
                              IF intent[c].action = "CREATE_TASK" THEN "none"
                              ELSE intent[c].before,
                              op[c].read.state)
                 ELSE Failure)
        BY <2>2 DEF HandleResult, Emit
      <3>2. ASSUME NEW e, audit' = Append(audit, e) PROVE audit'[Len(audit')] = e
        BY <3>2, SMT DEF RouterType
      <3>3. ~Executed(c)
        BY <3>1, <3>2, SMT DEF Success
      <3>4. pc[c] = "idle"
        BY <2>2 DEF HandleResult
      <3>5. result[c] # "ok"
        BY <1>2, <1>y, <3>3, <3>4 DEF Executed, RouteOk
      <3> QED
        BY <1>2, <1>y, <3>4, <3>5 DEF RouteOk
    <2>3. CASE RouterRestart
      <3>1. Len(audit') = 0
        BY <2>3 DEF RouterRestart
      <3> QED
        BY <1>n, <3>1, SMT
    <2>4. ASSUME NEW d \in Callers, RouterCall(d) PROVE FALSE
      <3>1. \/ UNCHANGED rpc
            \/ rpc[d] = "idle" /\ \E l \in {"challenge", "handler"} : Step(d, l)
        BY <2>4 DEF RouterCall, RouteRejected, RouteRaises, Route, CanRoute, DirectActivate, routerVars
      <3> QED
        BY <1>c, <1>p, <3>1 DEF Step
    <2>5. ASSUME NEW d \in Callers, RouterStep(d) PROVE HandleResult(c)
      <3>1. CASE UNCHANGED rpc
        BY <3>1
      <3>2. CASE \E l \in {"issue", "handler", "store", "call"} : Step(d, l)
        BY <1>c, <1>p, <3>2 DEF Step
      <3>3. CASE Step(d, "idle")
        BY <1>2, <2>1, <2>5, <3>3
           DEF RouterStep, EvaluateRaises, EvaluateChallenge, IssueChallenge, HandleCreate,
               HandleUnresolved, HandleRead, HandleCall, StoreWork, routerVars
      <3> QED
        BY <2>5, <3>1, <3>2, <3>3
           DEF RouterStep, EvaluateRaises, EvaluateChallenge, IssueChallenge, HandleCreate,
               HandleUnresolved, HandleRead, HandleCall, HandleResult, StoreWork, routerVars, Emit
    <2>6. UNCHANGED rpc => FALSE
      OBVIOUS
    <2> QED
      BY <2>2, <2>3, <2>4, <2>5, <2>6 DEF RouterNext, RecordRejection, allVars, routerVars
  <1> QED
    BY <1>c, <1>p, <1>1, <1>2

(* For one thread and a sqlite that does not raise, a route that ends with *)
(* a rejection has changed no row, whatever made it end.                   *)
THEOREM RejectedLeavesRowsHolds ==
    ASSUME ~Faults
    PROVE  RouterSpec => RejectedLeavesRows
  <1>1. RouterInv /\ RouteInv /\ [RouterNext]_allVars =>
          [\A c \in load.callers :
             Solo /\ rpc[c] # "idle" /\ rpc'[c] = "idle" /\ Len(audit') > Len(audit)
                  /\ ~audit'[Len(audit')].ok
               => rows = intent[c].seen]_allVars
    BY RejectedStep DEF RouterInv, StoreInv
  <1> QED
    BY <1>1, RouteInit, RouteNext, RouterInvHolds, PTL DEF RouterSpec, RejectedLeavesRows
-----------------------------------------------------------------------------
(* Audits.                                                                 *)

(* f maps S onto T one to one.                                             *)
OneToOne(f, S, T) ==
    /\ f \in [S -> T] /\ \A i, j \in S : f[i] = f[j] => i = j
    /\ \A k \in T : \E h \in S : f[h] = k

(* That is what a bijection is.                                            *)
LEMMA BijectionIs ==
    ASSUME NEW S, NEW T, NEW f
    PROVE  f \in Bijection(S, T) <=> OneToOne(f, S, T)
  <1>1. f \in Surjection(S, T) <=> f \in [S -> T] /\ \A k \in T : \E h \in S : f[h] = k
    BY DEF Surjection
  <1>2. f \in Injection(S, T) <=> f \in [S -> T] /\ \A i, j \in S : f[i] = f[j] => i = j
    BY DEF Injection, IsInjective
  <1> QED
    BY <1>1, <1>2 DEF Bijection, OneToOne

(* S has as many members as there are numbers from lo + 1 to hi.           *)
Fills(S, lo, hi) == lo <= hi /\ ExistsBijection(S, (lo + 1)..hi)

(* OneAuditPerRoute, before and after a step.                              *)
LEMMA AuditedIsFills ==
    /\ OneAuditPerRoute <=> Fills(InRoute, forgotten + Len(audit) + escaped, routed)
    /\ OneAuditPerRoute' <=> Fills(InRoute', forgotten' + Len(audit') + escaped', routed')
  BY DEF OneAuditPerRoute, Fills

(* No member fills no number.                                              *)
LEMMA FillsNone ==
    ASSUME NEW n \in Nat
    PROVE  Fills({}, n, n)
  <1> DEFINE f == [i \in {} |-> i]
  <1>1. (n + 1)..n = {}
    BY SMT
  <1>2. f \in Bijection({}, {})
    <2>1. OneToOne(f, {}, {})
      BY DEF OneToOne
    <2> QED
      BY <2>1, BijectionIs
  <1> QED
    BY <1>1, <1>2, SMT DEF Fills, ExistsBijection

(* One more member fills one more number.                                  *)
LEMMA FillsAdd ==
    ASSUME NEW S, NEW lo \in Nat, NEW hi \in Nat, Fills(S, lo, hi), NEW x, x \notin S
    PROVE  Fills(S \cup {x}, lo, hi + 1)
  <1>1. PICK f : OneToOne(f, S, (lo + 1)..hi)
    BY BijectionIs DEF Fills, ExistsBijection
  <1>2. /\ lo <= hi /\ f \in [S -> (lo + 1)..hi] /\ \A i, j \in S : f[i] = f[j] => i = j
        /\ \A k \in (lo + 1)..hi : \E i \in S : f[i] = k
    BY <1>1 DEF Fills, OneToOne
  <1> DEFINE T == S \cup {x}
             g == [i \in T |-> IF i = x THEN hi + 1 ELSE f[i]]
  <1>3. /\ g \in [T -> (lo + 1)..(hi + 1)] /\ g[x] = hi + 1
        /\ \A i \in S : g[i] = f[i] /\ g[i] \in (lo + 1)..hi
    BY <1>2, SMT
  <1> HIDE DEF g
  <1>4. \A i, j \in T : g[i] = g[j] => i = j
    BY <1>2, <1>3, SMT
  <1>5. \A k \in (lo + 1)..(hi + 1) : \E i \in T : g[i] = k
    BY <1>2, <1>3, SMT
  <1>6. g \in Bijection(T, (lo + 1)..(hi + 1))
    <2>1. OneToOne(g, T, (lo + 1)..(hi + 1))
      BY <1>3, <1>4, <1>5 DEF OneToOne
    <2> QED
      BY <2>1, BijectionIs
  <1> QED
    BY <1>2, <1>6, SMT DEF Fills, ExistsBijection

(* One member less fills one number less, the number it had going to the   *)
(* member that had the first.                                              *)
LEMMA FillsRemove ==
    ASSUME NEW S, NEW lo \in Nat, NEW hi \in Nat, Fills(S, lo, hi), NEW x \in S
    PROVE  Fills(S \ {x}, lo + 1, hi)
  <1>1. PICK f : OneToOne(f, S, (lo + 1)..hi)
    BY BijectionIs DEF Fills, ExistsBijection
  <1>2. /\ f \in [S -> (lo + 1)..hi] /\ \A i, j \in S : f[i] = f[j] => i = j
        /\ \A k \in (lo + 1)..hi : \E i \in S : f[i] = k
    BY <1>1 DEF OneToOne
  <1> DEFINE T == S \ {x}
             g == [i \in T |-> IF f[i] = lo + 1 THEN f[x] ELSE f[i]]
  <1>3. f[x] \in (lo + 1)..hi /\ lo + 1 <= hi
    BY <1>2, SMT
  <1>4. \A i \in T : f[i] # f[x] /\ f[i] \in (lo + 1)..hi
    BY <1>2
  <1>5. g \in [T -> (lo + 1 + 1)..hi]
    BY <1>3, <1>4, SMT
  <1>6. \A i \in T : g[i] = IF f[i] = lo + 1 THEN f[x] ELSE f[i]
    OBVIOUS
  <1> HIDE DEF g
  <1>7. \A i, j \in T : g[i] = g[j] => f[i] = f[j]
    BY <1>4, <1>6
  <1>8. ASSUME NEW k \in (lo + 1 + 1)..hi PROVE \E i \in T : g[i] = k
    <2>1. CASE k = f[x]
      <3>1. PICK i \in S : f[i] = lo + 1
        BY <1>2, <1>3, SMT
      <3>2. i \in T
        BY <2>1, <3>1, SMT
      <3> QED
        BY <1>6, <2>1, <3>1, <3>2
    <2>2. CASE k # f[x]
      <3>1. PICK i \in S : f[i] = k
        BY <1>2, SMT
      <3>2. i \in T /\ f[i] # lo + 1
        BY <2>2, <3>1, SMT
      <3> QED
        BY <1>6, <3>1, <3>2
    <2> QED
      BY <2>1, <2>2
  <1>9. \A i, j \in T : g[i] = g[j] => i = j
    BY <1>2, <1>7, SMT
  <1>10. g \in Bijection(T, (lo + 1 + 1)..hi)
    <2>1. OneToOne(g, T, (lo + 1 + 1)..hi)
      BY <1>5, <1>8, <1>9 DEF OneToOne
    <2> QED
      BY <2>1, BijectionIs
  <1> QED
    BY <1>3, <1>10 DEF Fills, ExistsBijection

(* Which numbers are filled does not matter, only how many.                *)
LEMMA FillsShift ==
    ASSUME NEW S, NEW lo \in Nat, NEW hi \in Nat, Fills(S, lo, hi)
    PROVE  Fills(S, lo + 1, hi + 1)
  <1>1. PICK f : OneToOne(f, S, (lo + 1)..hi)
    BY BijectionIs DEF Fills, ExistsBijection
  <1>2. /\ lo <= hi /\ f \in [S -> (lo + 1)..hi] /\ \A i, j \in S : f[i] = f[j] => i = j
        /\ \A k \in (lo + 1)..hi : \E i \in S : f[i] = k
    BY <1>1 DEF Fills, OneToOne
  <1> DEFINE g == [i \in S |-> f[i] + 1]
  <1>3. g \in [S -> (lo + 1 + 1)..(hi + 1)] /\ \A i \in S : f[i] \in Int /\ g[i] = f[i] + 1
    BY <1>2, SMT
  <1> HIDE DEF g
  <1>4. \A i, j \in S : g[i] = g[j] => i = j
    BY <1>2, <1>3, SMT
  <1>5. ASSUME NEW k \in (lo + 1 + 1)..(hi + 1) PROVE \E i \in S : g[i] = k
    <2>1. k - 1 \in (lo + 1)..hi
      BY SMT
    <2>2. PICK i \in S : f[i] = k - 1
      BY <1>2, <2>1
    <2> QED
      BY <1>3, <2>2, SMT
  <1>6. g \in Bijection(S, (lo + 1 + 1)..(hi + 1))
    <2>1. OneToOne(g, S, (lo + 1 + 1)..(hi + 1))
      BY <1>3, <1>4, <1>5 DEF OneToOne
    <2> QED
      BY <2>1, BijectionIs
  <1> QED
    BY <1>2, <1>6, SMT DEF Fills, ExistsBijection

(* A thread leaves route().                                                *)
LEMMA LeavesRoute ==
    ASSUME RouterType, NEW c \in Callers, rpc[c] # "idle", Step(c, "idle")
    PROVE  InRoute' = InRoute \ {c} /\ c \in InRoute
  BY DEF InRoute, Step, RouterType

(* A step that ends a route appends one event, or counts it as forgotten   *)
(* or as escaped.                                                          *)
LEMMA AuditedNext ==
    RouterInv /\ OneAuditPerRoute /\ [RouterNext]_allVars => OneAuditPerRoute'
  <1> SUFFICES ASSUME RouterType, OneAuditPerRoute, [RouterNext]_allVars
               PROVE  OneAuditPerRoute'
    BY DEF RouterInv, StoreInv
  <1> DEFINE lo == forgotten + Len(audit) + escaped
  <1>n. /\ Len(audit) \in Nat /\ lo \in Nat /\ lo + 1 \in Nat
        /\ routed \in Nat /\ forgotten \in Nat /\ escaped \in Nat
    BY SeqLength, SMT DEF RouterType
  <1>f. Fills(InRoute, lo, routed)
    BY AuditedIsFills
  <1>a. ASSUME NEW e, audit' = Append(audit, e) PROVE Len(audit') = Len(audit) + 1
    BY <1>a, SMT DEF RouterType
  <1>1. ASSUME NEW c \in Callers, NEW e, rpc[c] # "idle", Emit(c, e),
               UNCHANGED <<routed, forgotten, escaped>>
        PROVE  OneAuditPerRoute'
    <2>1. InRoute' = InRoute \ {c} /\ c \in InRoute
      BY <1>1, LeavesRoute DEF Emit
    <2>2. Len(audit') = Len(audit) + 1
      BY <1>1, <1>a DEF Emit
    <2>3. lo' = lo + 1
      BY <1>n, <1>1, <2>2, SMT
    <2> QED
      BY <1>n, <1>f, <1>1, <2>1, <2>3, FillsRemove, AuditedIsFills
  <1>2. ASSUME NEW c \in Callers, NEW l, l # "idle", rpc[c] # "idle", Step(c, l),
               UNCHANGED <<audit, routed, forgotten, escaped>>
        PROVE  OneAuditPerRoute'
    <2>1. InRoute' = InRoute
      BY <1>2 DEF InRoute, Step, RouterType
    <2> QED
      BY <1>f, <1>2, <2>1, AuditedIsFills
  <1>3. ASSUME UNCHANGED <<rpc, audit, routed, forgotten, escaped>> PROVE OneAuditPerRoute'
    BY <1>f, <1>3, AuditedIsFills DEF InRoute
  <1>4. ASSUME NEW c \in Callers, RouterCall(c) PROVE OneAuditPerRoute'
    <2>1. CASE RouteRejected(c)
      <3>1. Len(audit') = Len(audit) + 1 /\ routed' = routed + 1 /\ UNCHANGED <<forgotten, escaped>>
        BY <2>1, <1>a DEF RouteRejected
      <3>2. InRoute' = InRoute
        BY <2>1 DEF RouteRejected, InRoute
      <3>3. lo' = lo + 1
        BY <1>n, <3>1, SMT
      <3> QED
        BY <1>n, <1>f, <3>1, <3>2, <3>3, FillsShift, AuditedIsFills
    <2>2. ASSUME NEW action, NEW ref, NEW score, NEW overrode,
                 Route(c, action, ref, score, overrode)
          PROVE  OneAuditPerRoute'
      <3>1. InRoute' = InRoute \cup {c} /\ c \notin InRoute
        BY <2>2 DEF Route, CanRoute, InRoute, Step, RouterType
      <3>2. routed' = routed + 1 /\ lo' = lo
        BY <2>2 DEF Route
      <3> QED
        BY <1>n, <1>f, <3>1, <3>2, FillsAdd, AuditedIsFills
    <2>3. ASSUME NEW t \in DOMAIN rows, DirectActivate(c, t) PROVE OneAuditPerRoute'
      BY <1>3, <2>3 DEF DirectActivate, routerVars
    <2>4. CASE RouteRaises(c)
      <3>1. routed' = routed + 1 /\ lo' = lo + 1
        BY <1>n, <2>4, SMTT(20) DEF RouteRaises
      <3>2. InRoute' = InRoute
        BY <2>4 DEF RouteRaises, InRoute
      <3> QED
        BY <1>n, <1>f, <3>1, <3>2, FillsShift, AuditedIsFills
    <2> QED
      BY <1>4, <2>1, <2>2, <2>3, <2>4 DEF RouterCall
  <1>5. ASSUME NEW c \in Callers, RouterStep(c) PROVE OneAuditPerRoute'
    <2>1. CASE EvaluateRaises(c)
      <3>1. InRoute' = InRoute \ {c} /\ c \in InRoute
        BY <2>1, LeavesRoute DEF EvaluateRaises
      <3>2. routed' = routed /\ lo' = lo + 1
        BY <1>n, <2>1, SMTT(20) DEF EvaluateRaises
      <3> QED
        BY <1>n, <1>f, <3>1, <3>2, FillsRemove, AuditedIsFills
    <2>2. CASE EvaluateChallenge(c) \/ HandleCreate(c) \/ HandleCall(c)
      BY <1>2, <2>2 DEF EvaluateChallenge, HandleCreate, HandleCall
    <2>3. CASE IssueChallenge(c) \/ HandleUnresolved(c) \/ HandleResult(c)
      BY <1>1, <2>3 DEF IssueChallenge, HandleUnresolved, HandleResult
    <2>4. CASE HandleRead(c)
      BY <1>1, <1>2, <2>4 DEF HandleRead
    <2>5. CASE StoreWork(c)
      BY <1>3, <2>5 DEF StoreWork, routerVars
    <2> QED
      BY <1>5, <2>1, <2>2, <2>3, <2>4, <2>5 DEF RouterStep
  <1>6. CASE RouterRestart
    <2>1. /\ audit' = <<>> /\ forgotten' = routed /\ escaped' = 0 /\ routed' = routed
          /\ \A d \in Callers : rpc'[d] = "idle"
      BY <1>6 DEF RouterRestart
    <2>2. InRoute' = {}
      BY <2>1 DEF InRoute
    <2>3. lo' = routed
      BY <1>n, <2>1, SMT
    <2> QED
      BY <1>n, <2>1, <2>2, <2>3, FillsNone, AuditedIsFills
  <1>7. CASE (\E key \in Range(issued) : RecordRejection(key)) \/ UNCHANGED allVars
    BY <1>3, <1>7 DEF RecordRejection, allVars, routerVars
  <1> QED
    BY <1>4, <1>5, <1>6, <1>7 DEF RouterNext

(* For any threads and any intents: every route() that has returned has    *)
(* left exactly one audit event, whichever way it ended, or let the        *)
(* exception of a null score through.                                      *)
THEOREM OneAuditPerRouteHolds == RouterSpec => []OneAuditPerRoute
  <1>1. RouterInit => OneAuditPerRoute
    <2> SUFFICES ASSUME RouterInit PROVE OneAuditPerRoute
      OBVIOUS
    <2>1. InRoute = {} /\ audit = <<>> /\ routed = 0 /\ forgotten = 0 /\ escaped = 0
      BY DEF RouterInit, InRoute
    <2>2. forgotten + Len(audit) + escaped = 0
      BY <2>1, SMT
    <2> QED
      BY <2>1, <2>2, FillsNone, AuditedIsFills
  <1> QED
    BY <1>1, AuditedNext, RouterInvHolds, PTL DEF RouterSpec
-----------------------------------------------------------------------------
(* The audit list and the transition log.                                  *)

(* The call whose record is in the log and whose event is not in the audit *)
(* list yet.                                                               *)
Open == {c \in Callers :
           /\ rpc[c] = "store" /\ op[c].kind = "transition"
           /\ pc[c] \in {"storage", "commit", "reply"} \/ (pc[c] = "idle" /\ result[c] = "ok")}

(* The changes in the audit list match the records of the log one by one;  *)
(* while a call is open, all but the last record, which is that of the     *)
(* call.                                                                   *)
MatchInv ==
    Solo /\ ~Faults /\ ~conf.memory =>
        /\ Open = {} => Matched(EndingAt)
        /\ \A c \in Open :
             /\ Len(log) \in EndingAt
             /\ log[Len(log)].task = op[c].task
             /\ log[Len(log)].from = intent[c].before
             /\ log[Len(log)].to = op[c].dest
             /\ Matched(EndingAt \ {Len(log)})
        /\ \A c \in Callers : rpc[c] = "idle" /\ pc[c] # "idle" => op[c].dest = "ACTIVE"

(* Matched, of any two lists and any positions in them.                    *)
MatchOf(C, a, E, l) ==
    \E f \in Bijection(C, E) :
        /\ \A i, j \in C : i < j => f[i] < f[j]
        /\ \A i \in C : /\ a[i].task = l[f[i]].task
                        /\ a[i].before = l[f[i]].from
                        /\ a[i].after = l[f[i]].to

(* Matched speaks of the audit list and the log, before and after a step.  *)
LEMMA MatchedIsMatchOf ==
    /\ \A E : Matched(E) <=> MatchOf(ChangeAt, audit, E, log)
    /\ Matched(EndingAt)' <=> MatchOf(ChangeAt', audit', EndingAt', log')
    /\ Matched(EndingAt \ {Len(log)})'
         <=> MatchOf(ChangeAt', audit', EndingAt' \ {Len(log')}, log')
  BY DEF Matched, MatchOf

(* Only the matched positions matter.                                      *)
LEMMA MatchSame ==
    ASSUME NEW C, NEW a, NEW b, NEW E, NEW l, NEW m, MatchOf(C, a, E, l),
           \A i \in C : b[i] = a[i], \A k \in E : m[k] = l[k]
    PROVE  MatchOf(C, b, E, m)
  <1>1. PICK f \in Bijection(C, E) :
           /\ \A i, j \in C : i < j => f[i] < f[j]
           /\ \A i \in C : /\ a[i].task = l[f[i]].task
                           /\ a[i].before = l[f[i]].from
                           /\ a[i].after = l[f[i]].to
    BY DEF MatchOf
  <1>2. OneToOne(f, C, E)
    BY BijectionIs
  <1>3. \A i \in C : f[i] \in E
    BY <1>2, SMT DEF OneToOne
  <1> QED
    BY <1>1, <1>3, SMT DEF MatchOf

(* No positions match no positions.                                        *)
LEMMA MatchNone ==
    ASSUME NEW a, NEW l
    PROVE  MatchOf({}, a, {}, l)
  <1> DEFINE f == [i \in {} |-> i]
  <1>1. f \in Bijection({}, {})
    <2>1. OneToOne(f, {}, {})
      BY DEF OneToOne
    <2> QED
      BY <2>1, BijectionIs
  <1> QED
    BY <1>1 DEF MatchOf

(* The event and the record of one more change, each the last of its list. *)
LEMMA MatchBoth ==
    ASSUME NEW n \in Nat, NEW C, C \subseteq 1..n, NEW a, NEW b,
           \A i \in C : b[i] = a[i],
           NEW m \in Nat, NEW E, E \subseteq 1..m, m \in E, NEW l,
           MatchOf(C, a, E \ {m}, l),
           b[n + 1].task = l[m].task, b[n + 1].before = l[m].from, b[n + 1].after = l[m].to
    PROVE  MatchOf(C \cup {n + 1}, b, E, l)
  <1>1. PICK f \in Bijection(C, E \ {m}) :
           /\ \A i, j \in C : i < j => f[i] < f[j]
           /\ \A i \in C : /\ a[i].task = l[f[i]].task
                           /\ a[i].before = l[f[i]].from
                           /\ a[i].after = l[f[i]].to
    BY DEF MatchOf
  <1>b. OneToOne(f, C, E \ {m})
    BY BijectionIs
  <1>2. /\ f \in [C -> E \ {m}] /\ \A i, j \in C : f[i] = f[j] => i = j
        /\ \A k \in E \ {m} : \E i \in C : f[i] = k
    BY <1>b DEF OneToOne
  <1> DEFINE D == C \cup {n + 1}
             g == [i \in D |-> IF i = n + 1 THEN m ELSE f[i]]
  <1>3. /\ n + 1 \notin C /\ g \in [D -> E] /\ g[n + 1] = m
        /\ \A i \in C : g[i] = f[i] /\ g[i] \in E \ {m}
    BY <1>2, SMT
  <1> HIDE DEF g
  <1>4. g \in Bijection(D, E)
    <2>1. \A i, j \in D : g[i] = g[j] => i = j
      BY <1>2, <1>3, SMT
    <2>2. \A k \in E : \E i \in D : g[i] = k
      BY <1>2, <1>3, SMT
    <2>3. OneToOne(g, D, E)
      BY <1>3, <2>1, <2>2 DEF OneToOne
    <2> QED
      BY <2>3, BijectionIs
  <1>5. ASSUME NEW i \in D, NEW j \in D, i < j PROVE g[i] < g[j]
    <2>1. CASE j = n + 1
      <3>1. i \in C
        BY <1>5, <2>1, SMT
      <3>2. g[i] \in 1..m /\ g[i] # m
        BY <1>3, <3>1
      <3> QED
        BY <1>3, <2>1, <3>2, SMT
    <2>2. CASE j \in C
      <3>1. i \in C
        BY <1>5, <2>2, SMT
      <3> QED
        BY <1>1, <1>3, <1>5, <2>2, <3>1
    <2> QED
      BY <2>1, <2>2
  <1>6. ASSUME NEW i \in D
        PROVE  /\ b[i].task = l[g[i]].task
               /\ b[i].before = l[g[i]].from
               /\ b[i].after = l[g[i]].to
    BY <1>1, <1>3, ZenonT(30)
  <1> QED
    BY <1>4, <1>5, <1>6 DEF MatchOf

(* A record of the lifecycle log.                                          *)
Entry == [task : Nat, from : TaskState, to : TaskState]

(* An event that is no change, or a record of an activation, moves no      *)
(* matched position.                                                       *)
LEMMA ChangesKept ==
    ASSUME audit \in Seq(Event),
           \/ audit' = audit
           \/ \E e \in Event : /\ audit' = Append(audit, e)
                              /\ ~(e.ok /\ e.before \notin {"none", e.after})
    PROVE  ChangeAt' = ChangeAt /\ \A i \in ChangeAt : audit'[i] = audit[i]
  <1>1. CASE audit' = audit
    BY <1>1 DEF ChangeAt
  <1>2. ASSUME NEW e \in Event, audit' = Append(audit, e),
               ~(e.ok /\ e.before \notin {"none", e.after})
        PROVE  ChangeAt' = ChangeAt /\ \A i \in ChangeAt : audit'[i] = audit[i]
    <2> DEFINE n == Len(audit)
    <2>1. /\ n \in Nat /\ DOMAIN audit = 1..n /\ DOMAIN audit' = 1..(n + 1)
          /\ audit'[n + 1] = e /\ \A i \in 1..n : audit'[i] = audit[i]
      BY <1>2, SeqAppend, SeqLength, SMT
    <2> HIDE DEF n
    <2> QED
      BY <1>2, <2>1, SMT DEF ChangeAt
  <1> QED
    BY <1>1, <1>2

(* A record of an activation moves no matched position of the log.         *)
LEMMA EndingsKept ==
    ASSUME log \in Seq(Entry),
           log' = log \/ \E r \in Entry : log' = Append(log, r) /\ r.to = "ACTIVE"
    PROVE  EndingAt' = EndingAt /\ \A k \in EndingAt : log'[k] = log[k]
  <1>1. CASE log' = log
    BY <1>1 DEF EndingAt
  <1>2. ASSUME NEW r \in Entry, log' = Append(log, r), r.to = "ACTIVE"
        PROVE  EndingAt' = EndingAt /\ \A k \in EndingAt : log'[k] = log[k]
    <2> DEFINE n == Len(log)
    <2>1. /\ n \in Nat /\ DOMAIN log = 1..n /\ DOMAIN log' = 1..(n + 1)
          /\ log'[n + 1] = r /\ \A k \in 1..n : log'[k] = log[k]
      BY <1>2, SeqAppend, SeqLength, SMT
    <2> HIDE DEF n
    <2> QED
      BY <1>2, <2>1, SMT DEF EndingAt
  <1> QED
    BY <1>1, <1>2

(* A record of an ending opens a match ...                                 *)
LEMMA MatchOpens ==
    ASSUME log \in Seq(Entry), audit' = audit, Matched(EndingAt),
           NEW r \in Entry, log' = Append(log, r), r.to # "ACTIVE"
    PROVE  /\ Len(log') \in EndingAt' /\ log'[Len(log')] = r
           /\ Matched(EndingAt \ {Len(log)})'
  <1> DEFINE n == Len(log)
  <1>1. /\ n \in Nat /\ DOMAIN log = 1..n /\ DOMAIN log' = 1..(n + 1) /\ Len(log') = n + 1
        /\ log'[n + 1] = r /\ \A k \in 1..n : log'[k] = log[k]
    BY SeqAppend, SeqLength, SMT
  <1> HIDE DEF n
  <1>2. /\ n + 1 \in EndingAt' /\ EndingAt' \ {n + 1} = EndingAt
        /\ \A k \in EndingAt : log'[k] = log[k]
    BY <1>1, SMT DEF EndingAt
  <1>3. ChangeAt' = ChangeAt
    BY DEF ChangeAt
  <1>4. MatchOf(ChangeAt, audit, EndingAt, log)
    BY MatchedIsMatchOf
  <1>5. MatchOf(ChangeAt, audit', EndingAt, log')
    BY <1>2, <1>4, MatchSame
  <1> QED
    BY <1>1, <1>2, <1>3, <1>5, MatchedIsMatchOf

(* ... and the event of the route closes it.                               *)
LEMMA MatchCloses ==
    ASSUME audit \in Seq(Event), log \in Seq(Entry), log' = log,
           Len(log) \in EndingAt, Matched(EndingAt \ {Len(log)}),
           NEW e \in Event, audit' = Append(audit, e), e.ok,
           e.before \notin {"none", e.after}, e.task = log[Len(log)].task,
           e.before = log[Len(log)].from, e.after = log[Len(log)].to
    PROVE  Matched(EndingAt)'
  <1> DEFINE n == Len(audit)
             m == Len(log)
  <1>1. /\ n \in Nat /\ DOMAIN audit = 1..n /\ DOMAIN audit' = 1..(n + 1)
        /\ audit'[n + 1] = e /\ \A i \in 1..n : audit'[i] = audit[i]
    BY SeqAppend, SeqLength, SMT
  <1>2. m \in Nat /\ DOMAIN log = 1..m
    BY SeqLength
  <1> HIDE DEF n
  <1>3. ChangeAt \subseteq 1..n /\ ChangeAt' = ChangeAt \cup {n + 1}
    BY <1>1, SMT DEF ChangeAt
  <1>4. EndingAt \subseteq 1..m /\ EndingAt' = EndingAt
    BY <1>2 DEF EndingAt
  <1>5. MatchOf(ChangeAt, audit, EndingAt \ {m}, log)
    BY MatchedIsMatchOf
  <1>6. \A i \in ChangeAt : audit'[i] = audit[i]
    BY <1>1, <1>3
  <1>7. MatchOf(ChangeAt \cup {n + 1}, audit', EndingAt, log)
    BY <1>1, <1>2, <1>3, <1>4, <1>5, <1>6, MatchBoth
  <1> QED
    BY <1>3, <1>4, <1>7, MatchedIsMatchOf

(* Every step of the router keeps the match.                               *)
LEMMA MatchNext == RouterInv /\ RouteInv /\ MatchInv /\ [RouterNext]_allVars => MatchInv'
  <1> SUFFICES ASSUME StoreType, RouterType, LogInv, RouteInv, MatchInv, [RouterNext]_allVars
               PROVE  MatchInv'
    BY DEF RouterInv, StoreInv
  <1>0. UNCHANGED <<load, conf>>
    BY RouterKeepsLoad
  <1> SUFFICES ASSUME Solo, ~Faults, ~conf.memory PROVE MatchInv'
    BY <1>0 DEF MatchInv, Solo
  <1>x. PICK x \in Callers : /\ load.callers = {x}
                            /\ \A d \in Callers : rpc[d] # "idle" \/ pc[d] # "idle" => d = x
    BY SoloRoute
  <1>y. RouteOk(x)
    BY DEF RouteInv
  <1>p. /\ rpc \in [Callers -> Reading \cup {"idle", "store"}] /\ intent \in [Callers -> Intent]
        /\ pc \in [Callers -> Places] /\ op \in [Callers -> Call]
        /\ result \in [Callers -> {"none", "ok", "missing", "invalid", "internal"}]
        /\ audit \in Seq(Event) /\ log \in Seq(Entry)
    BY DEF RouterType, StoreType, Entry
  <1>o. Open \subseteq {x} /\ (x \in Open => rpc[x] = "store")
    BY <1>x DEF Open
  \* what only x can change
  <1>1. ASSUME NEW l, Step(x, l) PROVE rpc'[x] = l /\ \A d \in Callers : d # x => rpc'[d] = rpc[d]
    BY <1>1, <1>p DEF Step
  <1>2. ASSUME NEW l, Goto(x, l) PROVE pc'[x] = l /\ \A d \in Callers : d # x => pc'[d] = pc[d]
    BY <1>2, <1>p DEF Goto
  <1>3. ASSUME \A d \in Callers : d # x => rpc'[d] = rpc[d] /\ pc'[d] = pc[d]
        PROVE  /\ Open' \subseteq {x}
               /\ \A d \in Callers : rpc'[d] = "idle" /\ pc'[d] # "idle" => d = x
    BY <1>3, <1>x DEF Open
  \* no match is open, before or after
  <1>4. ASSUME Open = {}, Open' = {},
               \/ audit' = audit
               \/ \E e \in Event : /\ audit' = Append(audit, e)
                                  /\ ~(e.ok /\ e.before \notin {"none", e.after}),
               log' = log \/ \E r \in Entry : log' = Append(log, r) /\ r.to = "ACTIVE",
               \A d \in Callers : rpc'[d] = "idle" /\ pc'[d] # "idle" => op'[d].dest = "ACTIVE"
        PROVE  MatchInv'
    <2>1. ChangeAt' = ChangeAt /\ \A i \in ChangeAt : audit'[i] = audit[i]
      BY <1>p, <1>4, ChangesKept
    <2>2. EndingAt' = EndingAt /\ \A k \in EndingAt : log'[k] = log[k]
      BY <1>p, <1>4, EndingsKept
    <2>3. MatchOf(ChangeAt, audit, EndingAt, log)
      BY <1>4, MatchedIsMatchOf DEF MatchInv
    <2>4. MatchOf(ChangeAt, audit', EndingAt, log')
      BY <2>1, <2>2, <2>3, MatchSame
    <2>5. Matched(EndingAt)'
      BY <2>1, <2>2, <2>4, MatchedIsMatchOf
    <2> QED
      BY <1>4, <2>5 DEF MatchInv
  \* the match of x stays open
  <1>5. ASSUME x \in Open, Open' = {x}, UNCHANGED <<audit, log>>, intent'[x] = intent[x],
               op'[x].task = op[x].task, op'[x].dest = op[x].dest,
               \A d \in Callers : rpc'[d] = "idle" => pc'[d] = "idle"
        PROVE  MatchInv'
    <2>1. EndingAt' = EndingAt /\ ChangeAt' = ChangeAt
      BY <1>5 DEF EndingAt, ChangeAt
    <2>2. Matched(EndingAt \ {Len(log)})'
      <3>1. MatchOf(ChangeAt, audit, EndingAt \ {Len(log)}, log)
        BY <1>5, MatchedIsMatchOf DEF MatchInv
      <3> QED
        BY <1>5, <2>1, <3>1, MatchedIsMatchOf
    <2> QED
      BY <1>5, <2>1, <2>2, SMTT(20) DEF MatchInv
  \* events that are no change
  <1>6. ASSUME Open = {}, Step(x, "idle"), pc[x] = "idle", UNCHANGED <<pc, log>>,
               \/ audit' = audit
               \/ \E e \in Event : /\ audit' = Append(audit, e)
                                  /\ ~(e.ok /\ e.before \notin {"none", e.after})
        PROVE  MatchInv'
    <2>1. rpc'[x] = "idle" /\ \A d \in Callers : d # x => rpc'[d] = rpc[d]
      BY <1>1, <1>6
    <2>2. Open' = {}
      BY <1>3, <1>6, <2>1 DEF Open
    <2>3. \A d \in Callers : rpc'[d] = "idle" => pc'[d] = "idle"
      BY <1>3, <1>6, <2>1
    <2> QED
      BY <1>4, <1>6, <2>2, <2>3
  \* a route goes on, or a call of it begins
  <1>7. ASSUME Open = {}, Step(x, "challenge") \/ Step(x, "issue") \/ Step(x, "handler") \/ Step(x, "call"),
               UNCHANGED <<pc, log, audit>>
        PROVE  MatchInv'
    <2>1. rpc'[x] \in Reading /\ \A d \in Callers : d # x => rpc'[d] = rpc[d]
      BY <1>1, <1>7 DEF Reading
    <2>2. rpc'[x] # "store" /\ rpc'[x] # "idle"
      BY <2>1 DEF Reading
    <2>3. Open' = {}
      BY <1>3, <1>7, <2>1, <2>2 DEF Open
    <2>4. \A d \in Callers : rpc'[d] = "idle" => pc'[d] = "idle"
      BY <1>3, <1>7, <2>1, <2>2
    <2> QED
      BY <1>4, <1>7, <2>3, <2>4
  <1>f. Failure \in Event /\ ~Failure.ok
    BY DEF Failure, Event, States
  <1>8. ASSUME NEW c \in Callers, RouterCall(c) PROVE MatchInv'
    <2>x. c = x
      BY <1>8, <1>x DEF RouterCall
    <2>1. CASE RouteRejected(x) \/ RouteRaises(x)
      <3>1. /\ audit' = audit \/ audit' = Append(audit, Failure)
            /\ UNCHANGED <<rpc, pc, op, result, log>>
            /\ rpc[x] = "idle" /\ pc[x] = "idle"
        BY <2>1 DEF RouteRejected, RouteRaises, CanRoute, vars
      <3>2. Open = {} /\ Open' = {}
        BY <1>o, <3>1, SMT DEF Open
      <3>3. \A d \in Callers : rpc'[d] = "idle" => pc'[d] = "idle"
        BY <1>x, <3>1
      <3> QED
        BY <1>f, <1>4, <3>1, <3>2, <3>3
    <2>2. ASSUME NEW t \in DOMAIN rows, DirectActivate(x, t) PROVE MatchInv'
      <3>1. /\ UNCHANGED <<rpc, audit, log>> /\ rpc[x] = "idle" /\ Goto(x, "assert")
            /\ op' = [op EXCEPT ![x] = [NoCall EXCEPT !.kind = "transition", !.task = t,
                                                     !.dest = "ACTIVE", !.read = rows[t]]]
        BY <2>2 DEF DirectActivate, TransitionTask, Start, routerVars
      <3>2. op'[x].dest = "ACTIVE"
        BY <1>p, <3>1 DEF NoCall
      <3>3. Open = {} /\ Open' = {}
        BY <1>o, <1>2, <1>3, <3>1 DEF Open
      <3>4. \A d \in Callers : rpc'[d] = "idle" /\ pc'[d] # "idle" => op'[d].dest = "ACTIVE"
        BY <1>2, <1>3, <3>1, <3>2
      <3> QED
        BY <1>4, <3>1, <3>3, <3>4
    <2>3. ASSUME NEW action, NEW ref, NEW score, NEW overrode,
                 Route(x, action, ref, score, overrode)
          PROVE  MatchInv'
      <3>1. /\ Step(x, "challenge") \/ Step(x, "handler")
            /\ UNCHANGED <<pc, log, audit>> /\ rpc[x] = "idle"
        BY <2>3 DEF Route, CanRoute, vars
      <3> QED
        BY <1>o, <1>7, <3>1
    <2> QED
      BY <1>8, <2>x, <2>1, <2>2, <2>3 DEF RouterCall
  <1>9. CASE StoreWork(x)
    <2>1. /\ UNCHANGED <<rpc, intent, audit>> /\ StoreStep(x) /\ pc[x] # "idle"
      BY <1>9, StepIsBusy DEF StoreWork, routerVars
    <2>2. ~conf.storage /\ pc[x] \notin {"preflight", "memory"}
      BY <2>1 DEF StoreType
    <2>3. ASSUME NEW reply PROVE ~StorageDenies(x, reply) \/ op[x].kind = "create"
      <3> SUFFICES ASSUME StorageDenies(x, reply), op[x].kind # "create" PROVE FALSE
        OBVIOUS
      <3>1. conf.enforceStorage
        BY <2>2 DEF StorageDenies, StorageAllows
      <3>2. Len(rows) = 0
        BY <2>2, <3>1, SMT DEF LogInv
      <3>3. op[x].task \in 1..Len(rows)
        BY <2>1 DEF StoreType
      <3> QED
        BY <3>2, <3>3, SMT
    <2>4. CASE rpc[x] # "store"
      <3>1. rpc[x] = "idle" /\ op[x].dest = "ACTIVE" /\ Open = {} /\ Open' = {}
        <4>1. rpc[x] = "idle"
          BY <1>p, <2>1, <2>4 DEF RouterType
        <4>2. \A d \in Callers : rpc[d] # "store"
          BY <1>x, <2>4
        <4> QED
          BY <2>1, <4>1, <4>2 DEF Open, MatchInv
      <3>2. log' = log \/ (pc[x] = "assert" /\ log' = Append(log, Record(x)))
        BY <2>1, <2>2 DEF StoreStep, TransportRaises, RequestStoragePermission, MemoryValidate,
           AssertTransition, StorageDenies, Execute, Commit, SqliteRaises, Reply
      <3>3. Record(x) \in Entry /\ Record(x).to = "ACTIVE"
        BY <1>p, <3>1 DEF Record, Entry, Call, Row
      <3>4. \A d \in Callers : d # x => pc'[d] = pc[d] /\ op'[d] = op[d]
        BY <1>p, <2>1, StoreKeepsCalls
      <3>5. op'[x].dest = op[x].dest
        BY <1>p, <2>1, StoreKeepsCalls
      <3>6. \A d \in Callers : rpc'[d] = "idle" /\ pc'[d] # "idle" => op'[d].dest = "ACTIVE"
        BY <1>x, <2>1, <3>1, <3>4, <3>5
      <3> QED
        BY <1>4, <2>1, <3>1, <3>2, <3>3, <3>6
    <2>5. CASE rpc[x] = "store"
      <3>0. \A d \in Callers : d # x => rpc'[d] = rpc[d] /\ pc'[d] = pc[d]
        BY <1>p, <2>1 DEF StoreStep, TransportRaises, RequestStoragePermission, MemoryValidate,
           AssertTransition, StorageDenies, Execute, Commit, SqliteRaises, Reply, Return, Goto
      <3>i. \A d \in Callers : rpc'[d] = "idle" => pc'[d] = "idle"
        BY <1>3, <2>1, <2>5, <3>0
      <3>1. CASE op[x].kind = "create"
        <4>1. op'[x].kind = "create" /\ log' = log
          <5>1. pc[x] \in {"storage", "commit", "reply"}
            BY <1>p, <2>1, <2>2, <3>1 DEF StoreType, Places, Asking
          <5>2. \/ TransportRaises(x) \/ \E reply \in Replies : StorageDenies(x, reply)
                \/ Commit(x) \/ SqliteRaises(x)
                \/ \E reply \in Replies : Execute(x, reply)
                \/ Reply(x)
            BY <2>1, <5>1 DEF StoreStep, RequestStoragePermission, MemoryValidate, AssertTransition
          <5>3. CASE \E reply \in Replies : Execute(x, reply)
            BY <1>p, <3>1, <5>3, SMTT(20) DEF Execute, Call
          <5>4. CASE Reply(x)
            BY <1>p, <3>1, <5>4 DEF Reply, Call
          <5> QED
            BY <3>1, <5>2, <5>3, <5>4 DEF TransportRaises, StorageDenies, Commit, SqliteRaises
        <4>2. Open = {} /\ Open' = {}
          BY <1>o, <1>3, <3>0, <3>1, <4>1 DEF Open
        <4> QED
          BY <1>4, <2>1, <3>i, <4>1, <4>2
      <3>2. CASE op[x].kind # "create"
        <4>a. /\ op[x].kind = "transition" /\ op[x].dest \in {"COMPLETED", "ARCHIVED"}
              /\ op[x].read.state = intent[x].before
          BY <1>y, <2>1, <2>5, <3>2 DEF RouteOk
        <4>1. CASE AssertTransition(x)
          <5>1. pc[x] = "assert" /\ UNCHANGED op /\ Open = {}
            BY <1>o, <4>1 DEF AssertTransition, Open
          <5>2. CASE log' = log /\ Return(x, "invalid")
            <6>1. pc'[x] = "idle" /\ result'[x] # "ok"
              BY <1>p, <1>2, <5>2 DEF Return
            <6>2. Open' = {}
              BY <1>3, <3>0, <6>1 DEF Open
            <6> QED
              BY <1>4, <2>1, <3>i, <5>1, <5>2, <6>2
          <5>3. CASE log' = Append(log, Record(x)) /\ Goto(x, "storage")
            <6>1. Record(x) \in Entry /\ Record(x).to # "ACTIVE"
              BY <1>p, <4>a DEF Record, Entry, Call, Row
            <6>2. Matched(EndingAt)
              BY <5>1 DEF MatchInv
            <6>3. /\ Len(log') \in EndingAt' /\ log'[Len(log')] = Record(x)
                  /\ Matched(EndingAt \ {Len(log)})'
              BY <1>p, <2>1, <5>3, <6>1, <6>2, MatchOpens
            <6>4. Open' = {x}
              BY <1>2, <1>3, <2>1, <2>5, <3>0, <4>a, <5>1, <5>3 DEF Open
            <6>5. /\ Record(x).task = op'[x].task /\ Record(x).from = intent'[x].before
                  /\ Record(x).to = op'[x].dest
              BY <2>1, <4>a, <5>1 DEF Record
            <6> QED
              BY <3>i, <6>3, <6>4, <6>5 DEF MatchInv
          <5> QED
            BY <4>1, <5>2, <5>3 DEF AssertTransition
        <4>2. CASE (\E reply \in Replies : Execute(x, reply)) \/ Commit(x) \/ Reply(x)
          <5>1. /\ pc[x] \in {"storage", "commit", "reply"} /\ log' = log
                /\ op'[x].task = op[x].task /\ op'[x].dest = op[x].dest
                /\ op'[x].kind = op[x].kind
            BY <1>p, <3>2, <4>2, SMTT(20) DEF Execute, Commit, Reply, Call
          <5>2. pc'[x] \in {"commit", "reply"} \/ (pc'[x] = "idle" /\ result'[x] = "ok")
            BY <1>p, <4>2 DEF Execute, Commit, Reply, Return, Goto
          <5>3. x \in Open /\ Open' = {x}
            BY <1>3, <2>1, <2>5, <3>0, <4>a, <5>1, <5>2, SMTT(20) DEF Open
          <5> QED
            BY <1>5, <2>1, <3>i, <5>1, <5>3
        <4> QED
          BY <2>1, <2>2, <2>3, <3>2, <4>1, <4>2
             DEF StoreStep, TransportRaises, RequestStoragePermission, MemoryValidate, SqliteRaises
      <3> QED
        BY <3>1, <3>2
    <2> QED
      BY <2>4, <2>5
  <1>10. CASE HandleResult(x)
    <2> DEFINE e == Success(op[x].task,
                            IF intent[x].action = "CREATE_TASK" THEN "none"
                            ELSE intent[x].before, op[x].read.state)
    <2>1. /\ rpc[x] = "store" /\ pc[x] = "idle" /\ Step(x, "idle") /\ UNCHANGED <<pc, log, op>>
          /\ audit' = Append(audit, IF Executed(x) THEN e ELSE Failure)
      BY <1>10 DEF HandleResult, Emit, vars
    <2>e. /\ e \in Event /\ e.ok /\ e.task = op[x].task /\ e.after = op[x].read.state
          /\ e.before = IF intent[x].action = "CREATE_TASK" THEN "none" ELSE intent[x].before
      BY <1>p DEF Success, Event, States, Call, Row, Intent
    <2> HIDE DEF e
    <2>2. CASE x \notin Open
      <3>1. Open = {}
        BY <1>o, <2>2
      <3>2. CASE ~Executed(x)
        BY <1>f, <1>6, <2>1, <3>1, <3>2
      <3>3. CASE Executed(x)
        <4>1. op[x].kind # "transition"
          BY <2>1, <2>2, <3>3 DEF Executed, Open
        <4>2. intent[x].action = "CREATE_TASK"
          BY <1>y, <2>1, <4>1 DEF RouteOk
        <4> QED
          BY <1>6, <2>1, <2>e, <3>1, <3>3, <4>2
      <3> QED
        BY <3>2, <3>3
    <2>3. CASE x \in Open
      <3>1. op[x].kind = "transition" /\ result[x] = "ok"
        BY <2>1, <2>3 DEF Open
      <3>2. intent[x].action # "CREATE_TASK"
        BY <1>y, <2>1, <3>1 DEF RouteOk
      <3>3. Executed(x)
        BY <3>1, <3>2 DEF Executed
      <3>4. op[x].read.state = op[x].dest /\ intent[x].before # op[x].dest
        BY <1>y, <2>1, <3>1, <3>2 DEF RouteOk
      <3>5. intent[x].before # "none"
        BY <1>p DEF Intent, TaskState
      <3>6. /\ Len(log) \in EndingAt /\ log[Len(log)].task = op[x].task
            /\ log[Len(log)].from = intent[x].before /\ log[Len(log)].to = op[x].dest
            /\ Matched(EndingAt \ {Len(log)})
        BY <2>3 DEF MatchInv
      <3>7. Matched(EndingAt)'
        BY <1>p, <2>1, <2>e, <3>2, <3>3, <3>4, <3>5, <3>6, MatchCloses
      <3>8. Open' = {} /\ \A d \in Callers : rpc'[d] = "idle" => pc'[d] = "idle"
        BY <1>1, <1>3, <2>1 DEF Open
      <3> QED
        BY <3>7, <3>8 DEF MatchInv
    <2> QED
      BY <2>2, <2>3
  <1>11. ASSUME NEW c \in Callers, RouterStep(c) PROVE MatchInv'
    <2>x. c = x
      BY <1>11, <1>x, StepIsBusy DEF RouterStep, EvaluateRaises, EvaluateChallenge, IssueChallenge,
         HandleCreate, HandleUnresolved, HandleRead, HandleCall, HandleResult, StoreWork
    <2>r. rpc[x] \in Reading => pc[x] = "idle" /\ Open = {}
      BY <1>o DEF RouterType, Reading
    <2>1. CASE EvaluateRaises(x) \/ IssueChallenge(x) \/ HandleUnresolved(x)
      <3>1. /\ Step(x, "idle") /\ UNCHANGED <<pc, log>> /\ rpc[x] \in Reading
            /\ audit' = audit \/ audit' = Append(audit, Failure)
        BY <2>1 DEF EvaluateRaises, IssueChallenge, HandleUnresolved, Emit, vars, Reading
      <3> QED
        BY <1>f, <1>6, <2>r, <3>1
    <2>2. CASE EvaluateChallenge(x)
      <3>1. /\ Step(x, "issue") \/ Step(x, "handler")
            /\ UNCHANGED <<pc, log, audit>> /\ rpc[x] \in Reading
        BY <2>2 DEF EvaluateChallenge, vars, Reading
      <3> QED
        BY <1>7, <2>r, <3>1
    <2>3. CASE HandleRead(x)
      <3> DEFINE t == TheTask(intent[x].ref)
                 e == Success(t, rows[t].state, rows[t].state)
      <3>1. UNCHANGED <<pc, log>> /\ rpc[x] \in Reading
        BY <2>3 DEF HandleRead, vars, Reading
      <3>2. CASE Step(x, "call") /\ UNCHANGED audit
        BY <1>7, <2>r, <3>1, <3>2
      <3>3. CASE Step(x, "idle") /\ audit' = Append(audit, e)
        <4>1. t \in 1..Len(rows)
          BY <2>3, TheTaskIsRow DEF HandleRead
        <4>2. rows[t] \in Row
          BY <4>1, SeqElement DEF StoreType
        <4>3. t \in Nat
          BY <4>1, SMT
        <4>4. e \in Event /\ e.before = e.after
          BY <4>2, <4>3 DEF Success, Event, States, Row
        <4> HIDE DEF e
        <4> QED
          BY <1>6, <2>r, <3>1, <3>3, <4>4
      <3> QED
        BY <2>3, <3>2, <3>3 DEF HandleRead, Emit
    <2>4. CASE HandleCreate(x) \/ HandleCall(x)
      <3>1. /\ Step(x, "store") /\ UNCHANGED <<audit, log>> /\ rpc[x] \in Reading
            /\ \/ Goto(x, "storage") /\ op'[x].kind = "create"
               \/ Goto(x, "assert")
        <4>1. CASE HandleCreate(x)
          <5>1. PICK d : CreateTask(x, d)
            BY <4>1 DEF HandleCreate
          <5>2. op'[x].kind = "create"
            BY <1>p, <5>1 DEF CreateTask, Start, NoCall
          <5> QED
            BY <4>1, <5>1, <5>2 DEF HandleCreate, CreateTask, Start, Reading
        <4>2. CASE HandleCall(x)
          BY <4>2 DEF HandleCall, TransitionTask, Start, Reading
        <4> QED
          BY <2>4, <4>1, <4>2
      <3>2. rpc'[x] = "store" /\ \A d \in Callers : d # x => rpc'[d] = rpc[d] /\ pc'[d] = pc[d]
        BY <1>1, <1>2, <3>1
      <3>3. op'[x].kind = "create" \/ pc'[x] = "assert"
        BY <1>2, <3>1
      <3>4. Open' = {}
        BY <1>3, <3>2, <3>3 DEF Open
      <3>5. \A d \in Callers : rpc'[d] = "idle" => pc'[d] = "idle"
        BY <1>3, <3>2
      <3> QED
        BY <1>4, <2>r, <3>1, <3>4, <3>5
    <2> QED
      BY <1>9, <1>10, <1>11, <2>x, <2>1, <2>2, <2>3, <2>4 DEF RouterStep
  <1>12. CASE RouterRestart
    <2>1. /\ audit' = <<>> /\ log' = <<>>
          /\ \A d \in Callers : rpc'[d] = "idle" /\ pc'[d] = "idle"
      BY <1>12 DEF RouterRestart, Restart
    <2>2. ChangeAt' = {} /\ EndingAt' = {} /\ Open' = {}
      BY <2>1, SMT DEF ChangeAt, EndingAt, Open
    <2>3. Matched(EndingAt)'
      BY <2>2, MatchNone, MatchedIsMatchOf
    <2> QED
      BY <2>1, <2>2, <2>3 DEF MatchInv
  <1>13. CASE (\E key \in Range(issued) : RecordRejection(key)) \/ UNCHANGED allVars
    <2>1. UNCHANGED <<audit, log, rpc, pc, op, result, intent, load, conf>>
      BY <1>13 DEF RecordRejection, allVars, routerVars, vars
    <2>2. Open' = Open /\ EndingAt' = EndingAt /\ ChangeAt' = ChangeAt
      BY <2>1 DEF EndingAt, ChangeAt, Open
    <2>3. /\ Matched(EndingAt)' <=> Matched(EndingAt)
          /\ Matched(EndingAt \ {Len(log)})' <=> Matched(EndingAt \ {Len(log)})
      BY <2>1, <2>2, MatchedIsMatchOf
    <2> QED
      BY <2>1, <2>2, <2>3 DEF MatchInv
  <1> QED
    BY <1>8, <1>11, <1>12, <1>13 DEF RouterNext

(* For one thread, a store without a bridge and a sqlite that does not     *)
(* raise, the audit list and the transition log tell the same story        *)
(* between any two routes: every executed change is a completion or an     *)
(* archiving of the log, in the same order, and no other is missing.       *)
THEOREM AuditMatchesLogHolds ==
    ASSUME ~Faults
    PROVE  RouterSpec => []AuditMatchesLog
  <1>1. RouterInit => MatchInv
    <2> SUFFICES ASSUME RouterInit PROVE MatchInv
      OBVIOUS
    <2>1. ChangeAt = {} /\ EndingAt = {} /\ Open = {}
      BY SMT DEF RouterInit, Init, ChangeAt, EndingAt, Open
    <2>2. Matched(EndingAt)
      BY <2>1, MatchNone, MatchedIsMatchOf
    <2> QED
      BY <2>1, <2>2 DEF MatchInv, RouterInit, Init
  <1>2. MatchInv => AuditMatchesLog
    BY DEF MatchInv, AuditMatchesLog, Open, InRoute
  <1> QED
    BY <1>1, <1>2, MatchNext, RouteInit, RouteNext, RouterInvHolds, PTL DEF RouterSpec
=============================================================================
