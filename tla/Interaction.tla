---------------------------- MODULE Interaction ----------------------------
(***************************************************************************)
(* One user session: the command line or the text-level voice session      *)
(* feeding the interaction controller, with the identity and the access    *)
(* control it consults, the strategy mode of the reasoning engine, and the *)
(* proactive controller it runs after every executed command.              *)
(*                                                                         *)
(* A text is what the controller can tell apart: blank, a login, a         *)
(* strategy request, an intent the parser recognises, one it does not      *)
(* ("unknown"), or a schedule with a clock time that does not parse.  The  *)
(* command router is the contract that module CommandRouter establishes:   *)
(* a route returns one result and appends one audit event, or raises out   *)
(* of the challenge hook, which runs outside its error handling; and a     *)
(* route that is rejected may have changed the task all the same, if       *)
(* sqlite raised after the statement.  The session is one thread; between  *)
(* two inputs the process may also run proactive cycles of its own and     *)
(* report outcomes (ProactiveNext).                                        *)
(*                                                                         *)
(* A definition with a suffix after `__` is an erroneous variant of the    *)
(* definition it precedes; no specification uses it.                       *)
(***************************************************************************)
EXTENDS ProactiveController

CONSTANT
    Loads           \* bounds: texts read, and evaluations begun and outcomes
                    \* reported from outside the session

VARIABLES
    channel,        \* "cli" or "voice"
    ip,             \* where the session is in its cycle
    identity,       \* tier of _identity
    speaker,        \* tier the last utterance was resolved to (voice)
    intent,         \* intent_type being handled
    outcome,        \* status of the last command result, "none" without one
    effect,         \* history: the state the command left its task in, if it did
    reply,          \* what the language model returned, "none" without a call
    answer,         \* what the user was told
    audits,         \* length of the router's audit list
    left            \* what remains of the load

session == <<channel, ip, identity, speaker, intent, outcome, effect, reply, answer, audits, left>>
ivars   == <<session, pvars>>

Tiers   == {"OWNER", "FAMILY", "GUEST"}
Intents == {"schedule_task", "mark_completed", "cancel_task", "unknown"}
Queries == {"empty", "ambiguous", "clear"}
Replies == {"raises", "mutation", "unsafe", "plain", "blank"}

-----------------------------------------------------------------------------
(* Access control: INTENT_TO_ACTION over the parser's intents, PERMISSIONS.*)

ActionOf ==
    [schedule_task |-> "CREATE", mark_completed |-> "COMPLETE",
     cancel_task |-> "ARCHIVE", strategy |-> "STRATEGY"]

Permissions ==
    [OWNER |-> {"CREATE", "COMPLETE", "ARCHIVE", "STRATEGY"},
     FAMILY |-> {"COMPLETE", "STRATEGY"}, GUEST |-> {"STRATEGY"}]

IsAllowed(i, tier) == i \in DOMAIN ActionOf /\ ActionOf[i] \in Permissions[tier]

\* The router's registry: the action an intent is routed to, and the state
\* its handler leaves the task in when it returns.
Registered ==
    [schedule_task |-> "CREATE_TASK", mark_completed |-> "COMPLETE_TASK",
     cancel_task |-> "CANCEL_TASK"]

Handled == [CREATE_TASK |-> "CREATED", COMPLETE_TASK |-> "COMPLETED", CANCEL_TASK |-> "ARCHIVED"]

\* CommandRouter.route as the session sees it (module CommandRouter): a
\* status and what became of the task.  Creating cannot be challenged.
RouterOutcomes(i) ==
    LET changed == Handled[Registered[i]]
    IN  {<<"executed", changed>>, <<"rejected", "none">>, <<"rejected", changed>>}
          \cup (IF i = "schedule_task" THEN {} ELSE {<<"challenge_required", "none">>})

\* ExplanationEngine: a template for each action executed or challenged; a
\* result with an error code has the template of its error.
Response__by_action(status, action) ==
    CASE action = "CREATE_TASK"   -> "scheduled"
      [] action = "COMPLETE_TASK" -> "completed"
      [] OTHER -> IF status = "challenge_required" THEN "confirm" ELSE "archived"

Response(status, action) ==
    CASE status = "executed" /\ action = "CREATE_TASK"   -> "scheduled"
      [] status = "executed" /\ action = "COMPLETE_TASK" -> "completed"
      [] status = "executed" /\ action = "CANCEL_TASK"   -> "archived"
      [] status = "challenge_required"                   -> "confirm"
      [] OTHER                                           -> "error"

\* generate_strategy: an ambiguous request is answered without the model, a
\* failing model or unsafe text is withheld, and text that looks like a
\* command is replaced by the advisory notice.

Strategy(query, r) ==
    CASE query = "ambiguous"       -> "clarify"
      [] r \in {"raises", "unsafe"} -> "error"
      [] r = "mutation"            -> "advisory"
      [] r = "blank"               -> "none_available"
      [] OTHER                     -> "reply"

-----------------------------------------------------------------------------
Init ==
    /\ ProactiveInit
    /\ channel \in {"cli", "voice"}
    /\ ip = "ready"
    /\ identity = "OWNER" /\ speaker = "OWNER"
    /\ intent = "unknown" /\ outcome = "none" /\ effect = "none"
    /\ reply = "none" /\ answer = "none"
    /\ audits = 0 /\ left \in Loads

Reading ==
    /\ ip = "ready" /\ at = "idle" /\ left.inputs > 0 /\ sequence < MaxEvaluations
    /\ ip' = "text" /\ left' = [left EXCEPT !.inputs = @ - 1]
    /\ intent' = "unknown" /\ outcome' = "none" /\ effect' = "none"
    /\ reply' = "none" /\ answer' = "none"
    /\ UNCHANGED <<channel, audits, pvars>>

\* run_shell reads a line.
ReadLine ==
    /\ channel = "cli"
    /\ Reading
    /\ UNCHANGED <<identity, speaker>>

\* VoiceSession.run_once: after the wake word, the utterance decides the
\* identity before anything is made of its words.
Hear__keeping(tier) ==
    /\ channel = "voice"
    /\ Reading
    /\ speaker' = tier
    /\ identity' = IF answer = "none" THEN tier ELSE identity

Hear(tier) ==
    /\ channel = "voice"
    /\ Reading
    /\ speaker' = tier /\ identity' = tier

Say(a) ==
    /\ answer' = a
    /\ ip' = "ready"

Text == ip = "text" /\ UNCHANGED <<channel, speaker, effect, audits, left, pvars>>

\* handle_input, up to the router.
Blank ==
    /\ Text
    /\ Say(IF channel = "voice" THEN "no_speech" ELSE "prompt")
    /\ UNCHANGED <<identity, intent, outcome, reply>>

Login(tier) ==
    /\ Text
    /\ identity' = tier
    /\ Say("login")
    /\ UNCHANGED <<intent, outcome, reply>>

BadClock ==
    /\ Text
    /\ Say("error")
    /\ UNCHANGED <<identity, intent, outcome, reply>>

\* generate_strategy has no way to the router, so the comparison of the
\* audit counts before and after it never finds a difference.
AskStrategy(query, r) ==
    /\ Text
    /\ UNCHANGED <<identity, intent, outcome>>
    /\ IF ~IsAllowed("strategy", identity)
       THEN Say("denied") /\ UNCHANGED reply
       ELSE IF query = "empty"
       THEN Say("provide") /\ UNCHANGED reply
       ELSE /\ reply' = IF query = "ambiguous" THEN "none" ELSE r
            /\ Say(Strategy(query, r))

Command(i) ==
    /\ Text
    /\ intent' = i
    /\ IF IsAllowed(i, identity)
       THEN ip' = "routing" /\ UNCHANGED answer
       ELSE Say("denied")
    /\ UNCHANGED <<identity, outcome, reply>>

\* The router's result is put into words, and only an executed command is
\* followed by the post action.
RouteReturns(o) ==
    /\ ip = "routing"
    /\ audits' = audits + 1
    /\ outcome' = o[1] /\ effect' = o[2]
    /\ answer' = Response(o[1], Registered[intent])
    /\ ip' = IF o[1] = "executed" THEN "post" ELSE "ready"
    /\ UNCHANGED <<channel, identity, speaker, intent, reply, left, pvars>>

\* The challenge hook raised; handle_input answers with an internal error.
RouteRaises ==
    /\ ip = "routing" /\ intent # "schedule_task"
    /\ Say("error")
    /\ UNCHANGED <<channel, identity, speaker, intent, outcome, effect, reply, audits, left, pvars>>

\* _build_proactive_context: every signal is a constant.
PostContext == [task |-> "task", overdue |-> 0, scheduled |-> 0,
                capacity |-> OverloadThreshold, alignment |-> 100]

PostEvaluate(d) ==
    /\ ip = "post"
    /\ EvaluateQuiet(d, FALSE) \/ Evaluate(PostContext, d)
    /\ ip' = "recalibrate"
    /\ UNCHANGED <<channel, identity, speaker, intent, outcome, effect, reply, answer, audits, left>>

PostRecalibrate ==
    /\ ip = "recalibrate"
    /\ Recalibrate
    /\ ip' = "ready"
    /\ UNCHANGED <<channel, identity, speaker, intent, outcome, effect, reply, answer, audits, left>>

\* An evaluation raises.  The one after a command is outside handle_input's
\* error handling: the shell and the voice session catch the exception, and
\* answer with an internal error although the command was executed.
EvaluationRaises ==
    /\ EvaluateFails
    /\ IF ip = "recalibrate" THEN Say("error") ELSE UNCHANGED <<answer, ip>>
    /\ UNCHANGED <<channel, identity, speaker, intent, outcome, effect, reply, audits, left>>

\* A step of an evaluation, whoever began it, and calls of the controller
\* from outside the session.
Scanning == Evaluating /\ UNCHANGED session
Outside ==
    /\ ip = "ready" /\ at = "idle"
    /\ ProactiveNext
    /\ left' = [left EXCEPT !.evaluations = @ - (sequence' - sequence),
                            !.outcomes = @ - (Attempts(stats') - Attempts(stats))]
    /\ left'.evaluations >= 0 /\ left'.outcomes >= 0
    /\ UNCHANGED <<channel, ip, identity, speaker, intent, outcome, effect, reply, answer, audits>>

SessionStep ==
    \/ Blank \/ BadClock
    \/ \E tier \in Tiers : Login(tier)
    \/ \E query \in Queries, r \in Replies : AskStrategy(query, r)
    \/ \E i \in Intents : Command(i)
    \/ ip = "routing" /\ \E o \in RouterOutcomes(intent) : RouteReturns(o)
    \/ RouteRaises
    \/ \E d \in Days : PostEvaluate(d)
    \/ PostRecalibrate
    \/ Scanning

Next ==
    \/ ReadLine
    \/ \E tier \in Tiers : Hear(tier)
    \/ SessionStep
    \/ EvaluationRaises
    \/ Outside

Spec == Init /\ [][Next]_ivars

\* The session's thread keeps running until the input is answered; no
\* exception need come to its help.
FairSpec == Spec /\ WF_ivars(SessionStep)

-----------------------------------------------------------------------------
(* Properties.                                                             *)

\* "Identity is enforced before mutation execution." (identity_model.md):
\* whatever logins came before, only the owner creates and archives, family
\* only completes, a guest never reaches the router, and a text the parser
\* does not recognise reaches it for nobody; in a voice session a command
\* is executed as the tier of the utterance that carries it, so that a
\* spoken login does not outlast its own cycle.
IdentityEnforced ==
    ip = "routing" =>
        /\ intent # "unknown"
        /\ identity = "OWNER" \/ (identity = "FAMILY" /\ intent = "mark_completed")
        /\ channel = "voice" => identity = speaker

\* What the words of a response claim of the task, and what a command asks.
Claim == [scheduled |-> "CREATED", completed |-> "COMPLETED", archived |-> "ARCHIVED"]
Asked == [schedule_task |-> "CREATED", mark_completed |-> "COMPLETED", cancel_task |-> "ARCHIVED"]

\* When the user is told that a task was scheduled, completed or archived,
\* it is in that state, and that is what was asked for: the parser's intent,
\* the router's registry, its handlers and the templates agree.  A command
\* that took effect is never answered as one that was refused, needs to be
\* confirmed or was advice; "internal error" is the one answer that leaves
\* open whether it did (the post action or sqlite raised).  "Strategy
\* output is advisory-only and non-executable." (cognitive_engine.md): text
\* of the model that is a command or unsafe is never what the user reads.
ToldWhatHappened ==
    ip = "ready" =>
        /\ answer \in DOMAIN Claim => effect = Claim[answer] /\ effect = Asked[intent]
        /\ effect # "none" => answer \in DOMAIN Claim \/ answer = "error"
        /\ answer = "reply" => reply = "plain"

\* Every input is answered and every evaluation ends, whichever guard rails
\* meet: a full window, a spent day, a repeat, a low confidence.
InputAnswered ==
    (ip # "ready" \/ at # "idle") ~> (ip = "ready" /\ at = "idle")
=============================================================================
