------------------------ MODULE ProactiveController ------------------------
(***************************************************************************)
(* The proactive suggestion controller: pattern detection and ranking, the *)
(* guard rails of evaluate() (daily limit, sliding window of evaluations,  *)
(* cooldown per suggestion, confidence threshold, silent mode), the        *)
(* outcomes users report and the calibration of the threshold from them.   *)
(*                                                                         *)
(* evaluate() runs on one thread; its two loops, over the old entries of   *)
(* the window and over the ranked candidates, take a step per turn.        *)
(* Confidences, thresholds and alignments are in hundredths (the precision *)
(* to which a suggestion's key prints an alignment).  A day is any         *)
(* date the caller's clock gives, not necessarily later than the last one. *)
(* Outcomes are kept as totals, the only form in which they are read.      *)
(*                                                                         *)
(* A definition with a suffix after `__` is an erroneous variant of the    *)
(* definition it precedes; no specification uses it.                       *)
(***************************************************************************)
EXTENDS Integers, Sequences, FiniteSets, Functions

CONSTANTS
    DailyLimit,         \* daily_limit
    Window,             \* recent_suggestion_window
    MaxPerWindow,       \* max_suggestions_per_window
    Cooldown,           \* repetition_cooldown_steps
    FirstThreshold,     \* confidence_threshold
    Enabled, MinThreshold, MaxThreshold, StepSize,   \* CalibrationConfig
    OverloadThreshold, DeviationThreshold,  \* PatternDetector
    Days,               \* dates
    Contexts,           \* contexts passed to evaluate()
    MaxEvaluations,     \* bound: calls of evaluate()
    MaxOutcomes         \* bound: outcomes recorded

ASSUME ProactiveAssumption ==
    /\ DailyLimit \in Nat \ {0} /\ Window \in Nat \ {0}
    /\ MaxPerWindow \in Nat \ {0} /\ Cooldown \in Nat \ {0}
    /\ FirstThreshold \in 0..100
    /\ Enabled \in BOOLEAN
    /\ MinThreshold \in Int /\ MaxThreshold \in Int /\ StepSize \in Nat \ {0}
    /\ MinThreshold <= MaxThreshold
    /\ MaxEvaluations \in Nat /\ MaxOutcomes \in Nat

VARIABLES
    at,             \* where evaluate() is: "idle", "evict" or "scan"
    sequence,       \* _evaluation_sequence
    used,           \* _daily_suggestion_count
    recent,         \* _recent_suggestion_steps
    lastStep,       \* _last_suggestion_step_by_key
    threshold,      \* _confidence_threshold
    silent,         \* _silent_mode
    day, ranked,    \* evaluate()'s date and the candidates not yet looked at
    stats,          \* AcceptanceTracker's totals
    made            \* history: the suggestions made, in order

scan  == <<day, ranked>>
pvars == <<at, sequence, used, recent, lastStep, threshold, silent, scan, stats, made>>

-----------------------------------------------------------------------------
(* PatternDetector and SuggestionScorer: pure functions of the context.    *)

AtMost100(x) == IF x < 100 THEN x ELSE 100
Larger(a, b) == IF a > b THEN a ELSE b

\* The key of a suggestion: pattern, task and the numbers that gave rise to it.
BuildKey(type, c, anchor) == <<type, c.task, anchor>>

MissedTask(c) ==
    IF c.overdue > 0
    THEN {[type |-> "missed_task", weight |-> 1, confidence |-> AtMost100(60 + 10 * c.overdue),
           key |-> BuildKey("missed_task", c, <<c.overdue>>)]}
    ELSE {}

Capacity(c) == Larger(OverloadThreshold, c.capacity)

OverloadedDay(c) ==
    IF c.scheduled > Capacity(c)
    THEN {[type |-> "overloaded_day", weight |-> 2,
           confidence |-> AtMost100(65 + 5 * (c.scheduled - Capacity(c))),
           key |-> BuildKey("overloaded_day", c, <<c.scheduled, Capacity(c)>>)]}
    ELSE {}

GoalDeviation(c) ==
    IF c.alignment < DeviationThreshold
    THEN {[type |-> "goal_deviation", weight |-> 3,
           confidence |-> AtMost100(60 + (DeviationThreshold - c.alignment)),
           key |-> BuildKey("goal_deviation", c, <<c.alignment>>)]}
    ELSE {}

Detect(c) == MissedTask(c) \cup OverloadedDay(c) \cup GoalDeviation(c)

Score(p) == p.confidence + p.weight

TypeOrder == [goal_deviation |-> 1, missed_task |-> 2, overloaded_day |-> 3]

\* By score, best first; equal scores by the name of the pattern.
Before(p, q) ==
    Score(p) > Score(q) \/ (Score(p) = Score(q) /\ TypeOrder[p.type] < TypeOrder[q.type])

Rank(patterns) ==
    LET n == Cardinality(patterns)
    IN  CHOOSE r \in Bijection(1..n, patterns) : \A i, j \in 1..n : i < j => Before(r[i], r[j])

-----------------------------------------------------------------------------
(* AcceptanceTracker and CalibrationEngine.                                *)

Attempts(s) == s.accepted + s.rejected + s.ignored

Clamp(x) == IF x < MinThreshold THEN MinThreshold
            ELSE IF x > MaxThreshold THEN MaxThreshold ELSE x

\* update_threshold: up on rejections above 60% or overrides above 40%, else
\* down on acceptances above 70%, within the configured range.

UpdateThreshold(t, s) ==
    IF ~Enabled THEN Clamp(t)
    ELSE IF 10 * s.rejected > 6 * Attempts(s) \/ 10 * s.overrides > 4 * Attempts(s)
    THEN Clamp(Clamp(t) + StepSize)
    ELSE IF 10 * s.accepted > 7 * Attempts(s) THEN Clamp(Clamp(t) - StepSize)
    ELSE Clamp(t)

-----------------------------------------------------------------------------
ProactiveInit ==
    /\ at = "idle" /\ sequence = 0
    /\ used = [d \in Days |-> 0]
    /\ recent = <<>>
    /\ lastStep = [k \in {} |-> 0]
    /\ threshold = FirstThreshold
    /\ silent = FALSE
    /\ day \in Days /\ ranked = <<>>
    /\ stats = [accepted |-> 0, rejected |-> 0, ignored |-> 0, overrides |-> 0]
    /\ made = <<>>

SetSilentMode(b) ==
    /\ at = "idle"
    /\ silent' = b
    /\ UNCHANGED <<at, sequence, used, recent, lastStep, threshold, scan, stats, made>>

Spent(d) == used[d] >= DailyLimit

\* evaluate() begins.  The evaluation counts even when silent or restricted
\* mode, or a spent budget, ends it at once.
EvaluateQuiet(d, restricted) ==
    /\ at = "idle" /\ sequence < MaxEvaluations
    /\ sequence' = sequence + 1
    /\ silent \/ restricted \/ Spent(d)
    /\ UNCHANGED <<at, used, recent, lastStep, threshold, silent, scan, stats, made>>

Evaluate(c, d) ==
    /\ at = "idle" /\ sequence < MaxEvaluations
    /\ ~silent /\ ~Spent(d)
    /\ sequence' = sequence + 1
    /\ day' = d
    /\ ranked' = Rank(Detect(c))
    /\ at' = "evict"
    /\ UNCHANGED <<used, recent, lastStep, threshold, silent, stats, made>>

\* _evict_old_window_entries, one entry at a time.
Evict__early ==
    /\ at = "evict"
    /\ IF recent # <<>> /\ Head(recent) <= sequence - Window + 1
       THEN recent' = Tail(recent) /\ UNCHANGED at
       ELSE at' = "scan" /\ UNCHANGED recent
    /\ UNCHANGED <<sequence, used, lastStep, threshold, silent, scan, stats, made>>

Evict ==
    /\ at = "evict"
    /\ IF recent # <<>> /\ Head(recent) < sequence - Window + 1
       THEN recent' = Tail(recent) /\ UNCHANGED at
       ELSE at' = "scan" /\ UNCHANGED recent
    /\ UNCHANGED <<sequence, used, lastStep, threshold, silent, scan, stats, made>>

RepeatSuppressed(key) ==
    key \in DOMAIN lastStep /\ sequence - lastStep[key] <= Cooldown

\* A candidate below the threshold, or too soon after the same suggestion,
\* is passed over; a spent budget or a full window ends the evaluation.
Full == Spent(day) \/ Len(recent) >= MaxPerWindow

Skip ==
    /\ at = "scan" /\ ranked # <<>>
    /\ \/ Head(ranked).confidence < threshold
       \/ ~Full /\ RepeatSuppressed(Head(ranked).key)
    /\ ranked' = Tail(ranked)
    /\ UNCHANGED <<at, sequence, used, recent, lastStep, threshold, silent, day, stats, made>>

Stop__last ==
    /\ at = "scan" /\ ranked = <<>>
    /\ at' = "idle"
    /\ UNCHANGED <<sequence, used, recent, lastStep, threshold, silent, day, ranked, stats, made>>

Stop ==
    /\ at = "scan"
    /\ ranked # <<>> => (Head(ranked).confidence >= threshold /\ Full)
    /\ ranked' = <<>>
    /\ at' = "idle"
    /\ UNCHANGED <<sequence, used, recent, lastStep, threshold, silent, day, stats, made>>

Suggest ==
    /\ at = "scan" /\ ranked # <<>>
    /\ LET c == Head(ranked) IN
       /\ c.confidence >= threshold /\ ~Full /\ ~RepeatSuppressed(c.key)
       /\ used' = [used EXCEPT ![day] = @ + 1]
       /\ recent' = Append(recent, sequence)
       /\ lastStep' = [k \in DOMAIN lastStep \cup {c.key} |->
                         IF k = c.key THEN sequence ELSE lastStep[k]]
       /\ made' = Append(made, [step |-> sequence, day |-> day, key |-> c.key])
    /\ ranked' = Tail(ranked)
    /\ UNCHANGED <<at, sequence, threshold, silent, day, stats>>

\* An exception leaves evaluate(), which catches none: what it has counted
\* and remembered so far stays.
EvaluateFails ==
    /\ at # "idle"
    /\ at' = "idle" /\ ranked' = <<>>
    /\ UNCHANGED <<sequence, used, recent, lastStep, threshold, silent, day, stats, made>>

\* record_outcome recalibrates with the new totals.
RecordOutcome(outcome, overridden) ==
    /\ at = "idle" /\ Attempts(stats) < MaxOutcomes
    /\ stats' = [x \in DOMAIN stats |->
                    IF x = outcome \/ (overridden /\ x = "overrides") THEN stats[x] + 1 ELSE stats[x]]
    /\ threshold' = UpdateThreshold(threshold, stats')
    /\ UNCHANGED <<at, sequence, used, recent, lastStep, silent, scan, made>>

Recalibrate ==
    /\ at = "idle"
    /\ threshold' = UpdateThreshold(threshold, stats)
    /\ UNCHANGED <<at, sequence, used, recent, lastStep, silent, scan, stats, made>>

Outcomes == {"accepted", "rejected", "ignored"}

Evaluating == Evict \/ Skip \/ Stop \/ Suggest

ProactiveNext ==
    \/ \E b \in BOOLEAN : SetSilentMode(b)
    \/ \E d \in Days, restricted \in BOOLEAN : EvaluateQuiet(d, restricted)
    \/ \E c \in Contexts, d \in Days : Evaluate(c, d)
    \/ Evaluating
    \/ EvaluateFails
    \/ \E o \in Outcomes, overridden \in BOOLEAN : RecordOutcome(o, overridden)
    \/ Recalibrate

ProactiveSpec == ProactiveInit /\ [][ProactiveNext]_pvars

-----------------------------------------------------------------------------
(* Properties.                                                             *)

\* No date ever sees more suggestions than its limit, in whatever order the
\* dates come and however many candidates one evaluation has.
DailyLimitKept ==
    \A d \in Days : Cardinality({i \in DOMAIN made : made[i].day = d}) <= DailyLimit

\* Any MaxPerWindow + 1 suggestions in a row, over the whole life of the
\* controller, spread over more than Window evaluations: no window of that
\* many evaluations holds more than MaxPerWindow, although entries are only
\* evicted by evaluations that get past the early returns.
WindowKept ==
    \A i \in DOMAIN made :
        i + MaxPerWindow \in DOMAIN made => made[i + MaxPerWindow].step - made[i].step >= Window

\* The same suggestion never comes back before the cooldown is over.
CooldownKept ==
    \A i, j \in DOMAIN made :
        i < j /\ made[i].key = made[j].key => made[j].step - made[i].step > Cooldown

\* "Always clamp to [min_threshold, max_threshold]." (calibration_engine.py:55):
\* only the configured initial threshold may lie outside the range.
ThresholdInRange ==
    threshold = FirstThreshold \/ threshold \in MinThreshold..MaxThreshold

\* What evaluate() promises whatever it is called with: the limits of the
\* day, of the window and of repetition, all three at once over the whole
\* life of the controller, and a threshold that calibration keeps in range.
GuardRails == DailyLimitKept /\ WindowKept /\ CooldownKept /\ ThresholdInRange
=============================================================================
