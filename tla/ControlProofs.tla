------------------------------ MODULE ControlProofs ------------------------
(***************************************************************************)
(* The guard rails of the proactive controller hold for every daily limit, *)
(* window, cooldown and calibration range, every set of dates and contexts *)
(* and any number of evaluations; a user session only ever drives the      *)
(* controller through its operations, so they hold there too.  What the    *)
(* resource governor keeps holds for any loop threads, transcriptions and  *)
(* sensor readings.                                                        *)
(***************************************************************************)
EXTENDS Interaction, ResourceGovernor, FiniteSetTheorems, TLAPS

(* Zenon tries every leaf that names no other prover.                      *)
USE Zenon

-----------------------------------------------------------------------------
(* Sequences.                                                              *)

(* The empty sequence, and the length of any other.                        *)
LEMMA SeqEmpty ==
    ASSUME NEW S
    PROVE  /\ <<>> \in Seq(S) /\ Len(<<>>) = 0
           /\ \A q \in Seq(S) : q # <<>> => Len(q) \in Nat \ {0}
  BY SMT

(* The length and the positions of a sequence.                             *)
LEMMA SeqLength ==
    ASSUME NEW S, NEW q \in Seq(S)
    PROVE  /\ Len(q) \in Nat
           /\ q \in [1..Len(q) -> S] /\ DOMAIN q = 1..Len(q)
  BY SMT

(* A sequence with one element more.                                       *)
LEMMA SeqAppend ==
    ASSUME NEW S, NEW q \in Seq(S), NEW e \in S
    PROVE  /\ Append(q, e) \in Seq(S) /\ Append(q, e) # <<>>
           /\ Len(Append(q, e)) = Len(q) + 1 /\ Append(q, e)[Len(q) + 1] = e
           /\ \A i \in 1..Len(q) : Append(q, e)[i] = q[i]
  BY SMT

(* The first element of a sequence and the others.                         *)
LEMMA SeqHeadTail ==
    ASSUME NEW S, NEW q \in Seq(S), q # <<>>
    PROVE  /\ Head(q) \in S
           /\ Tail(q) \in Seq(S) /\ Len(Tail(q)) = Len(q) - 1
           /\ \A i \in 1..Len(Tail(q)) : Tail(q)[i] = q[i + 1]
  BY SMT

-----------------------------------------------------------------------------
(* The proactive controller.                                               *)

(* What Append does to a history of suggestions, whose keys have no type.  *)
IsSequence(s) == Len(s) \in Nat /\ s = [i \in 1..Len(s) |-> s[i]]

(* Appending an entry keeps the earlier ones where they are.               *)
LEMMA AppendToHistory ==
    ASSUME NEW s, NEW e, IsSequence(s)
    PROVE  /\ IsSequence(Append(s, e))
           /\ Len(Append(s, e)) = Len(s) + 1
           /\ DOMAIN Append(s, e) = 1..(Len(s) + 1)
           /\ \A i \in 1..Len(s) : Append(s, e)[i] = s[i]
           /\ Append(s, e)[Len(s) + 1] = e
  <1> DEFINE S == {s[i] : i \in 1..Len(s)} \cup {e}
  <1>1. \A i \in 1..Len(s) : s[i] \in S
    OBVIOUS
  <1>2. s \in Seq(S)
    BY <1>1, SMT DEF IsSequence
  <1>3. e \in S
    OBVIOUS
  <1> HIDE DEF S
  <1>4. /\ Append(s, e) \in Seq(S)
        /\ Len(Append(s, e)) = Len(s) + 1
        /\ \A i \in 1..Len(s) : Append(s, e)[i] = s[i]
        /\ Append(s, e)[Len(s) + 1] = e
    BY <1>2, <1>3, SeqAppend, SMT
  <1>5. DOMAIN Append(s, e) = 1..(Len(s) + 1) /\ IsSequence(Append(s, e))
    BY <1>4, SeqLength DEF IsSequence
  <1> QED
    BY <1>4, <1>5
-----------------------------------------------------------------------------
(***************************************************************************)
(* The inductive invariant.  Each guard rail keeps a summary of the        *)
(* suggestions made (a count per date, the steps still in the window, the  *)
(* last step of each key); the invariant says what the summary stands for. *)
(***************************************************************************)
StateOK ==
    /\ sequence \in Nat
    /\ day \in Days
    /\ threshold \in Int
    /\ stats \in [Outcomes \cup {"overrides"} -> Nat]
    /\ recent \in Seq(Nat)

HistoryOK ==
    /\ IsSequence(made)
    /\ \A i \in 1..Len(made) : made[i].step \in Nat /\ made[i].step <= sequence

MadeOn(d) == {i \in DOMAIN made : made[i].day = d}

CountOK ==
    /\ used \in [Days -> Nat]
    /\ \A d \in Days : /\ IsFiniteSet(MadeOn(d))
                       /\ used[d] = Cardinality(MadeOn(d))
                       /\ used[d] <= DailyLimit

\* The deque is the end of the history; what was evicted is out of the window.
WindowOK ==
    /\ Len(recent) <= MaxPerWindow
    /\ Len(recent) <= Len(made)
    /\ \A i \in 1..Len(recent) : recent[i] = made[Len(made) - Len(recent) + i].step
    /\ \A i \in 1..(Len(made) - Len(recent)) : made[i].step < sequence - Window + 1

LastOK ==
    /\ \A k \in DOMAIN lastStep : lastStep[k] \in Nat
    /\ \A i \in 1..Len(made) :
         made[i].key \in DOMAIN lastStep /\ made[i].step <= lastStep[made[i].key]

ProactiveInv ==
    /\ StateOK /\ HistoryOK
    /\ CountOK
    /\ WindowOK /\ WindowKept
    /\ LastOK /\ CooldownKept
    /\ ThresholdInRange

(* A new controller satisfies the invariant.                               *)
LEMMA InvInit == ProactiveInit => ProactiveInv
  <1> SUFFICES ASSUME ProactiveInit PROVE ProactiveInv
    OBVIOUS
  <1>1. Len(made) = 0 /\ DOMAIN made = {} /\ recent \in Seq(Nat) /\ Len(recent) = 0
    BY SMT DEF ProactiveInit
  <1>2. IsSequence(made)
    BY <1>1, SMT DEF ProactiveInit, IsSequence
  <1>3. \A d \in Days : MadeOn(d) = {}
    BY <1>1 DEF MadeOn
  <1>4. CountOK
    BY <1>3, FS_EmptySet, ProactiveAssumption, SMT DEF ProactiveInit, CountOK
  <1>5. StateOK
    BY <1>1, ProactiveAssumption, SMT DEF ProactiveInit, StateOK, Outcomes
  <1> QED
    BY <1>1, <1>2, <1>4, <1>5, ProactiveAssumption, SMTT(20)
       DEF ProactiveInit, ProactiveInv, HistoryOK, WindowOK, WindowKept, LastOK, CooldownKept,
           ThresholdInRange

(* A step that makes no suggestion keeps the count, the cooldown and the   *)
(* window's bound: they speak of the history and of what summarises it.    *)
LEMMA QuietStep ==
    ASSUME ProactiveInv, UNCHANGED <<used, lastStep, made>>,
           sequence' \in Nat, sequence' >= sequence
    PROVE  HistoryOK' /\ CountOK' /\ WindowKept' /\ LastOK' /\ CooldownKept'
  <1>1. HistoryOK'
    BY SMT DEF ProactiveInv, StateOK, HistoryOK, IsSequence
  <1>2. CountOK'
    BY DEF ProactiveInv, CountOK, MadeOn
  <1>3. WindowKept' /\ LastOK' /\ CooldownKept'
    BY DEF ProactiveInv, WindowKept, LastOK, CooldownKept
  <1> QED
    BY <1>1, <1>2, <1>3

(* CalibrationEngine.update_threshold ends in the configured range,        *)
(* whatever the outcomes were.                                             *)
LEMMA UpdateInRange ==
    ASSUME NEW t \in Int, NEW s
    PROVE  UpdateThreshold(t, s) \in MinThreshold..MaxThreshold
  <1>1. \A x \in Int : Clamp(x) \in MinThreshold..MaxThreshold
    BY ProactiveAssumption, SMTT(20) DEF Clamp
  <1>2. Clamp(t) \in Int /\ Clamp(t) + StepSize \in Int /\ Clamp(t) - StepSize \in Int
    BY <1>1, ProactiveAssumption, SMTT(20)
  <1> QED
    BY <1>1, <1>2 DEF UpdateThreshold

(* A step that only advances the evaluation leaves the window's summary    *)
(* true: what is out of the window stays out.                              *)
LEMMA WindowStep ==
    ASSUME ProactiveInv, UNCHANGED <<recent, made>>,
           sequence' \in Nat, sequence' >= sequence
    PROVE  WindowOK'
  <1>1. Len(made) \in Nat /\ Len(recent) \in Nat /\ sequence \in Nat
    BY SeqLength DEF ProactiveInv, StateOK, HistoryOK, IsSequence
  <1>2. \A i \in 1..(Len(made) - Len(recent)) :
          made[i].step \in Nat /\ made[i].step < sequence - Window + 1
    <2> SUFFICES ASSUME NEW i \in 1..(Len(made) - Len(recent))
                 PROVE  made[i].step \in Nat /\ made[i].step < sequence - Window + 1
      OBVIOUS
    <2>1. i \in 1..Len(made)
      BY <1>1, SMT
    <2> QED
      BY <2>1 DEF ProactiveInv, WindowOK, HistoryOK
  <1>3. \A i \in 1..(Len(made) - Len(recent)) : made[i].step < sequence' - Window + 1
    BY <1>1, <1>2, ProactiveAssumption, SMTT(20)
  <1> QED
    BY <1>3 DEF ProactiveInv, WindowOK

(* Dropping the entries that left the window keeps the invariant.          *)
LEMMA EvictStep == ASSUME ProactiveInv, Evict PROVE ProactiveInv'
  <1>1. UNCHANGED <<sequence, used, lastStep, threshold, day, stats, made>>
    BY DEF Evict, scan
  <1>2. HistoryOK' /\ CountOK' /\ WindowKept' /\ LastOK' /\ CooldownKept'
    BY <1>1, QuietStep, SMT DEF ProactiveInv, StateOK
  <1>3. ThresholdInRange'
    BY <1>1 DEF ProactiveInv, ThresholdInRange
  <1>4. CASE recent' = recent
    BY <1>1, <1>2, <1>3, <1>4, WindowStep, SMT DEF ProactiveInv, StateOK
  <1>5. CASE recent # <<>> /\ Head(recent) < sequence - Window + 1 /\ recent' = Tail(recent)
    <2>1. /\ recent' \in Seq(Nat) /\ Len(recent) \in Nat \ {0}
          /\ Len(recent') = Len(recent) - 1
          /\ \A i \in 1..Len(recent') : recent'[i] = recent[i + 1]
      BY <1>5, SeqHeadTail, SeqEmpty DEF ProactiveInv, StateOK
    <2>2. Head(recent) = recent[1]
      BY <1>5, SMT DEF ProactiveInv, StateOK
    <2>3. made[Len(made) - Len(recent) + 1].step < sequence - Window + 1
      BY <1>5, <2>1, <2>2, SMT DEF ProactiveInv, WindowOK
    <2>4. \A i \in 1..(Len(made) - Len(recent')) : made[i].step < sequence - Window + 1
      <3> SUFFICES ASSUME NEW i \in 1..(Len(made) - Len(recent'))
                   PROVE  made[i].step < sequence - Window + 1
        OBVIOUS
      <3>1. \/ i = Len(made) - Len(recent) + 1
            \/ i \in 1..(Len(made) - Len(recent))
        BY <2>1, SMTT(20) DEF ProactiveInv, HistoryOK, IsSequence
      <3> QED
        BY <2>3, <3>1 DEF ProactiveInv, WindowOK
    <2>5. \A i \in 1..Len(recent') : recent'[i] = made[Len(made) - Len(recent') + i].step
      <3> SUFFICES ASSUME NEW i \in 1..Len(recent')
                   PROVE  recent'[i] = made[Len(made) - Len(recent') + i].step
        OBVIOUS
      <3>1. i + 1 \in 1..Len(recent) /\ recent'[i] = recent[i + 1]
        BY <2>1, SMT
      <3>2. recent[i + 1] = made[Len(made) - Len(recent) + (i + 1)].step
        BY <3>1 DEF ProactiveInv, WindowOK
      <3>3. Len(made) - Len(recent) + (i + 1) = Len(made) - Len(recent') + i
        BY <2>1, SMTT(20) DEF ProactiveInv, HistoryOK, IsSequence
      <3> QED
        BY <3>1, <3>2, <3>3
    <2>6. WindowOK'
      BY <1>1, <2>1, <2>4, <2>5, ProactiveAssumption, SMTT(20)
         DEF ProactiveInv, WindowOK, HistoryOK, IsSequence
    <2> QED
      BY <1>1, <1>2, <1>3, <2>1, <2>6 DEF ProactiveInv, StateOK
  <1> QED
    BY <1>4, <1>5 DEF Evict

(* Making a suggestion keeps the invariant: the step in which the day, the *)
(* window and the cooldown are all used up a little more.                  *)
LEMMA SuggestStep == ASSUME ProactiveInv, Suggest PROVE ProactiveInv'
  <1> DEFINE c == Head(ranked)
             e == [step |-> sequence, day |-> day, key |-> c.key]
             n == Len(made)
  <1>1. /\ UNCHANGED <<sequence, threshold, day, stats>>
        /\ ~Full /\ ~RepeatSuppressed(c.key)
        /\ used' = [used EXCEPT ![day] = @ + 1]
        /\ recent' = Append(recent, sequence)
        /\ lastStep' = [k \in DOMAIN lastStep \cup {c.key} |->
                          IF k = c.key THEN sequence ELSE lastStep[k]]
        /\ made' = Append(made, e)
    BY DEF Suggest
  <1>2. /\ e.step = sequence /\ e.day = day /\ e.key = c.key
    OBVIOUS
  <1> HIDE DEF e, c
  <1>3. /\ sequence \in Nat /\ n \in Nat /\ IsSequence(made) /\ DOMAIN made = 1..n
        /\ day \in Days
    BY DEF ProactiveInv, StateOK, HistoryOK, IsSequence
  <1>4. /\ IsSequence(made') /\ Len(made') = n + 1 /\ DOMAIN made' = 1..(n + 1)
        /\ \A i \in 1..n : made'[i] = made[i]
        /\ made'[n + 1] = e
    BY <1>1, <1>3, AppendToHistory, SMT
  <1>5. /\ recent' \in Seq(Nat) /\ Len(recent) \in Nat /\ Len(recent') = Len(recent) + 1
        /\ \A i \in 1..Len(recent) : recent'[i] = recent[i]
        /\ recent'[Len(recent) + 1] = sequence
    BY <1>1, <1>3, SeqAppend, SeqLength, SMT DEF ProactiveInv, StateOK
  <1>6. StateOK' /\ ThresholdInRange'
    BY <1>1, <1>5 DEF ProactiveInv, StateOK, ThresholdInRange
  <1>7. HistoryOK'
    BY <1>1, <1>2, <1>3, <1>4, SMT DEF ProactiveInv, HistoryOK
  <1>8. CountOK'
    <2>1. used' \in [Days -> Nat]
      BY <1>1, <1>3, SMT DEF ProactiveInv, CountOK
    <2> SUFFICES ASSUME NEW d \in Days
                 PROVE  /\ IsFiniteSet(MadeOn(d)')
                        /\ used'[d] = Cardinality(MadeOn(d)')
                        /\ used'[d] <= DailyLimit
      BY <2>1 DEF CountOK
    <2>2. /\ IsFiniteSet(MadeOn(d)) /\ used[d] = Cardinality(MadeOn(d)) /\ used[d] <= DailyLimit
          /\ used[d] \in Nat /\ used[day] < DailyLimit
      BY <1>1, <1>3, ProactiveAssumption, SMT DEF ProactiveInv, CountOK, Full, Spent
    <2>3. CASE d = day
      <3>1. MadeOn(d)' = MadeOn(d) \cup {n + 1}
        BY <1>2, <1>3, <1>4, <2>3, SMT DEF MadeOn
      <3>2. n + 1 \notin MadeOn(d)
        BY <1>3, SMT DEF MadeOn
      <3>3. used'[d] = used[d] + 1
        BY <1>1, <2>3 DEF ProactiveInv, CountOK
      <3> QED
        <4>1. /\ IsFiniteSet(MadeOn(d) \cup {n + 1})
              /\ Cardinality(MadeOn(d) \cup {n + 1}) = Cardinality(MadeOn(d)) + 1
          BY <2>2, <3>2, FS_AddElement
        <4>2. used'[d] <= DailyLimit
          BY <2>2, <2>3, <3>3, ProactiveAssumption, SMT
        <4> QED
          BY <2>2, <3>1, <3>3, <4>1, <4>2
    <2>4. CASE d # day
      <3>1. MadeOn(d)' = MadeOn(d)
        BY <1>2, <1>3, <1>4, <2>4, SMTT(20) DEF MadeOn
      <3>2. used'[d] = used[d]
        BY <1>1, <2>4 DEF ProactiveInv, CountOK
      <3> QED
        BY <2>2, <3>1, <3>2
    <2> QED
      BY <2>3, <2>4
  <1>9. WindowOK' /\ WindowKept'
    <2>1. Len(recent) < MaxPerWindow
      BY <1>1, <1>5, ProactiveAssumption, SMT DEF Full
    <2>2. /\ Len(recent) <= n
          /\ \A i \in 1..(n - Len(recent)) : made[i].step < sequence - Window + 1
          /\ \A i \in 1..Len(recent) : recent[i] = made[n - Len(recent) + i].step
      BY DEF ProactiveInv, WindowOK
    <2>3. \A i \in 1..Len(recent') : recent'[i] = made'[(n + 1) - Len(recent') + i].step
      <3> SUFFICES ASSUME NEW i \in 1..Len(recent')
                   PROVE  recent'[i] = made'[(n + 1) - Len(recent') + i].step
        OBVIOUS
      <3>1. (n + 1) - Len(recent') + i = n - Len(recent) + i
        BY <1>3, <1>5, SMTT(20)
      <3>2. CASE i = Len(recent) + 1
        BY <1>2, <1>3, <1>4, <1>5, <3>1, <3>2, SMTT(20)
      <3>3. CASE i \in 1..Len(recent)
        <4>1. n - Len(recent) + i \in 1..n
          BY <1>3, <1>5, <2>2, <3>3, SMTT(20)
        <4> QED
          BY <1>4, <1>5, <2>2, <3>1, <3>3, <4>1
      <3> QED
        BY <1>5, <3>2, <3>3, SMT
    <2>4. WindowOK'
      <3>1. \A i \in 1..(n - Len(recent)) : i \in 1..n
        BY <1>3, <1>5, SMT
      <3>2. (n + 1) - Len(recent') = n - Len(recent)
        BY <1>3, <1>5, SMT
      <3>3. \A i \in 1..((n + 1) - Len(recent')) : made'[i].step < sequence - Window + 1
        BY <1>4, <2>2, <3>1, <3>2
      <3>4. Len(recent') <= MaxPerWindow /\ Len(recent') <= n + 1
        BY <1>3, <1>5, <2>1, <2>2, ProactiveAssumption, SMTT(20)
      <3> QED
        BY <1>1, <1>4, <2>3, <3>3, <3>4 DEF WindowOK
    <2>5. WindowKept'
      <3> SUFFICES ASSUME NEW i \in 1..(n + 1), i + MaxPerWindow \in 1..(n + 1)
                   PROVE  made'[i + MaxPerWindow].step - made'[i].step >= Window
        BY <1>4 DEF WindowKept
      <3>1. CASE i + MaxPerWindow = n + 1
        <4>1. i \in 1..(n - Len(recent)) /\ i \in 1..n
          BY <1>3, <1>5, <2>1, <3>1, ProactiveAssumption, SMTT(20)
        <4>2. made[i].step < sequence - Window + 1 /\ made[i].step \in Nat
          BY <2>2, <4>1 DEF ProactiveInv, HistoryOK
        <4> QED
          BY <1>2, <1>3, <1>4, <3>1, <4>1, <4>2, ProactiveAssumption, SMTT(20)
      <3>2. CASE i + MaxPerWindow \in 1..n
        <4>1. i \in 1..n
          BY <1>3, <3>2, ProactiveAssumption, SMTT(20)
        <4> QED
          BY <1>3, <1>4, <3>2, <4>1 DEF ProactiveInv, WindowKept
      <3> QED
        BY <1>3, <3>1, <3>2, SMTT(20)
    <2> QED
      BY <2>4, <2>5
  <1>10. LastOK'
    BY <1>1, <1>2, <1>3, <1>4, SMTT(20) DEF ProactiveInv, LastOK, HistoryOK
  <1>11. CooldownKept'
    <2> SUFFICES ASSUME NEW i \in 1..(n + 1), NEW j \in 1..(n + 1),
                        i < j, made'[i].key = made'[j].key
                 PROVE  made'[j].step - made'[i].step > Cooldown
      BY <1>4 DEF CooldownKept
    <2>1. i \in 1..n /\ made'[i] = made[i]
      BY <1>3, <1>4, SMTT(20)
    <2>2. CASE j = n + 1
      <3>1. made[i].key = c.key
        BY <1>2, <1>4, <2>1, <2>2
      <3>2. c.key \in DOMAIN lastStep /\ made[i].step <= lastStep[c.key]
            /\ lastStep[c.key] \in Nat /\ made[i].step \in Nat
        BY <2>1, <3>1 DEF ProactiveInv, LastOK, HistoryOK
      <3>3. sequence - lastStep[c.key] > Cooldown
        BY <1>1, <1>3, <3>2, ProactiveAssumption, SMT DEF RepeatSuppressed
      <3> QED
        BY <1>2, <1>3, <1>4, <2>1, <2>2, <3>2, <3>3, ProactiveAssumption, SMTT(20)
    <2>3. CASE j \in 1..n
      BY <1>3, <1>4, <2>1, <2>3 DEF ProactiveInv, CooldownKept
    <2> QED
      BY <1>3, <2>2, <2>3, SMT
  <1> QED
    BY <1>6, <1>7, <1>8, <1>9, <1>10, <1>11 DEF ProactiveInv

(* Every other step makes no suggestion and evicts nothing.                *)
LEMMA OtherStep ==
    ASSUME ProactiveInv, UNCHANGED <<used, lastStep, made, recent>>,
           sequence' \in Nat, sequence' >= sequence, day' \in Days,
           stats' \in [Outcomes \cup {"overrides"} -> Nat],
           \/ threshold' = threshold
           \/ \E s : threshold' = UpdateThreshold(threshold, s)
    PROVE  ProactiveInv'
  <1>1. HistoryOK' /\ CountOK' /\ WindowKept' /\ LastOK' /\ CooldownKept'
    BY QuietStep
  <1>2. WindowOK'
    BY WindowStep
  <1>3. threshold' \in Int /\ ThresholdInRange'
    <2>1. CASE threshold' = threshold
      BY <2>1 DEF ProactiveInv, StateOK, ThresholdInRange
    <2>2. ASSUME NEW s, threshold' = UpdateThreshold(threshold, s)
          PROVE  threshold' \in MinThreshold..MaxThreshold
      BY <2>2, UpdateInRange DEF ProactiveInv, StateOK
    <2> QED
      BY <2>1, <2>2, ProactiveAssumption, SMT DEF ThresholdInRange
  <1> QED
    BY <1>1, <1>2, <1>3 DEF ProactiveInv, StateOK

(* An evaluation may be of any context.                                    *)
LEMMA BeginStep ==
    ASSUME ProactiveInv, NEW x, NEW d \in Days, Evaluate(x, d) \/ EvaluateQuiet(d, FALSE)
    PROVE  ProactiveInv'
  <1>0. sequence \in Nat /\ day \in Days /\ stats \in [Outcomes \cup {"overrides"} -> Nat]
    BY DEF ProactiveInv, StateOK
  <1>1. CASE Evaluate(x, d)
    BY <1>0, <1>1, OtherStep, SMTT(20) DEF Evaluate
  <1>2. CASE EvaluateQuiet(d, FALSE)
    BY <1>0, <1>2, OtherStep, SMTT(20) DEF EvaluateQuiet, scan
  <1> QED
    BY <1>1, <1>2

(* Every step of the controller keeps the invariant.                       *)
LEMMA InvNext == ProactiveInv /\ [ProactiveNext]_pvars => ProactiveInv'
  <1> SUFFICES ASSUME ProactiveInv, [ProactiveNext]_pvars PROVE ProactiveInv'
    OBVIOUS
  <1> USE DEF scan
  <1>0. sequence \in Nat /\ day \in Days /\ stats \in [Outcomes \cup {"overrides"} -> Nat]
    BY DEF ProactiveInv, StateOK
  <1>1. ASSUME NEW b \in BOOLEAN, SetSilentMode(b) PROVE ProactiveInv'
    BY <1>0, <1>1, OtherStep, SMT DEF SetSilentMode
  <1>2. ASSUME NEW d \in Days, NEW r \in BOOLEAN, EvaluateQuiet(d, r) PROVE ProactiveInv'
    BY <1>0, <1>2, OtherStep, SMT DEF EvaluateQuiet
  <1>3. ASSUME NEW x \in Contexts, NEW d \in Days, Evaluate(x, d) PROVE ProactiveInv'
    BY <1>3, BeginStep
  <1>4. CASE Evict
    BY <1>4, EvictStep
  <1>5. CASE Skip
    BY <1>0, <1>5, OtherStep, SMT DEF Skip
  <1>6. CASE Stop
    BY <1>0, <1>6, OtherStep, SMTT(20) DEF Stop
  <1>7. CASE Suggest
    BY <1>7, SuggestStep
  <1>8. ASSUME NEW o \in Outcomes, NEW b \in BOOLEAN, RecordOutcome(o, b) PROVE ProactiveInv'
    <2>1. stats' \in [Outcomes \cup {"overrides"} -> Nat]
      BY <1>0, <1>8, SMT DEF RecordOutcome
    <2>2. /\ UNCHANGED <<used, lastStep, made, recent, sequence, day>>
          /\ threshold' = UpdateThreshold(threshold, stats')
      BY <1>8 DEF RecordOutcome
    <2>3. \E s : threshold' = UpdateThreshold(threshold, s)
      BY <2>2
    <2> QED
      BY <1>0, <2>1, <2>2, <2>3, OtherStep, SMTT(20)
  <1>9. CASE Recalibrate
    BY <1>0, <1>9, OtherStep, SMTT(20) DEF Recalibrate
  <1>10. CASE UNCHANGED pvars
    BY <1>0, <1>10, OtherStep, SMTT(20) DEF pvars
  <1>11. CASE EvaluateFails
    BY <1>0, <1>11, OtherStep, SMTT(20) DEF EvaluateFails
  <1> QED
    BY <1>1, <1>2, <1>3, <1>4, <1>5, <1>6, <1>7, <1>8, <1>9, <1>10, <1>11
       DEF ProactiveNext, Evaluating

(* The invariant holds throughout.                                         *)
LEMMA InvHolds == ProactiveSpec => []ProactiveInv
  BY InvInit, InvNext, PTL DEF ProactiveSpec

(* The guard rails follow from the invariant.                              *)
LEMMA InvRails == ProactiveInv => GuardRails
  BY DEF ProactiveInv, CountOK, GuardRails, DailyLimitKept, MadeOn

(* evaluate() gives no date more than daily_limit suggestions and no       *)
(* recent_suggestion_window evaluations in a row more than                 *)
(* max_suggestions_per_window, repeats none within                         *)
(* repetition_cooldown_steps, and calibration keeps the threshold in its   *)
(* configured range, for every configuration.                              *)
THEOREM GuardRailsHold == ProactiveSpec => []GuardRails
  BY InvHolds, InvRails, PTL
-----------------------------------------------------------------------------
(***************************************************************************)
(* The session.                                                            *)
(***************************************************************************)

(* Commands, logins and strategy requests of a user session, interleaved   *)
(* with the process's own proactive cycles, never break the guard rails:   *)
(* the controller is only reached through evaluate(), record_outcome(),    *)
(* recalibrate_threshold() and set_silent_mode().                          *)
THEOREM SessionKeepsGuardRails == Spec => []GuardRails
  <1>1. Init => ProactiveInv
    BY InvInit DEF Init
  <1>2. ProactiveInv /\ [Next]_ivars => ProactiveInv'
    <2> SUFFICES ASSUME ProactiveInv, [Next]_ivars PROVE ProactiveInv'
      OBVIOUS
    <2>1. CASE UNCHANGED pvars
      BY <2>1, InvNext
    <2>2. CASE ProactiveNext
      BY <2>2, InvNext
    <2>3. ASSUME NEW d \in Days, PostEvaluate(d) PROVE ProactiveInv'
      BY <2>3, BeginStep DEF PostEvaluate
    <2>4. CASE PostRecalibrate
      BY <2>4, InvNext DEF PostRecalibrate, ProactiveNext
    <2>5. CASE Scanning
      BY <2>5, InvNext DEF Scanning, ProactiveNext
    <2>6. CASE Outside \/ EvaluationRaises
      BY <2>2, <2>6 DEF Outside, EvaluationRaises, ProactiveNext
    <2>7. CASE ReadLine \/ \E tier \in Tiers : Hear(tier)
      BY <2>1, <2>7 DEF ReadLine, Hear, Reading
    <2>8. CASE \/ Blank \/ BadClock
               \/ \E tier \in Tiers : Login(tier)
               \/ \E query \in Queries, r \in Replies : AskStrategy(query, r)
               \/ \E i \in Intents : Command(i)
      BY <2>1, <2>8 DEF Blank, BadClock, Login, AskStrategy, Command, Text
    <2>9. CASE RouteRaises \/ \E o \in RouterOutcomes(intent) : RouteReturns(o)
      BY <2>1, <2>9 DEF RouteReturns, RouteRaises
    <2>10. CASE UNCHANGED ivars
      BY <2>1, <2>10 DEF ivars
    <2> QED
      BY <2>3, <2>4, <2>5, <2>6, <2>7, <2>8, <2>9, <2>10 DEF Next, SessionStep
  <1> QED
    BY <1>1, <1>2, InvRails, PTL DEF Spec

(* Identity is enforced before a command reaches the router: for every     *)
(* sequence of logins, utterances and commands, only the owner creates and *)
(* archives, family only completes, guests and unrecognised texts never    *)
(* get there, and a voice command runs as the tier of its own utterance.   *)
IdentityInv ==
    /\ IdentityEnforced
    /\ identity \in Tiers
    /\ ip = "text" /\ channel = "voice" => identity = speaker

(* Whatever was typed, spoken or logged in before, handle_input lets a     *)
(* command through to the router only for a tier that may do it, and in a  *)
(* voice session only as the speaker of that utterance.                    *)
THEOREM IdentityHolds == Spec => []IdentityEnforced
  <1> USE DEF IdentityEnforced, IdentityInv
  <1>1. Init => IdentityInv
    BY DEF Init, Tiers
  <1>2. IdentityInv /\ [Next]_ivars => IdentityInv'
    <2> SUFFICES ASSUME IdentityInv, [Next]_ivars PROVE IdentityInv'
      OBVIOUS
    <2>1. CASE ReadLine
      BY <2>1 DEF ReadLine, Reading
    <2>2. ASSUME NEW tier \in Tiers, Hear(tier) PROVE IdentityInv'
      BY <2>2 DEF Hear, Reading
    <2>3. CASE Blank \/ BadClock
      BY <2>3 DEF Blank, BadClock, Say
    <2>4. ASSUME NEW tier \in Tiers, Login(tier) PROVE IdentityInv'
      BY <2>4 DEF Login, Say
    <2>5. ASSUME NEW query, NEW r, AskStrategy(query, r) PROVE IdentityInv'
      BY <2>5 DEF AskStrategy, Say
    <2>6. ASSUME NEW i \in Intents, Command(i) PROVE IdentityInv'
      <3>1. CASE ~IsAllowed(i, identity)
        BY <2>6, <3>1 DEF Command, Say
      <3>2. CASE IsAllowed(i, identity)
        <4>1. ip' = "routing" /\ intent' = i /\ UNCHANGED <<identity, channel, speaker>> /\ ip = "text"
          BY <2>6, <3>2 DEF Command, Text
        <4>2. i \in DOMAIN ActionOf /\ ActionOf[i] \in Permissions[identity]
          BY <3>2 DEF IsAllowed
        <4>3. i # "unknown"
          BY <4>2 DEF ActionOf
        <4>4. identity = "OWNER" \/ (identity = "FAMILY" /\ i = "mark_completed")
          BY <2>6, <4>2, <4>3, SMT DEF ActionOf, Permissions, Intents, Tiers
        <4> QED
          BY <4>1, <4>3, <4>4
      <3> QED
        BY <3>1, <3>2
    <2>7. ASSUME NEW o, RouteReturns(o) PROVE IdentityInv'
      BY <2>7 DEF RouteReturns
    <2>8. ASSUME NEW d \in Days, PostEvaluate(d) PROVE IdentityInv'
      BY <2>8 DEF PostEvaluate
    <2>9. CASE PostRecalibrate
      BY <2>9 DEF PostRecalibrate
    <2>10. CASE Scanning \/ UNCHANGED ivars
      BY <2>10 DEF Scanning, ivars, session
    <2>11. CASE Outside
      BY <2>11 DEF Outside
    <2>12. CASE RouteRaises
      BY <2>12 DEF RouteRaises, Say
    <2>13. CASE EvaluationRaises
      BY <2>13 DEF EvaluationRaises, Say
    <2> QED
      BY <2>1, <2>2, <2>3, <2>4, <2>5, <2>6, <2>7, <2>8, <2>9, <2>10, <2>11, <2>12, <2>13
         DEF Next, SessionStep
  <1>3. IdentityInv => IdentityEnforced
    OBVIOUS
  <1> QED
    BY <1>1, <1>2, <1>3, PTL DEF Spec

(* Nothing has been said or done about a text that is still being handled, *)
(* what is being routed is one of the three commands, and during the post  *)
(* action the response at hand is the claim of what was done and asked.    *)
ToldInv ==
    /\ ToldWhatHappened
    /\ ip \in {"text", "routing"} =>
         outcome = "none" /\ effect = "none" /\ reply = "none" /\ answer = "none"
    /\ ip = "routing" => intent \in {"schedule_task", "mark_completed", "cancel_task"}
    /\ ip \in {"post", "recalibrate"} =>
         /\ answer \in DOMAIN Claim /\ effect = Claim[answer] /\ effect = Asked[intent]
         /\ reply = "none"

(* The registry, the handlers and the templates agree on each command: the *)
(* response to one that was executed claims what was asked and done, and   *)
(* the response to any other claims nothing.                               *)
LEMMA TablesAgree ==
    ASSUME NEW i \in {"schedule_task", "mark_completed", "cancel_task"},
           NEW o \in RouterOutcomes(i)
    PROVE  LET a == Response(o[1], Registered[i]) IN
           /\ o[1] = "executed" =>
                a \in DOMAIN Claim /\ o[2] = Claim[a] /\ o[2] = Asked[i]
           /\ o[1] = "rejected" => a = "error"
           /\ o[1] = "challenge_required" => a = "confirm" /\ o[2] = "none"
           /\ o[1] \in {"executed", "rejected", "challenge_required"}
  <1> USE DEF RouterOutcomes, Registered, Handled, Claim, Asked, Response
  <1>1. CASE i = "schedule_task"
    BY <1>1, SMT
  <1>2. CASE i = "mark_completed"
    BY <1>2, SMT
  <1>3. CASE i = "cancel_task"
    BY <1>3, SMT
  <1> QED
    BY <1>1, <1>2, <1>3

(* After any history of inputs, what a response claims of a task was done  *)
(* and was asked for, a command that took effect is answered so or with an *)
(* internal error, and the user reads text of the language model only when *)
(* it is plain.                                                            *)
THEOREM ToldWhatHappenedHolds == Spec => []ToldWhatHappened
  <1> USE DEF ToldWhatHappened, ToldInv
  <1>c. DOMAIN Claim = {"scheduled", "completed", "archived"}
    BY DEF Claim
  <1>1. Init => ToldInv
    BY <1>c DEF Init
  <1>2. ToldInv /\ [Next]_ivars => ToldInv'
    <2> SUFFICES ASSUME ToldInv, [Next]_ivars PROVE ToldInv'
      OBVIOUS
    <2>1. CASE ReadLine
      BY <2>1 DEF ReadLine, Reading
    <2>2. ASSUME NEW tier \in Tiers, Hear(tier) PROVE ToldInv'
      BY <2>2 DEF Hear, Reading
    <2>3. CASE Blank \/ BadClock
      BY <1>c, <2>3 DEF Blank, BadClock, Say, Text
    <2>4. ASSUME NEW tier \in Tiers, Login(tier) PROVE ToldInv'
      BY <1>c, <2>4 DEF Login, Say, Text
    <2>5. ASSUME NEW query \in Queries, NEW r \in Replies, AskStrategy(query, r)
          PROVE  ToldInv'
      <3>1. /\ ip = "text" /\ ip' = "ready" /\ effect' = "none"
            /\ \/ answer' \in {"denied", "provide"}
               \/ /\ answer' = Strategy(query, r)
                  /\ reply' = IF query = "ambiguous" THEN "none" ELSE r
        BY <2>5 DEF AskStrategy, Say, Text
      <3>2. /\ Strategy(query, r) \notin {"scheduled", "completed", "archived"}
            /\ Strategy(query, r) = "reply" => query # "ambiguous" /\ r = "plain"
        BY DEF Strategy, Replies
      <3> QED
        BY <1>c, <3>1, <3>2
    <2>6. ASSUME NEW i \in Intents, Command(i) PROVE ToldInv'
      <3>1. CASE ~IsAllowed(i, identity)
        BY <1>c, <2>6, <3>1 DEF Command, Say, Text
      <3>2. CASE IsAllowed(i, identity)
        <4>1. i \in {"schedule_task", "mark_completed", "cancel_task"}
          BY <3>2 DEF IsAllowed, ActionOf, Intents
        <4> QED
          BY <2>6, <3>2, <4>1 DEF Command, Text
      <3> QED
        BY <3>1, <3>2
    <2>7. ASSUME NEW o \in RouterOutcomes(intent), RouteReturns(o) PROVE ToldInv'
      <3>1. /\ ip = "routing" /\ outcome' = o[1] /\ effect' = o[2]
            /\ answer' = Response(o[1], Registered[intent]) /\ UNCHANGED <<intent, reply>>
            /\ ip' = IF o[1] = "executed" THEN "post" ELSE "ready"
        BY <2>7 DEF RouteReturns
      <3> DEFINE a == Response(o[1], Registered[intent])
      <3>2. /\ o[1] = "executed" =>
                 a \in DOMAIN Claim /\ o[2] = Claim[a] /\ o[2] = Asked[intent]
            /\ o[1] = "rejected" => a = "error"
            /\ o[1] = "challenge_required" => a = "confirm" /\ o[2] = "none"
            /\ o[1] \in {"executed", "rejected", "challenge_required"}
        BY <3>1, TablesAgree
      <3>3. answer' = a
        BY <3>1
      <3> HIDE DEF a
      <3>4. CASE o[1] = "executed"
        BY <3>1, <3>2, <3>3, <3>4
      <3>5. CASE o[1] \in {"rejected", "challenge_required"}
        BY <1>c, <3>1, <3>2, <3>3, <3>5
      <3> QED
        BY <3>2, <3>4, <3>5
    <2>8. ASSUME NEW d \in Days, PostEvaluate(d) PROVE ToldInv'
      BY <2>8 DEF PostEvaluate
    <2>9. CASE PostRecalibrate
      BY <1>c, <2>9 DEF PostRecalibrate
    <2>10. CASE Scanning \/ UNCHANGED ivars
      BY <2>10 DEF Scanning, ivars, session
    <2>11. CASE Outside
      BY <2>11 DEF Outside
    <2>12. CASE RouteRaises
      BY <1>c, <2>12 DEF RouteRaises, Say
    <2>13. CASE EvaluationRaises
      BY <1>c, <2>13 DEF EvaluationRaises, Say
    <2> QED
      BY <2>1, <2>2, <2>3, <2>4, <2>5, <2>6, <2>7, <2>8, <2>9, <2>10, <2>11, <2>12, <2>13
         DEF Next, SessionStep
  <1>3. ToldInv => ToldWhatHappened
    OBVIOUS
  <1> QED
    BY <1>1, <1>2, <1>3, PTL DEF Spec

-----------------------------------------------------------------------------
(* The resource governor.                                                  *)

(* The transcriptions between mark_start and mark_end.                     *)
Running == {j \in Jobs : job[j] = "running"}

(* The count of marked transcriptions is exact: mark_end never finds zero, *)
(* although a transcription may outlive the worker that asked for it.      *)
MarksAreExact == active = Cardinality(Running)

(* Every evaluator has a place, its readings and its histories.            *)
Domains ==
    /\ DOMAIN pc = Evaluators
    /\ DOMAIN seen = Evaluators /\ DOMAIN myMode = Evaluators
    /\ DOMAIN own = Evaluators /\ DOMAIN near = Evaluators

(* The part of the governor's state that the proofs use is well formed.    *)
GovernorType ==
    /\ Domains
    /\ job \in [Jobs -> {None, "got", "running"}]
    /\ active \in Nat

(* The inductive invariant of the marks.                                   *)
GovernorInv == GovernorType /\ MarksAreExact

(* They can be counted.                                                    *)
LEMMA RunningFinite ==
    ASSUME GovernorType
    PROVE  IsFiniteSet(Running) /\ Cardinality(Running) \in Nat
  <1>1. Running \in SUBSET Jobs
    BY DEF Running
  <1>2. IsFiniteSet(Running)
    BY <1>1, GovernorAssumption, FS_Subset
  <1> QED
    BY <1>2, FS_CardinalityType

(* No transcription runs at first.                                         *)
LEMMA GovernorInvInit == GovernorInit => GovernorInv
  <1> SUFFICES ASSUME GovernorInit PROVE GovernorInv
    OBVIOUS
  <1>1. Running = {} /\ Cardinality({}) = 0
    BY FS_EmptySet DEF GovernorInit, Running, None
  <1> QED
    BY <1>1 DEF GovernorInit, GovernorInv, GovernorType, Domains, MarksAreExact

(* Only the transcriptions mark.                                           *)
LEMMA OthersDoNotMark ==
    ASSUME GovernorNext, ~\E j \in Jobs : GetModel(j) \/ MarkStart(j) \/ MarkEnd(j)
    PROVE  UNCHANGED <<job, active>>
  <1>1. CASE \E e \in Evaluators : EvaluateStep(e)
    BY <1>1 DEF EvaluateStep, Usage, EvaluateRaises, SampleCpu, SampleMemory, StoreMode, ReadMode,
       Gate, Act, UnloadIdle, Limit, SetTimeout, asr
  <1>2. CASE \/ RunOnce \/ StartGovernor \/ SessionStopped \/ SampleLow \/ SampleDevice
             \/ SignalSleep \/ SignalHeat \/ SetThermalTimeout \/ SignalDowngrade
             \/ SignalUnload \/ SignalMicrophone
    BY <1>2 DEF RunOnce, StartGovernor, SessionStopped, SampleLow, SampleDevice, SignalSleep,
       SignalHeat, SetThermalTimeout, SignalDowngrade, SignalUnload, SignalMicrophone, asr
  <1>3. CASE StopGovernor \/ EnvChanges \/ \E g \in Loops : LoopTurn(g)
    BY <1>3 DEF StopGovernor, EnvChanges, LoopTurn, asr
  <1> QED
    BY <1>1, <1>2, <1>3 DEF GovernorNext, MainStep, GovernorStep, Evaluators

(* The evaluators stay the same threads, with the same locals.             *)
LEMMA DomainKept == GovernorType /\ [GovernorNext]_gvars => Domains'
  <1> SUFFICES ASSUME Domains, [GovernorNext]_gvars PROVE Domains'
    BY DEF GovernorType
  <1>m. ASSUME NEW e, NEW l, Move(e, l) PROVE DOMAIN pc' = Evaluators
    BY <1>m DEF Move, Domains
  <1>u. ASSUME UNCHANGED <<seen, myMode, history>>, DOMAIN pc' = Evaluators PROVE Domains'
    BY <1>u DEF Domains, history
  <1>1. ASSUME NEW e \in Evaluators, EvaluateStep(e) PROVE Domains'
    <2>r. ASSUME EvaluateReturns(e) PROVE Domains'
      BY <2>r, <1>m DEF EvaluateReturns, Domains
    <2>1. CASE Usage(e) \/ StoreMode(e) \/ UnloadIdle(e)
      BY <2>1, <1>m, <1>u DEF Usage, StoreMode, UnloadIdle, local
    <2>2. CASE EvaluateRaises(e) \/ SetTimeout(e)
      BY <2>2, <2>r DEF EvaluateRaises, SetTimeout
    <2>3. CASE SampleCpu(e)
      BY <2>3, <1>m DEF SampleCpu, Domains
    <2>4. CASE SampleMemory(e)
      BY <2>4, <1>m DEF SampleMemory, Domains, history
    <2>5. CASE ReadMode(e)
      BY <2>5, <1>m DEF ReadMode, Domains, history
    <2>6. CASE Act(e)
      BY <2>6, <1>m DEF Act, Domains
    <2>7. CASE Gate(e) \/ Limit(e)
      BY <2>7, <2>r, <1>m, <1>u DEF Gate, Limit, Stay
    <2> QED
      BY <1>1, <2>1, <2>2, <2>3, <2>4, <2>5, <2>6, <2>7 DEF EvaluateStep
  <1>2. CASE \/ RunOnce \/ SessionStopped \/ SampleLow \/ SampleDevice
             \/ SignalSleep \/ SignalHeat \/ SetThermalTimeout \/ SignalDowngrade
             \/ SignalUnload \/ SignalMicrophone
    BY <1>2, <1>m, <1>u DEF RunOnce, SessionStopped, SampleLow, SampleDevice, SignalSleep,
       SignalHeat, SetThermalTimeout, SignalDowngrade, SignalUnload, SignalMicrophone, local
  <1>3. CASE StartGovernor
    BY <1>3, <1>m, <1>u DEF StartGovernor, local, Domains
  <1>4. CASE StopGovernor \/ (\E g \in Loops : LoopTurn(g))
    BY <1>4, <1>m, <1>u DEF StopGovernor, LoopTurn, local
  <1>5. CASE EnvChanges
    BY <1>5 DEF EnvChanges, Domains
  <1>6. CASE (\E j \in Jobs : GetModel(j) \/ MarkStart(j) \/ MarkEnd(j)) \/ UNCHANGED gvars
    BY <1>6, <1>u DEF GetModel, MarkStart, MarkEnd, gvars, local, Domains
  <1> QED
    BY <1>1, <1>2, <1>3, <1>4, <1>5, <1>6 DEF GovernorNext, MainStep, GovernorStep, Evaluators

(* Every step keeps the count exact.                                       *)
LEMMA GovernorInvNext == GovernorInv /\ [GovernorNext]_gvars => GovernorInv'
  <1> SUFFICES ASSUME GovernorInv, [GovernorNext]_gvars PROVE GovernorInv'
    OBVIOUS
  <1>0. Domains'
    BY DomainKept DEF GovernorInv
  <1>f. IsFiniteSet(Running) /\ Cardinality(Running) \in Nat
    BY RunningFinite DEF GovernorInv
  <1>1. CASE UNCHANGED <<job, active>>
    BY <1>0, <1>1 DEF GovernorInv, GovernorType, MarksAreExact, Running
  <1>2. ASSUME NEW j \in Jobs, GetModel(j) PROVE GovernorInv'
    <2>1. Running' = Running
      BY <1>2 DEF GetModel, GovernorInv, GovernorType, Running, None
    <2> QED
      BY <1>0, <1>2, <2>1 DEF GetModel, GovernorInv, GovernorType, MarksAreExact
  <1>3. ASSUME NEW j \in Jobs, MarkStart(j) PROVE GovernorInv'
    <2>1. Running' = Running \cup {j} /\ j \notin Running
      BY <1>3 DEF MarkStart, GovernorInv, GovernorType, Running
    <2>2. Cardinality(Running') = Cardinality(Running) + 1
      BY <1>f, <2>1, FS_AddElement
    <2> QED
      BY <1>0, <1>3, <2>2, SMT DEF MarkStart, GovernorInv, GovernorType, MarksAreExact
  <1>4. ASSUME NEW j \in Jobs, MarkEnd(j) PROVE GovernorInv'
    <2>1. Running' = Running \ {j} /\ j \in Running
      BY <1>4 DEF MarkEnd, GovernorInv, GovernorType, Running, None
    <2>2. IsFiniteSet(Running') /\ Cardinality(Running') = Cardinality(Running) - 1
      BY <1>f, <2>1, FS_RemoveElement
    <2>3. Cardinality(Running') \in Nat
      BY <2>2, FS_CardinalityType
    <2>4. active > 0 /\ active' = active - 1
      BY <1>f, <1>4, <2>2, <2>3, SMTT(20) DEF MarkEnd, GovernorInv, GovernorType, MarksAreExact
    <2> QED
      BY <1>0, <1>f, <1>4, <2>2, <2>3, <2>4 DEF MarkEnd, GovernorInv, GovernorType, MarksAreExact
  <1> QED
    BY <1>1, <1>2, <1>3, <1>4, OthersDoNotMark DEF gvars, asr

(* So it is exact for every governor.                                      *)
LEMMA GovernorInvHolds == GovernorSpec => []GovernorInv
  BY GovernorInvInit, GovernorInvNext, PTL DEF GovernorSpec

(* What drops a model that is in use.                                      *)
LEMMA UnloadStep ==
    ASSUME [GovernorNext]_gvars, active > 0, model # None, model' = None
    PROVE  size' # size \/ pc["main"] = "stopping"
  <1>1. ASSUME NEW e \in Evaluators, EvaluateStep(e) PROVE size' # size
    BY <1>1 DEF EvaluateStep, Usage, EvaluateRaises, SampleCpu, SampleMemory, StoreMode, ReadMode,
       Gate, Act, Decision, UnloadIdle, Limit, SetTimeout, asr, Resize, IdleUnload, ForceUnload
  <1>2. CASE \/ RunOnce \/ StartGovernor \/ SessionStopped \/ SampleLow \/ SampleDevice
             \/ SignalSleep \/ SignalHeat \/ SetThermalTimeout \/ SignalDowngrade
             \/ SignalUnload \/ SignalMicrophone
    BY <1>2 DEF RunOnce, StartGovernor, SessionStopped, SampleLow, SampleDevice, SignalSleep,
       SignalHeat, SetThermalTimeout, SignalDowngrade, SignalUnload, SignalMicrophone, asr,
       Resize, IdleUnload, ForceUnload
  <1>3. CASE StopGovernor \/ EnvChanges \/ (\E g \in Loops : LoopTurn(g)) \/ UNCHANGED gvars
    BY <1>3 DEF StopGovernor, EnvChanges, LoopTurn, gvars, asr, ForceUnload
  <1>4. CASE \E j \in Jobs : GetModel(j) \/ MarkStart(j) \/ MarkEnd(j)
    BY <1>4 DEF GetModel, MarkStart, MarkEnd
  <1> QED
    BY <1>1, <1>2, <1>3, <1>4 DEF GovernorNext, MainStep, GovernorStep, Evaluators

(* Every unload spares a model that a marked transcription uses, whichever *)
(* threads evaluate and signal meanwhile: only a change of the size or the *)
(* end of the session drops it.                                            *)
THEOREM UnloadRespectsActiveHolds == GovernorSpec => UnloadRespectsActive
  <1>1. [GovernorNext]_gvars =>
          [(active > 0 /\ model # None /\ model' = None)
             => size' # size \/ pc["main"] = "stopping"]_gvars
    BY UnloadStep
  <1> QED
    BY <1>1, PTL DEF GovernorSpec, UnloadRespectsActive

(* The marks count the transcriptions that run, so that the model is       *)
(* protected from the first mark_start to the last mark_end.               *)
THEOREM MarksProtectModel ==
    GovernorSpec =>
        /\ []MarksAreExact
        /\ [][(Running # {} /\ model # None /\ model' = None)
                => size' # size \/ pc["main"] = "stopping"]_gvars
  <1>1. GovernorInv /\ [GovernorNext]_gvars =>
          [(Running # {} /\ model # None /\ model' = None)
             => size' # size \/ pc["main"] = "stopping"]_gvars
    <2> SUFFICES ASSUME GovernorInv, [GovernorNext]_gvars, Running # {}, model # None, model' = None
                 PROVE  size' # size \/ pc["main"] = "stopping"
      OBVIOUS
    <2>1. IsFiniteSet(Running) /\ Cardinality(Running) \in Nat
      BY RunningFinite DEF GovernorInv
    <2>2. Cardinality(Running) # 0
      BY <2>1, FS_EmptySet
    <2>3. active > 0
      BY <2>1, <2>2, SMT DEF GovernorInv, MarksAreExact
    <2> QED
      BY <2>3, UnloadStep
  <1>2. GovernorInv => MarksAreExact
    BY DEF GovernorInv
  <1> QED
    BY <1>1, <1>2, GovernorInvHolds, PTL DEF GovernorSpec

(* What an evaluation has read, and the mode it finds, is no more than a   *)
(* moment of its own time or of that of an evaluation it overlaps with.    *)
Explained(e) ==
    /\ Low(env) \subseteq own[e] /\ own[e] \subseteq near[e]
    /\ \A d \in Evaluators : Unstored(d) => own[d] \subseteq near[e]
    /\ ~seen[e].cpu => "cpu" \in own[e]
    /\ pc[e] # "memory" /\ ~seen[e].mem => "mem" \in own[e]
    /\ pc[e] = "mode" /\ mode = "NORMAL" => Kinds \subseteq near[e]
    /\ pc[e] \in {"gate", "act"} /\ myMode[e] = "NORMAL" => Kinds \subseteq near[e]

(* The inductive invariant of the evaluations in progress.                 *)
ReadingsInv == \A e \in Evaluators : InProgress(e) => Explained(e)

(* An evaluator goes on or not; the others do as they did.                 *)
OthersKeep(e) ==
    \A c \in Evaluators \ {e} :
        /\ pc'[c] = pc[c] /\ seen'[c] = seen[c] /\ myMode'[c] = myMode[c]
        /\ own'[c] = own[c] /\ near'[c] = near[c]

(* A step that leaves an evaluation in progress as it is.                  *)
LEMMA KeptStep ==
    ASSUME ReadingsInv, env' = env, NEW c \in Evaluators, InProgress(c),
           pc'[c] = pc[c], seen'[c] = seen[c], myMode'[c] = myMode[c],
           own'[c] = own[c], near'[c] = near[c],
           \A d \in Evaluators : Unstored(d)' => own'[d] \subseteq near[c],
           mode' = "NORMAL" => mode = "NORMAL" \/ Kinds \subseteq near[c]
    PROVE  Explained(c)'
  <1>1. Explained(c)
    BY DEF ReadingsInv
  <1> QED
    BY <1>1 DEF Explained, Low

(* A step after which the evaluator that takes it, if any, reads no more.  *)
LEMMA RestStep ==
    ASSUME ReadingsInv, env' = env, mode' = mode, NEW e, OthersKeep(e), e \in Evaluators => ~InProgress(e)'
    PROVE  ReadingsInv'
  <1> SUFFICES ASSUME NEW c \in Evaluators, InProgress(c)' PROVE Explained(c)'
    BY DEF ReadingsInv
  <1>1. /\ c # e /\ pc'[c] = pc[c] /\ seen'[c] = seen[c] /\ myMode'[c] = myMode[c]
        /\ own'[c] = own[c] /\ near'[c] = near[c] /\ InProgress(c)
    BY DEF OthersKeep, InProgress, Unstored
  <1>2. ASSUME NEW d \in Evaluators, Unstored(d)' PROVE own'[d] \subseteq near[c]
    <2>1. d # e
      BY <1>2 DEF InProgress
    <2>2. own'[d] = own[d] /\ Unstored(d)
      BY <1>2, <2>1 DEF OthersKeep, Unstored
    <2> QED
      BY <1>1, <2>2 DEF ReadingsInv, Explained
  <1> QED
    BY <1>1, <1>2, KeptStep

(* The steps in which an evaluator reads, and stores and takes its mode.   *)
LEMMA ReadingStep ==
    ASSUME Domains, ReadingsInv, NEW e \in Evaluators, env' = env, OthersKeep(e),
           SampleCpu(e) \/ SampleMemory(e) \/ StoreMode(e) \/ ReadMode(e) \/ (Gate(e) /\ ~paused)
    PROVE  ReadingsInv'
  <1> SUFFICES ASSUME NEW c \in Evaluators, InProgress(c)' PROVE Explained(c)'
    BY DEF ReadingsInv
  <1>o. ASSUME NEW d \in Evaluators, d # e
        PROVE  /\ pc'[d] = pc[d] /\ seen'[d] = seen[d] /\ myMode'[d] = myMode[d]
               /\ own'[d] = own[d] /\ near'[d] = near[d]
               /\ (InProgress(d)' <=> InProgress(d)) /\ (Unstored(d)' <=> Unstored(d))
    BY <1>o DEF OthersKeep, InProgress, Unstored
  <1>1. CASE SampleCpu(e)
    <2>1. /\ pc'[e] = "memory" /\ seen'[e] = [cpu |-> env.cpu, mem |-> FALSE]
          /\ own'[e] = Low(env) /\ mode' = mode
          /\ near'[e] = Low(env) \cup UNION {own[d] : d \in {b \in Evaluators : Unstored(b)}}
      BY <1>1 DEF SampleCpu, Domains, Move, governor
    <2>2. CASE c = e
      <3>1. ASSUME NEW d \in Evaluators, Unstored(d)' PROVE own'[d] \subseteq near'[e]
        <4>1. CASE d = e
          BY <2>1, <4>1
        <4>2. CASE d # e
          BY <1>o, <2>1, <3>1, <4>2
        <4> QED
          BY <4>1, <4>2
      <3>2. ~seen'[e].cpu => "cpu" \in own'[e]
        <4>1. seen'[e].cpu = env.cpu
          BY <2>1, SMT
        <4>2. ~env.cpu => "cpu" \in Low(env)
          BY DEF Low, Kinds
        <4> QED
          BY <2>1, <4>1, <4>2
      <3>3. Low(env) \subseteq own'[e] /\ own'[e] \subseteq near'[e]
        BY <2>1
      <3> QED
        BY <2>1, <2>2, <3>1, <3>2, <3>3 DEF Explained, Low
    <2>3. CASE c # e
      <3>1. InProgress(c) /\ Explained(c)
        BY <1>o, <2>3 DEF ReadingsInv
      <3>2. ASSUME NEW d \in Evaluators, Unstored(d)' PROVE own'[d] \subseteq near[c]
        <4>1. CASE d = e
          BY <2>1, <3>1, <4>1 DEF Explained
        <4>2. CASE d # e
          BY <1>o, <3>1, <3>2, <4>2 DEF Explained
        <4> QED
          BY <4>1, <4>2
      <3> QED
        BY <1>o, <2>1, <2>3, <3>1, <3>2, KeptStep
    <2> QED
      BY <2>2, <2>3
  <1>p. ASSUME InProgress(e), own'[e] = own[e], near'[e] = near[e],
               Unstored(e)' => Unstored(e)
        PROVE  /\ InProgress(c) /\ Explained(c)
               /\ \A d \in Evaluators : Unstored(d)' => own'[d] \subseteq near[c]
    <2>1. InProgress(c) /\ Explained(c)
      BY <1>o, <1>p DEF ReadingsInv
    <2>2. \A d \in Evaluators : Unstored(d)' => own'[d] = own[d] /\ Unstored(d)
      BY <1>o, <1>p
    <2> QED
      BY <2>1, <2>2 DEF Explained
  <1>2. CASE SampleMemory(e)
    <2>1. /\ pc[e] = "memory" /\ pc'[e] = "store" /\ mode' = mode
          /\ seen'[e] = [cpu |-> seen[e].cpu, mem |-> env.mem]
          /\ own'[e] = own[e] /\ near'[e] = near[e]
      BY <1>2 DEF SampleMemory, Domains, Move, governor, history
    <2>2. /\ InProgress(c) /\ Explained(c)
          /\ \A d \in Evaluators : Unstored(d)' => own'[d] \subseteq near[c]
      BY <1>p, <2>1 DEF InProgress, Unstored
    <2>3. CASE c = e
      <3>1. ~env.mem => "mem" \in own[e]
        BY <2>2, <2>3 DEF Explained, Low, Kinds
      <3>2. seen'[e].cpu = seen[e].cpu /\ seen'[e].mem = env.mem
        BY <2>1, SMT
      <3> QED
        BY <2>1, <2>2, <2>3, <3>1, <3>2 DEF Explained, Low
    <2>4. CASE c # e
      BY <1>o, <2>1, <2>2, <2>4, KeptStep
    <2> QED
      BY <2>3, <2>4
  <1>3. CASE StoreMode(e)
    <2>1. /\ pc[e] = "store" /\ pc'[e] = "mode" /\ mode' = PowerMode(seen[e])
          /\ seen'[e] = seen[e] /\ own'[e] = own[e] /\ near'[e] = near[e]
      BY <1>3 DEF StoreMode, Domains, Move, local, history
    <2>2. /\ InProgress(c) /\ Explained(c)
          /\ \A d \in Evaluators : Unstored(d)' => own'[d] \subseteq near[c]
      BY <1>p, <2>1 DEF InProgress, Unstored
    <2>3. mode' = "NORMAL" => Kinds \subseteq near[c]
      <3>1. Explained(e)
        BY <2>1 DEF ReadingsInv, InProgress, Unstored
      <3>2. mode' = "NORMAL" => Kinds \subseteq own[e]
        BY <2>1, <3>1 DEF PowerMode, Explained, Kinds
      <3> QED
        BY <2>1, <2>2, <3>2 DEF Explained, Unstored
    <2>4. CASE c = e
      BY <2>1, <2>2, <2>3, <2>4 DEF Explained, Low
    <2>5. CASE c # e
      BY <1>o, <2>2, <2>3, <2>5, KeptStep
    <2> QED
      BY <2>4, <2>5
  <1>4. CASE ReadMode(e) \/ (Gate(e) /\ ~paused)
    <2>1. /\ \/ pc[e] = "mode" /\ pc'[e] = "gate" /\ myMode'[e] = mode
             \/ pc[e] = "gate" /\ pc'[e] = "act" /\ myMode'[e] = myMode[e]
          /\ mode' = mode /\ seen'[e] = seen[e] /\ own'[e] = own[e] /\ near'[e] = near[e]
      BY <1>4 DEF ReadMode, Gate, Stay, Domains, Move, governor, history
    <2>2. /\ InProgress(c) /\ Explained(c)
          /\ \A d \in Evaluators : Unstored(d)' => own'[d] \subseteq near[c]
      BY <1>p, <2>1 DEF InProgress, Unstored
    <2>3. CASE c = e
      BY <2>1, <2>2, <2>3 DEF Explained, Low
    <2>4. CASE c # e
      BY <1>o, <2>1, <2>2, <2>4, KeptStep
    <2> QED
      BY <2>3, <2>4
  <1> QED
    BY <1>1, <1>2, <1>3, <1>4

(* A change of the readings reaches every evaluation in progress.          *)
LEMMA ChangeStep ==
    ASSUME Domains, ReadingsInv, EnvChanges
    PROVE  ReadingsInv'
  <1> SUFFICES ASSUME NEW c \in Evaluators, InProgress(c)' PROVE Explained(c)'
    BY DEF ReadingsInv
  <1>1. /\ pc' = pc /\ seen' = seen /\ myMode' = myMode /\ mode' = mode
        /\ \A d \in Evaluators : InProgress(d) =>
               own'[d] = own[d] \cup Low(env') /\ near'[d] = near[d] \cup Low(env')
    BY DEF EnvChanges, governor
  <1>2. InProgress(c) /\ Explained(c)
    BY <1>1 DEF ReadingsInv, InProgress, Unstored
  <1>3. ASSUME NEW d \in Evaluators, Unstored(d)' PROVE own'[d] \subseteq near'[c]
    <2>1. Unstored(d) /\ InProgress(d)
      BY <1>1, <1>3 DEF InProgress, Unstored
    <2> QED
      BY <1>1, <1>2, <2>1 DEF Explained
  <1>4. own'[c] = own[c] \cup Low(env') /\ near'[c] = near[c] \cup Low(env')
    BY <1>1, <1>2
  <1> QED
    BY <1>1, <1>2, <1>3, <1>4 DEF Explained, Low

(* Every step explains the evaluations in progress.                        *)
LEMMA ReadingsNext == GovernorType /\ ReadingsInv /\ [GovernorNext]_gvars => ReadingsInv'
  <1> SUFFICES ASSUME Domains, ReadingsInv, [GovernorNext]_gvars PROVE ReadingsInv'
    BY DEF GovernorType
  <1> DEFINE Within == {"memory", "store", "mode", "gate", "act"}
  <1>m. ASSUME NEW e, NEW l, Move(e, l), l \notin Within,
               UNCHANGED <<env, mode, seen, myMode, own, near>>
        PROVE  ReadingsInv'
    <2>1. OthersKeep(e) /\ (e \in Evaluators => pc'[e] = l)
      BY <1>m DEF OthersKeep, Move, Domains
    <2> QED
      BY <1>m, <2>1, RestStep DEF InProgress, Unstored
  <1>1. ASSUME NEW e \in Evaluators, EvaluateStep(e) PROVE ReadingsInv'
    <2>0. OthersKeep(e) /\ env' = env
      <3>r. ASSUME EvaluateReturns(e) PROVE OthersKeep(e)
        BY <3>r DEF EvaluateReturns, Move, OthersKeep, Domains
      <3>s. ASSUME NEW l, Move(e, l), UNCHANGED <<seen, myMode, own, near>> PROVE OthersKeep(e)
        BY <3>s DEF Move, OthersKeep, Domains
      <3>1. CASE Usage(e) \/ StoreMode(e) \/ UnloadIdle(e)
        BY <3>1, <3>s DEF Usage, StoreMode, UnloadIdle, bounds, local, history
      <3>2. CASE EvaluateRaises(e) \/ SetTimeout(e)
        BY <3>2, <3>r DEF EvaluateRaises, SetTimeout, bounds
      <3>3. CASE SampleCpu(e)
        BY <3>3 DEF SampleCpu, Move, OthersKeep, Domains, bounds
      <3>4. CASE SampleMemory(e)
        BY <3>4 DEF SampleMemory, Move, OthersKeep, Domains, bounds, history
      <3>5. CASE ReadMode(e)
        BY <3>5 DEF ReadMode, Move, OthersKeep, Domains, bounds, history
      <3>6. CASE Act(e)
        BY <3>6 DEF Act, Move, OthersKeep, Domains, bounds
      <3>7. CASE Gate(e) \/ Limit(e)
        BY <3>7, <3>r, <3>s DEF Gate, Limit, Stay, bounds, history
      <3> QED
        BY <1>1, <3>1, <3>2, <3>3, <3>4, <3>5, <3>6, <3>7 DEF EvaluateStep
    <2>r. ASSUME EvaluateReturns(e) PROVE ~InProgress(e)'
      BY <2>r DEF EvaluateReturns, Move, Domains, InProgress, Unstored
    <2>s. ASSUME NEW l, Move(e, l), l \notin Within PROVE ~InProgress(e)'
      BY <2>s DEF Move, Domains, InProgress, Unstored
    <2>1. CASE Usage(e) \/ UnloadIdle(e) \/ Act(e)
      BY <2>0, <2>1, <2>s, RestStep DEF Usage, UnloadIdle, Act, governor
    <2>2. CASE EvaluateRaises(e) \/ SetTimeout(e)
      BY <2>0, <2>2, <2>r, RestStep DEF EvaluateRaises, SetTimeout, governor
    <2>3. CASE (Gate(e) /\ paused) \/ Limit(e)
      <3>1. ~InProgress(e)'
        BY <2>3, <2>r, <2>s DEF Gate, Limit, Stay
      <3>2. mode' = mode
        BY <2>3 DEF Gate, Limit, governor
      <3> QED
        BY <2>0, <3>1, <3>2, RestStep
    <2> QED
      BY <1>1, <2>0, <2>1, <2>2, <2>3, ReadingStep DEF EvaluateStep
  <1>2. CASE \/ RunOnce \/ SessionStopped \/ SampleLow \/ SampleDevice
             \/ SignalSleep \/ SignalHeat \/ SetThermalTimeout \/ SignalDowngrade
             \/ SignalUnload \/ SignalMicrophone
    BY <1>2, <1>m, ZenonT(30) DEF RunOnce, SessionStopped, SampleLow, SampleDevice, SignalSleep,
       SignalHeat, SetThermalTimeout, SignalDowngrade, SignalUnload, SignalMicrophone, local,
       history, bounds, governor
  <1>3. CASE StartGovernor
    <2>1. UNCHANGED <<env, mode, seen, myMode, own, near>>
      BY <1>3 DEF StartGovernor, bounds, local, history
    <2>2. CASE Move("main", "device")
      BY <1>m, <2>1, <2>2
    <2>3. CASE \E g \in setup.loops : pc' = [pc EXCEPT !["main"] = "device", ![g] = "turn"]
      <3>1. PICK g : pc' = [pc EXCEPT !["main"] = "device", ![g] = "turn"]
        BY <2>3
      <3>2. \A c \in Evaluators : c # "main" /\ c # g => pc'[c] = pc[c]
        BY <3>1 DEF Domains
      <3>3. \A c \in Evaluators : c = g \/ c = "main" => pc'[c] \in {"turn", "device"}
        BY <3>1 DEF Domains
      <3>4. \A c \in Evaluators : InProgress(c)' => pc'[c] = pc[c] /\ InProgress(c)
        BY <3>2, <3>3 DEF InProgress, Unstored
      <3> SUFFICES ASSUME NEW c \in Evaluators, InProgress(c)' PROVE Explained(c)'
        BY DEF ReadingsInv
      <3>5. \A d \in Evaluators : Unstored(d)' => Unstored(d)
        BY <3>4 DEF InProgress, Unstored
      <3>6. InProgress(c) /\ Explained(c) /\ pc'[c] = pc[c]
        BY <3>4 DEF ReadingsInv
      <3>7. \A d \in Evaluators : Unstored(d)' => own'[d] \subseteq near[c]
        BY <2>1, <3>5, <3>6 DEF Explained
      <3> QED
        BY <2>1, <3>6, <3>7, KeptStep
    <2> QED
      BY <1>3, <2>2, <2>3 DEF StartGovernor
  <1>4. CASE StopGovernor \/ (\E g \in Loops : LoopTurn(g))
    BY <1>4, <1>m DEF StopGovernor, LoopTurn, local, history, bounds, governor
  <1>5. CASE EnvChanges
    BY <1>5, ChangeStep
  <1>6. CASE (\E j \in Jobs : GetModel(j) \/ MarkStart(j) \/ MarkEnd(j)) \/ UNCHANGED gvars
    <2>1. UNCHANGED <<pc, env, mode, seen, myMode, own, near>>
      BY <1>6 DEF GetModel, MarkStart, MarkEnd, gvars, bounds, local, history, governor
    <2> QED
      BY <2>1 DEF ReadingsInv, InProgress, Unstored, Explained, Low
  <1> QED
    BY <1>1, <1>2, <1>3, <1>4, <1>5, <1>6 DEF GovernorNext, MainStep, GovernorStep, Evaluators

(* So every evaluation in progress is explained.                           *)
LEMMA ReadingsHold == GovernorSpec => []ReadingsInv
  <1>1. GovernorInit => ReadingsInv
    BY DEF GovernorInit, ReadingsInv, InProgress, Unstored, None
  <1>2. GovernorInv => GovernorType
    BY DEF GovernorInv
  <1> QED
    BY <1>1, <1>2, ReadingsNext, GovernorInvHolds, PTL DEF GovernorSpec

(* Who makes the model grow back.                                          *)
LEMMA UpgradeStep ==
    ASSUME Domains, ReadingsInv, [GovernorNext]_gvars, size = "TINY", size' = "SMALL"
    PROVE  \E e \in Evaluators :
              /\ pc[e] = "act" /\ pc'[e] # "act"
              /\ Kinds \subseteq IF setup.downgrade THEN own[e] ELSE near[e]
  <1>1. ASSUME NEW e \in Evaluators, EvaluateStep(e)
        PROVE  /\ pc[e] = "act" /\ pc'[e] # "act"
               /\ Kinds \subseteq IF setup.downgrade THEN own[e] ELSE near[e]
    <2>1. Act(e)
      BY <1>1 DEF EvaluateStep, Usage, EvaluateRaises, SampleCpu, SampleMemory, StoreMode,
         ReadMode, Gate, UnloadIdle, Limit, SetTimeout, asr
    <2>2. pc[e] = "act" /\ Move(e, "unload_idle") /\ Decision(seen[e], myMode[e]) = "upgrade"
      BY <2>1 DEF Act, Resize, Decision
    <2>3. pc'[e] = "unload_idle"
      BY <2>2 DEF Move, Domains
    <2>4. myMode[e] = "NORMAL" /\ (setup.downgrade => ~seen[e].cpu /\ ~seen[e].mem)
      BY <2>2 DEF Decision, Pressure
    <2>5. Explained(e)
      BY <2>2 DEF ReadingsInv, InProgress
    <2>6. setup.downgrade => Kinds \subseteq own[e]
      BY <2>2, <2>4, <2>5 DEF Explained, Kinds
    <2>7. Kinds \subseteq near[e]
      BY <2>2, <2>4, <2>5 DEF Explained
    <2> QED
      BY <2>2, <2>3, <2>6, <2>7
  <1>2. CASE \/ RunOnce \/ StartGovernor \/ SessionStopped \/ SampleLow \/ SampleDevice
             \/ SignalSleep \/ SignalHeat \/ SetThermalTimeout \/ SignalDowngrade
             \/ SignalUnload \/ SignalMicrophone
    BY <1>2 DEF RunOnce, StartGovernor, SessionStopped, SampleLow, SampleDevice, SignalSleep,
       SignalHeat, SetThermalTimeout, SignalDowngrade, SignalUnload, SignalMicrophone, asr, Resize
  <1>3. CASE StopGovernor \/ EnvChanges \/ (\E g \in Loops : LoopTurn(g)) \/ UNCHANGED gvars
    BY <1>3 DEF StopGovernor, EnvChanges, LoopTurn, gvars, asr
  <1>4. CASE \E j \in Jobs : GetModel(j) \/ MarkStart(j) \/ MarkEnd(j)
    BY <1>4 DEF GetModel, MarkStart, MarkEnd
  <1> QED
    BY <1>1, <1>2, <1>3, <1>4 DEF GovernorNext, MainStep, GovernorStep, Evaluators

(* The model only grows back where each pressure was off for a moment of   *)
(* the evaluation that grows it or, with downgrading disabled, of one that *)
(* stored its mode meanwhile, for any number of threads that evaluate,     *)
(* however they interleave and however the readings change under them.     *)
THEOREM NoUpgradeUnderPressureHolds == GovernorSpec => NoUpgradeUnderPressure
  <1>1. GovernorInv /\ ReadingsInv /\ [GovernorNext]_gvars =>
          [(size = "TINY" /\ size' = "SMALL")
             => \E e \in Evaluators :
                   /\ pc[e] = "act" /\ pc'[e] # "act"
                   /\ Kinds \subseteq IF setup.downgrade THEN own[e] ELSE near[e]]_gvars
    BY UpgradeStep DEF GovernorInv, GovernorType
  <1> QED
    BY <1>1, GovernorInvHolds, ReadingsHold, PTL DEF GovernorSpec, NoUpgradeUnderPressure
=============================================================================
