--------------------------- MODULE RuntimeProofs ---------------------------
(***************************************************************************)
(* Proofs about what supervises the runtime: the service registry and the  *)
(* scheduler, for any services, dependency lists, controllers and loops    *)
(* and any number of calls; the energy manager, for all thresholds and     *)
(* samples.                                                                *)
(***************************************************************************)
EXTENDS ServiceRegistry, Scheduler, EnergyManager, TLAPS

(* Zenon tries every leaf that names no other prover.                      *)
USE Zenon

-----------------------------------------------------------------------------
(* Sequences.                                                              *)

(* An element of a sequence is one of its set.                             *)
LEMMA SeqElement ==
    ASSUME NEW S, NEW q \in Seq(S), NEW i \in 1..Len(q)
    PROVE  q[i] \in S
  BY SMT

(* The empty sequence, and the length of any other.                        *)
LEMMA SeqEmpty ==
    ASSUME NEW S
    PROVE  /\ <<>> \in Seq(S) /\ Len(<<>>) = 0
           /\ \A q \in Seq(S) : q # <<>> => Len(q) \in Nat \ {0}
  BY SMT

(* The length and the positions of a sequence.                             *)
LEMMA SeqLength ==
    ASSUME NEW S, NEW q \in Seq(S)
    PROVE  /\ Len(q) \in Nat
           /\ q \in [1..Len(q) -> S] /\ DOMAIN q = 1..Len(q)
  BY SMT

(* The first element of a sequence and the others.                         *)
LEMMA SeqHeadTail ==
    ASSUME NEW S, NEW q \in Seq(S), q # <<>>
    PROVE  /\ Head(q) \in S
           /\ Tail(q) \in Seq(S) /\ Len(Tail(q)) = Len(q) - 1
           /\ \A i \in 1..Len(Tail(q)) : Tail(q)[i] = q[i + 1]
  BY SMT

(* An enumeration of a set is a sequence.                                  *)
LEMMA OrderIsList ==
    ASSUME NEW S, NEW T, T \subseteq S,
           NEW f \in UNION {Bijection(1..n, T) : n \in 0..Cardinality(T)}
    PROVE  f \in Seq(S)
  <1>1. PICK n \in 0..Cardinality(T) : f \in Bijection(1..n, T)
    OBVIOUS
  <1>2. f \in [1..n -> T]
    BY <1>1 DEF Bijection, Injection
  <1> QED
    BY <1>2, SMT

(* A sequence with one element more.                                       *)
LEMMA SeqAppend ==
    ASSUME NEW S, NEW q \in Seq(S), NEW e \in S
    PROVE  /\ Append(q, e) \in Seq(S) /\ Append(q, e) # <<>>
           /\ Len(Append(q, e)) = Len(q) + 1 /\ Append(q, e)[Len(q) + 1] = e
           /\ \A i \in 1..Len(q) : Append(q, e)[i] = q[i]
  BY SMT

(* All the elements of a sequence but the last.                            *)
LEMMA SeqFront ==
    ASSUME NEW S, NEW q \in Seq(S), q # <<>>
    PROVE  /\ SubSeq(q, 1, Len(q) - 1) \in Seq(S)
           /\ Len(SubSeq(q, 1, Len(q) - 1)) = Len(q) - 1
           /\ \A i \in 1..(Len(q) - 1) : SubSeq(q, 1, Len(q) - 1)[i] = q[i]
  BY SMT

(* Two sequences, one after the other.                                     *)
LEMMA SeqConcat ==
    ASSUME NEW S, NEW q \in Seq(S), NEW r \in Seq(S)
    PROVE  /\ q \o r \in Seq(S) /\ Len(q \o r) = Len(q) + Len(r)
           /\ \A i \in 1..(Len(q) + Len(r)) :
                (q \o r)[i] = IF i <= Len(q) THEN q[i] ELSE r[i - Len(q)]
  BY SMT

-----------------------------------------------------------------------------
(* The service registry and the scheduler.                                 *)

(* Everything s needs, s included, is registered and on no cycle.          *)
Startable(s) ==
    \A t \in Services : s = t \/ Needs(s, t) => t \in Registered /\ ~Needs(t, t)

(* Everything s needs, s included, runs or ended by itself.                *)
Served(s) == \A t \in Services : s = t \/ Needs(s, t) => t \in up \cup died

(* A frame of start_service's recursion: the service, and the dependencies *)
(* not visited yet.                                                        *)
Frame == [name : Services, left : Seq(Services)]

(* The state of the registry is well formed.                               *)
RegistryType ==
    /\ Registered \subseteq Services
    /\ deps \in [Registered -> Seq(Services)]
    /\ up \subseteq Registered
    /\ names \in Seq(Services) /\ stack \in Seq(Frame)
    /\ call \in {"none", "start", "stop", "restart", "start_all", "stop_all"}
    /\ ~Starting => stack = <<>>
    /\ \A i \in 1..Len(stack) : stack[i].name \in Registered

(* A dependency of a frame's service is still to be visited, or is the     *)
(* service of the next frame, or has been started with all it needs.  The  *)
(* same holds of the services a starting call is about.                    *)
FrameInv(i) ==
    \A d \in Range(deps[stack[i].name]) :
        \/ d \in Range(stack[i].left)
        \/ i < Len(stack) /\ d = stack[i + 1].name
        \/ Startable(d) /\ Served(d)

(* Only startable services run, every frame is as FrameInv says, and what  *)
(* a starting call is about is still to be started, being started or       *)
(* served.                                                                 *)
RegistryInv ==
    /\ RegistryType
    /\ \A s \in up : Startable(s)
    /\ \A i \in 1..Len(stack) : FrameInv(i)
    /\ Starting => \A s \in targets :
         \/ s \in Range(names)
         \/ stack # <<>> /\ s = stack[1].name
         \/ Served(s)
    /\ call = "restart" => targets \subseteq Range(names)
    /\ call \in {"stop", "stop_all"} => targets = {}
    /\ call = "none" /\ ok => \A s \in targets : Served(s)
-----------------------------------------------------------------------------
(* The scheduler.                                                          *)

(* The controllers between the test for a running loop and the assignment  *)
(* of the new one, and those that stop one.                                *)
Spawners == {c \in Controllers : caller[c] \in {"spawn", "store"}}
Takers == {c \in Controllers : caller[c] \in {"take", "join"}}

(* The state of the scheduler is well formed.                              *)
SchedulerType ==
    /\ running \in BOOLEAN /\ raced \in BOOLEAN
    /\ caller \in [Controllers -> {"idle", "spawn", "store", "take", "join"}]
    /\ mine \in [Controllers -> LoopIds \cup {"none"}]
    /\ handle \in LoopIds \cup {"none"}
    /\ loop \in [LoopIds -> {"unborn", "check", "lock", "scan", "done"}]
    /\ joining \in Controllers \cup {"none"}
    /\ \A c \in Controllers : caller[c] = "join" <=> joining = c

(* Until a start() and a stop() overlap, at most one start() is under way, *)
(* it finds no loop and no handle, and whoever stops holds the handle of   *)
(* the only loop.                                                          *)
LoopInv ==
    ~raced =>
        /\ Spawners = {} \/ Takers = {}
        /\ \A c, d \in Spawners : c = d
        /\ Spawners # {} => running
        /\ Takers # {} => ~running
        /\ \A c \in Controllers : caller[c] = "spawn" => Alive = {} /\ handle = "none"
        /\ \A c \in Controllers : caller[c] = "store" => Alive \subseteq {mine[c]}
        /\ Spawners = {} /\ joining = "none" => Alive \subseteq {handle}
        /\ joining # "none" => Alive \subseteq {mine[joining]} /\ handle = "none"
        /\ ~running /\ Takers = {} => Alive = {} /\ handle = "none"

(* The inductive invariant of the scheduler.                               *)
SchedulerInv == SchedulerType /\ LoopInv

(* It holds before the first start.                                        *)
LEMMA SchedulerTypeInit == SchedulerInit => SchedulerInv
  <1> SUFFICES ASSUME SchedulerInit PROVE SchedulerInv
    OBVIOUS
  <1>1. Alive = {} /\ Spawners = {} /\ Takers = {}
    BY DEF SchedulerInit, Alive, Spawners, Takers
  <1>2. SchedulerType
    BY SchedulerAssumption DEF SchedulerInit, SchedulerType
  <1> QED
    BY <1>1, <1>2 DEF SchedulerInit, SchedulerInv, LoopInv

(* Loops only come to life by a spawn.                                     *)
LEMMA LoopsOnlyEnd ==
    ASSUME SchedulerInv, UNCHANGED control, loop' \in [LoopIds -> {"unborn", "check", "lock", "scan", "done"}],
           Alive' \subseteq Alive
    PROVE  SchedulerInv'
  <1>1. SchedulerType'
    BY DEF SchedulerInv, SchedulerType, control
  <1>2. UNCHANGED <<Spawners, Takers>>
    BY DEF Spawners, Takers, control
  <1>3. LoopInv'
    BY <1>2 DEF SchedulerInv, LoopInv, control
  <1> QED
    BY <1>1, <1>3 DEF SchedulerInv

(* Every step of a controller or a loop keeps it.                          *)
LEMMA SchedulerNextInv == SchedulerInv /\ [SchedulerNext]_svars => SchedulerInv'
  <1> SUFFICES ASSUME SchedulerInv, [SchedulerNext]_svars PROVE SchedulerInv'
    OBVIOUS
  <1> USE SchedulerAssumption
  <1>t. /\ running \in BOOLEAN /\ raced \in BOOLEAN
        /\ caller \in [Controllers -> {"idle", "spawn", "store", "take", "join"}]
        /\ mine \in [Controllers -> LoopIds \cup {"none"}]
        /\ handle \in LoopIds \cup {"none"}
        /\ loop \in [LoopIds -> {"unborn", "check", "lock", "scan", "done"}]
        /\ joining \in Controllers \cup {"none"}
        /\ \A c \in Controllers : caller[c] = "join" <=> joining = c
    BY DEF SchedulerInv, SchedulerType
  <1>1. CASE \/ \E c \in Controllers, t \in Tasks : RegisterTask(c, t)
             \/ Tick \/ UNCHANGED svars
    <2>1. UNCHANGED control /\ UNCHANGED loop
      BY <1>1 DEF RegisterTask, Tick, svars, work
    <2>2. Alive' = Alive
      BY <2>1 DEF Alive
    <2> QED
      BY <1>t, <2>1, <2>2, LoopsOnlyEnd
  <1>2. ASSUME NEW l \in LoopIds, LoopStep(l) \/ Panic(l) PROVE SchedulerInv'
    <2>1. UNCHANGED control
      BY <1>2 DEF LoopStep, Check, Lock, Scan, Panic
    <2>2. /\ loop[l] \in {"check", "lock", "scan"}
          /\ \/ loop' = loop
             \/ \E p \in {"check", "lock", "scan", "done"} : loop' = [loop EXCEPT ![l] = p]
      BY <1>2 DEF LoopStep, Check, Lock, Scan, Panic
    <2>3. /\ loop' \in [LoopIds -> {"unborn", "check", "lock", "scan", "done"}]
          /\ Alive' \subseteq Alive
      BY <1>t, <2>2, SMT DEF Alive
    <2> QED
      BY <2>1, <2>3, LoopsOnlyEnd
  <1>3. ASSUME NEW c \in Controllers, Start(c) PROVE SchedulerInv'
    <2>1. /\ caller[c] = "idle" /\ running' = TRUE /\ UNCHANGED <<handle, joining, mine, loop>>
          /\ caller' = [caller EXCEPT ![c] = IF running THEN "idle" ELSE "spawn"]
          /\ raced' = (raced \/ \E d \in Controllers : caller[d] \in {"take", "join"})
      BY <1>3 DEF Start, work
    <2>2. SchedulerType'
      BY <1>t, <2>1 DEF SchedulerType
    <2>3. Alive' = Alive
      BY <2>1 DEF Alive
    <2>4. ASSUME ~raced' PROVE LoopInv'
      <3>1. ~raced /\ Takers = {}
        BY <1>t, <2>1, <2>4 DEF Takers
      <3>2. Takers' = {}
        BY <1>t, <2>1, <3>1 DEF Takers
      <3>3. joining = "none"
        BY <1>t, <3>1 DEF Takers
      <3>4. CASE running
        <4>1. caller' = caller
          BY <1>t, <2>1, <3>4
        <4>2. Spawners' = Spawners
          BY <4>1 DEF Spawners
        <4> QED
          BY <2>1, <2>3, <3>1, <3>2, <3>3, <3>4, <4>1, <4>2 DEF SchedulerInv, LoopInv
      <3>5. CASE ~running
        <4>1. Alive = {} /\ handle = "none" /\ Spawners = {}
          BY <3>1, <3>5 DEF SchedulerInv, LoopInv
        <4>2. Spawners' = {c}
          BY <1>t, <2>1, <3>5, <4>1, SMT DEF Spawners
        <4> QED
          BY <2>1, <2>3, <3>2, <3>3, <4>1, <4>2 DEF LoopInv
      <3> QED
        BY <3>4, <3>5
    <2> QED
      BY <2>2, <2>4 DEF SchedulerInv, LoopInv
  <1>4. ASSUME NEW c \in Controllers, Stop(c) PROVE SchedulerInv'
    <2>1. /\ caller[c] = "idle" /\ running' = FALSE /\ UNCHANGED <<handle, joining, mine, loop>>
          /\ caller' = [caller EXCEPT ![c] = "take"]
          /\ raced' = (raced \/ \E d \in Controllers : caller[d] \in {"spawn", "store"})
      BY <1>4 DEF Stop, work
    <2>2. SchedulerType'
      BY <1>t, <2>1 DEF SchedulerType
    <2>3. Alive' = Alive
      BY <2>1 DEF Alive
    <2>4. ASSUME ~raced' PROVE LoopInv'
      <3>1. ~raced /\ Spawners = {}
        BY <1>t, <2>1, <2>4 DEF Spawners
      <3>2. Spawners' = {} /\ c \in Takers'
        BY <1>t, <2>1, <3>1 DEF Spawners, Takers
      <3>3. \A d \in Controllers : caller'[d] \notin {"spawn", "store"}
        BY <3>2 DEF Spawners
      <3> QED
        BY <2>1, <2>3, <3>1, <3>2, <3>3 DEF SchedulerInv, LoopInv
    <2> QED
      BY <2>2, <2>4 DEF SchedulerInv, LoopInv
  <1>5. ASSUME NEW c \in Controllers, Spawn(c) PROVE SchedulerInv'
    <2>1. PICK l \in LoopIds : /\ loop[l] = "unborn"
                               /\ loop' = [loop EXCEPT ![l] = "check"]
                               /\ mine' = [mine EXCEPT ![c] = l]
      BY <1>5 DEF Spawn
    <2>2. /\ caller[c] = "spawn" /\ caller' = [caller EXCEPT ![c] = "store"]
          /\ UNCHANGED <<running, handle, joining, raced>>
      BY <1>5 DEF Spawn
    <2>3. SchedulerType'
      BY <1>t, <2>1, <2>2 DEF SchedulerType
    <2>4. ASSUME ~raced PROVE LoopInv'
      <3>1. /\ Alive = {} /\ c \in Spawners /\ Takers = {} /\ running
            /\ Spawners = {c}
        BY <2>2, <2>4 DEF SchedulerInv, LoopInv, Spawners
      <3>2. Alive' = {l} /\ mine'[c] = l
        BY <1>t, <2>1, <3>1, SMT DEF Alive
      <3>3. Spawners' = {c} /\ Takers' = {}
        BY <1>t, <2>2, <3>1 DEF Spawners, Takers
      <3>4. \A d \in Controllers : caller'[d] # "spawn" /\ (caller'[d] = "store" => d = c)
        BY <1>t, <2>2, <3>3 DEF Spawners
      <3>5. joining = "none"
        BY <1>t, <3>1 DEF Takers
      <3> QED
        BY <2>2, <3>1, <3>2, <3>3, <3>4, <3>5 DEF LoopInv
    <2> QED
      BY <2>2, <2>3, <2>4 DEF SchedulerInv, LoopInv
  <1>6. ASSUME NEW c \in Controllers, Store(c) PROVE SchedulerInv'
    <2>1. /\ caller[c] = "store" /\ joining = "none" /\ handle' = mine[c]
          /\ mine' = [mine EXCEPT ![c] = "none"] /\ caller' = [caller EXCEPT ![c] = "idle"]
          /\ UNCHANGED <<running, joining, raced, loop>>
      BY <1>6 DEF Store, work
    <2>2. SchedulerType'
      BY <1>t, <2>1 DEF SchedulerType
    <2>3. ASSUME ~raced PROVE LoopInv'
      <3>1. Spawners = {c} /\ Takers = {} /\ running /\ Alive \subseteq {mine[c]}
        BY <2>1, <2>3, SMT DEF SchedulerInv, LoopInv, Spawners
      <3>2. Spawners' = {} /\ Takers' = {}
        BY <1>t, <2>1, <3>1, SMT DEF Spawners, Takers
      <3>3. Alive' = Alive
        BY <2>1 DEF Alive
      <3>4. \A d \in Controllers : caller'[d] \notin {"spawn", "store"}
        BY <3>2 DEF Spawners
      <3> QED
        BY <2>1, <3>1, <3>2, <3>3, <3>4 DEF LoopInv
    <2> QED
      BY <2>1, <2>2, <2>3 DEF SchedulerInv, LoopInv
  <1>7. ASSUME NEW c \in Controllers, Take(c) PROVE SchedulerInv'
    <2>1. /\ caller[c] = "take" /\ joining = "none" /\ UNCHANGED <<running, raced, loop>>
      BY <1>7 DEF Take, work
    <2>2. Alive' = Alive
      BY <2>1 DEF Alive
    <2>3. CASE handle = "none"
      <3>1. caller' = [caller EXCEPT ![c] = "idle"] /\ UNCHANGED <<handle, joining, mine>>
        BY <1>7, <2>3 DEF Take
      <3>2. SchedulerType'
        BY <1>t, <2>1, <3>1 DEF SchedulerType
      <3>3. ASSUME ~raced PROVE LoopInv'
        <4>1. c \in Takers /\ Spawners = {} /\ ~running
          BY <2>1, <3>3 DEF SchedulerInv, LoopInv, Takers
        <4>2. Alive = {}
          BY <1>t, <2>1, <2>3, <3>3, <4>1, SMT DEF SchedulerInv, LoopInv, Alive
        <4>3. Spawners' = {}
          BY <1>t, <3>1, <4>1 DEF Spawners
        <4>4. \A d \in Controllers : caller'[d] \notin {"spawn", "store"}
          BY <4>3 DEF Spawners
        <4> QED
          BY <2>1, <2>2, <2>3, <3>1, <4>1, <4>2, <4>3, <4>4 DEF LoopInv
      <3> QED
        BY <2>1, <3>2, <3>3 DEF SchedulerInv, LoopInv
    <2>4. CASE handle # "none"
      <3>1. /\ caller' = [caller EXCEPT ![c] = "join"] /\ joining' = c
            /\ mine' = [mine EXCEPT ![c] = handle] /\ handle' = "none"
        BY <1>7, <2>4 DEF Take
      <3>2. SchedulerType'
        BY <1>t, <2>1, <3>1 DEF SchedulerType
      <3>3. ASSUME ~raced PROVE LoopInv'
        <4>1. c \in Takers /\ Spawners = {} /\ ~running /\ Alive \subseteq {handle}
          BY <2>1, <3>3 DEF SchedulerInv, LoopInv, Takers
        <4>2. mine'[c] = handle
          BY <1>t, <3>1
        <4>3. Spawners' = {} /\ c \in Takers'
          BY <1>t, <3>1, <4>1 DEF Spawners, Takers
        <4>4. \A d \in Controllers : caller'[d] \notin {"spawn", "store"}
          BY <4>3 DEF Spawners
        <4> QED
          BY <2>1, <2>2, <3>1, <4>1, <4>2, <4>3, <4>4 DEF LoopInv
      <3> QED
        BY <2>1, <3>2, <3>3 DEF SchedulerInv, LoopInv
    <2> QED
      BY <2>3, <2>4
  <1>8. ASSUME NEW c \in Controllers, Join(c) PROVE SchedulerInv'
    <2>1. /\ caller[c] = "join" /\ loop[mine[c]] = "done" /\ joining' = "none"
          /\ mine' = [mine EXCEPT ![c] = "none"] /\ caller' = [caller EXCEPT ![c] = "idle"]
          /\ UNCHANGED <<running, handle, raced, loop>>
      BY <1>8 DEF Join, work
    <2>2. SchedulerType'
      BY <1>t, <2>1 DEF SchedulerType
    <2>3. ASSUME ~raced PROVE LoopInv'
      <3>1. joining = c /\ c \in Takers
        BY <1>t, <2>1 DEF Takers
      <3>2. Spawners = {} /\ ~running /\ Alive \subseteq {mine[c]} /\ handle = "none"
        BY <2>3, <3>1 DEF SchedulerInv, LoopInv
      <3>3. Alive' = {}
        BY <2>1, <3>2, SMT DEF Alive
      <3>4. Spawners' = {}
        BY <1>t, <2>1, <3>2 DEF Spawners
      <3>5. \A d \in Controllers : caller'[d] \notin {"spawn", "store"}
        BY <3>4 DEF Spawners
      <3> QED
        BY <2>1, <3>2, <3>3, <3>4, <3>5 DEF LoopInv
    <2> QED
      BY <2>1, <2>2, <2>3 DEF SchedulerInv, LoopInv
  <1> QED
    BY <1>1, <1>2, <1>3, <1>4, <1>5, <1>6, <1>7, <1>8 DEF SchedulerNext, Call

(* Restarting the scheduler never leaves two loops: until a start() and a  *)
(* stop() overlap, whatever else the controllers, the loops and panicking  *)
(* tasks do, at most one loop is alive, and none once stop() has returned. *)
THEOREM OneLoopHolds == SchedulerSpec => []OneLoop
  <1>1. SchedulerInv => OneLoop
    <2> SUFFICES ASSUME SchedulerInv, ~raced PROVE OneLoop
      BY DEF OneLoop
    <2>1. \E x : Alive \subseteq {x}
      <3>1. CASE Spawners # {}
        BY <3>1 DEF SchedulerInv, LoopInv, Spawners
      <3>2. CASE Spawners = {}
        BY <3>2 DEF SchedulerInv, LoopInv
      <3> QED
        BY <3>1, <3>2
    <2>2. \A k, l \in Alive : k = l
      BY <2>1
    <2>3. (\A c \in Controllers : caller[c] = "idle") /\ ~running => Alive = {}
      BY DEF SchedulerInv, LoopInv, Takers
    <2> QED
      BY <2>2, <2>3 DEF OneLoop
  <1> QED
    BY <1>1, SchedulerTypeInit, SchedulerNextInv, PTL DEF SchedulerSpec
-----------------------------------------------------------------------------
(* Needs is the transitive closure of the dependency lists.                *)

(* The set Needs quantifies over: closed under dependencies, from s on.    *)
Closed(C, s) == \A x \in (C \cup {s}) \cap Registered : Range(deps[x]) \subseteq C

(* The dependencies of a registered service are services.                  *)
LEMMA DepsAreServices ==
    ASSUME RegistryType, NEW s \in Registered
    PROVE  s \in Services /\ Range(deps[s]) \subseteq Services
  <1>1. deps[s] \in Seq(Services)
    BY DEF RegistryType
  <1> QED
    BY <1>1, SeqElement, SeqLength, SMT DEF Range, RegistryType

(* A service needs its dependencies,                                       *)
LEMMA NeedsDirect ==
    ASSUME NEW s \in Registered, NEW t \in Range(deps[s])
    PROVE  Needs(s, t)
  BY DEF Needs

(* the dependencies of what it needs,                                      *)
LEMMA NeedsNext ==
    ASSUME NEW s, NEW x \in Registered, Needs(s, x), NEW t \in Range(deps[x])
    PROVE  Needs(s, t)
  BY DEF Needs

(* and whatever those need.                                                *)
LEMMA NeedsTransitive ==
    ASSUME RegistryType, NEW s, NEW x \in Services, NEW t, Needs(s, x), Needs(x, t)
    PROVE  Needs(s, t)
  <1> SUFFICES ASSUME NEW C \in SUBSET Services, Closed(C, s) PROVE t \in C
    BY DEF Needs, Closed
  <1>1. x \in C
    BY DEF Needs, Closed
  <1>2. Closed(C, x)
    BY <1>1 DEF Closed
  <1> QED
    BY <1>2 DEF Needs, Closed

(* What a service needs is a dependency of it, or is needed by one.        *)
LEMMA NeedsFirst ==
    ASSUME RegistryType, NEW s \in Registered, NEW t \in Services, Needs(s, t)
    PROVE  \E d \in Range(deps[s]) : t = d \/ Needs(d, t)
  <1> DEFINE C == {x \in Services : \E d \in Range(deps[s]) : x = d \/ Needs(d, x)}
  <1>1. C \in SUBSET Services
    OBVIOUS
  <1>2. ASSUME NEW x \in (C \cup {s}) \cap Registered, NEW y \in Range(deps[x]) PROVE y \in C
    <2>1. y \in Services
      BY DepsAreServices
    <2>2. CASE x = s
      BY <2>1, <2>2
    <2>3. CASE x \in C
      <3>1. PICK d \in Range(deps[s]) : x = d \/ Needs(d, x)
        BY <2>3
      <3>2. Needs(d, y)
        BY <3>1, NeedsDirect, NeedsNext
      <3> QED
        BY <2>1, <3>2
    <2> QED
      BY <2>2, <2>3
  <1>3. t \in C
    BY <1>1, <1>2 DEF Needs
  <1> QED
    BY <1>3

(* A service whose dependencies are all startable is startable: a cycle    *)
(* through it would be a cycle through one of them.                        *)
LEMMA StartableUp ==
    ASSUME RegistryType, NEW s \in Registered, \A d \in Range(deps[s]) : Startable(d)
    PROVE  Startable(s)
  <1> SUFFICES ASSUME NEW t \in Services, s = t \/ Needs(s, t)
               PROVE  t \in Registered /\ ~Needs(t, t)
    BY DEF Startable
  <1>1. CASE Needs(s, t)
    <2>1. PICK d \in Range(deps[s]) : t = d \/ Needs(d, t)
      BY <1>1, NeedsFirst
    <2> QED
      BY <2>1 DEF Startable
  <1>2. CASE s = t /\ ~Needs(s, t)
    BY <1>2
  <1> QED
    BY <1>1, <1>2

(* A service that runs or ended by itself, and whose dependencies are      *)
(* served, is served.                                                      *)
LEMMA ServedUp ==
    ASSUME RegistryType, NEW s \in Registered, \A d \in Range(deps[s]) : Served(d),
           s \in up \cup died
    PROVE  Served(s)
  <1> SUFFICES ASSUME NEW t \in Services, s = t \/ Needs(s, t) PROVE t \in up \cup died
    BY DEF Served
  <1>1. CASE Needs(s, t)
    <2>1. PICK d \in Range(deps[s]) : t = d \/ Needs(d, t)
      BY <1>1, NeedsFirst
    <2> QED
      BY <2>1 DEF Served
  <1> QED
    BY <1>1

(* With the same registrations the same services are needed.               *)
LEMMA NeedsKept ==
    ASSUME UNCHANGED deps
    PROVE  /\ Registered' = Registered
           /\ \A s, t : Needs(s, t)' <=> Needs(s, t)
           /\ \A s : Startable(s)' <=> Startable(s)
  <1>1. Registered' = Registered
    BY DEF Registered
  <1>2. \A s, t : Needs(s, t)' <=> Needs(s, t)
    BY <1>1 DEF Needs
  <1>3. \A s : Startable(s)' <=> Startable(s)
    BY <1>1, <1>2 DEF Startable
  <1> QED
    BY <1>1, <1>2, <1>3

(* Nothing ends but by itself: what was served stays served.               *)
LEMMA ServedKept ==
    ASSUME UNCHANGED deps, up \cup died \subseteq up' \cup died', NEW s, Served(s)
    PROVE  Served(s)'
  BY NeedsKept DEF Served

(* A later registration adds nothing to what a startable service needs.    *)
LEMMA StartableRegister ==
    ASSUME RegistryType, NEW s \in Services, Startable(s),
           NEW r, NEW d, RegisterService(r, d)
    PROVE  Startable(s)'
  <1>1. /\ r \notin Registered /\ Registered' = Registered \cup {r}
        /\ \A x \in Registered : deps'[x] = deps[x]
    BY DEF RegisterService, Registered
  <1>2. ASSUME NEW u \in Services, Startable(u), NEW t, Needs(u, t)' PROVE Needs(u, t)
    <2> DEFINE C == {x \in Services : Needs(u, x)}
    <2>1. C \in SUBSET Services
      OBVIOUS
    <2>2. \A x \in C \cup {u} : x \in Registered
      BY <1>2 DEF Startable
    <2>3. ASSUME NEW x \in (C \cup {u}) \cap Registered', NEW y \in Range(deps'[x])
          PROVE  y \in C
      <3>1. x \in Registered /\ y \in Range(deps[x])
        BY <1>1, <2>2
      <3>2. y \in Services
        BY <3>1, DepsAreServices
      <3> QED
        BY <3>1, <3>2, NeedsDirect, NeedsNext
    <2>4. t \in C
      BY <1>2, <2>1, <2>3 DEF Needs
    <2> QED
      BY <2>4
  <1>3. ASSUME NEW t \in Services, s = t \/ Needs(s, t)
        PROVE  Startable(t)
    <2> SUFFICES ASSUME NEW u \in Services, t = u \/ Needs(t, u)
                 PROVE  u \in Registered /\ ~Needs(u, u)
      BY DEF Startable
    <2>1. s = u \/ Needs(s, u)
      BY <1>3, NeedsTransitive
    <2> QED
      BY <2>1 DEF Startable
  <1> SUFFICES ASSUME NEW t \in Services, s = t \/ Needs(s, t)'
               PROVE  t \in Registered' /\ ~Needs(t, t)'
    BY DEF Startable
  <1>4. s = t \/ Needs(s, t)
    BY <1>2
  <1>5. Startable(t) /\ t \in Registered /\ ~Needs(t, t)
    BY <1>3, <1>4 DEF Startable
  <1> QED
    BY <1>1, <1>2, <1>5
-----------------------------------------------------------------------------
(* The calls of the registry.                                              *)

(* The elements of a sequence are its head and those of its tail.          *)
LEMMA HeadAndTail ==
    ASSUME NEW S, NEW q \in Seq(S), q # <<>>
    PROVE  Head(q) \in S /\ Tail(q) \in Seq(S) /\ Range(q) = {Head(q)} \cup Range(Tail(q))
  <1>1. /\ Head(q) \in S /\ Tail(q) \in Seq(S) /\ Len(q) \in Nat \ {0} /\ Len(Tail(q)) = Len(q) - 1
        /\ DOMAIN q = 1..Len(q) /\ DOMAIN Tail(q) = 1..(Len(q) - 1)
        /\ \A i \in 1..(Len(q) - 1) : Tail(q)[i] = q[i + 1]
        /\ Head(q) = q[1]
    BY SeqHeadTail, SeqEmpty, SeqLength, SMT
  <1>2. ASSUME NEW x \in Range(q) PROVE x \in {Head(q)} \cup Range(Tail(q))
    <2>1. PICK i \in 1..Len(q) : x = q[i]
      BY <1>1 DEF Range
    <2>2. CASE i = 1
      BY <1>1, <2>1, <2>2
    <2>3. CASE i # 1
      <3>1. i - 1 \in 1..(Len(q) - 1) /\ Tail(q)[i - 1] = x
        BY <1>1, <2>1, <2>3, SMT
      <3> QED
        BY <1>1, <3>1 DEF Range
    <2> QED
      BY <2>2, <2>3
  <1>3. ASSUME NEW x \in {Head(q)} \cup Range(Tail(q)) PROVE x \in Range(q)
    <2>1. CASE x = Head(q)
      BY <1>1, <2>1, SMT DEF Range
    <2>2. CASE x \in Range(Tail(q))
      <3>1. PICK i \in 1..(Len(q) - 1) : x = Tail(q)[i]
        BY <1>1, <2>2 DEF Range
      <3>2. i + 1 \in 1..Len(q) /\ q[i + 1] = x
        BY <1>1, <3>1, SMT
      <3> QED
        BY <1>1, <3>2 DEF Range
    <2> QED
      BY <1>3, <2>1, <2>2
  <1> QED
    BY <1>1, <1>2, <1>3

(* The frames below the innermost one.                                     *)
LEMMA InnermostFrame ==
    ASSUME NEW S, stack \in Seq(S), stack # <<>>
    PROVE  /\ Len(stack) \in Nat /\ Len(stack) >= 1
           /\ TopFrame = stack[Len(stack)] /\ TopFrame \in S
           /\ LowerFrames \in Seq(S) /\ Len(LowerFrames) = Len(stack) - 1
           /\ \A i \in 1..(Len(stack) - 1) : LowerFrames[i] = stack[i]
  <1>1. Len(stack) \in Nat /\ Len(stack) >= 1
    BY SeqEmpty, SeqLength, SMT
  <1>2. TopFrame = stack[Len(stack)] /\ TopFrame \in S
    BY <1>1, SeqElement, SMT DEF TopFrame
  <1>3. /\ LowerFrames \in Seq(S) /\ Len(LowerFrames) = Len(stack) - 1
        /\ \A i \in 1..(Len(stack) - 1) : LowerFrames[i] = stack[i]
    BY SeqFront DEF LowerFrames
  <1> QED
    BY <1>1, <1>2, <1>3

(* The invariant holds of an empty registry, and each operation keeps it.  *)
LEMMA RegistryInvInit == RegistryInit => RegistryInv
  <1> SUFFICES ASSUME RegistryInit PROVE RegistryInv
    OBVIOUS
  <1>1. Registered = {}
    BY DEF RegistryInit, Registered
  <1>2. stack = <<>> /\ names = <<>> /\ call = "none" /\ targets = {} /\ up = {}
    BY DEF RegistryInit
  <1>3. stack \in Seq(Frame) /\ names \in Seq(Services) /\ 1..Len(stack) = {}
    BY <1>2, SMT
  <1>4. deps \in [Registered -> Seq(Services)]
    BY DEF RegistryInit, Registered
  <1> QED
    BY <1>1, <1>2, <1>3, <1>4 DEF RegistryInv, RegistryType, Starting

(* A call that fails forgets its frames and promises nothing.              *)
LEMMA CallFails ==
    ASSUME RegistryInv, Return(FALSE), UNCHANGED <<deps, up>>
    PROVE  RegistryInv'
  <1>1. /\ call' = "none" /\ names' = <<>> /\ stack' = <<>> /\ ~ok'
    BY DEF Return
  <1>2. stack' \in Seq(Frame) /\ names' \in Seq(Services) /\ 1..Len(stack') = {}
    BY <1>1, SMT
  <1> QED
    BY <1>1, <1>2, NeedsKept DEF RegistryInv, RegistryType, Starting

(* register_service adds a service that nobody runs yet.                   *)
LEMMA RegisterKeeps ==
    ASSUME RegistryInv, NEW s \in Services, NEW d \in Dependencies, RegisterService(s, d)
    PROVE  RegistryInv'
  <1>1. /\ call = "none" /\ s \notin Registered /\ targets' = {}
        /\ deps' = [x \in Registered \cup {s} |-> IF x = s THEN d ELSE deps[x]]
        /\ UNCHANGED <<up, call, names, stack>>
    BY DEF RegisterService
  <1>2. stack = <<>> /\ 1..Len(stack) = {}
    BY <1>1, SMT DEF RegistryInv, RegistryType, Starting
  <1>3. /\ Registered' = Registered \cup {s} /\ Registered' \subseteq Services
        /\ deps' \in [Registered' -> Seq(Services)]
    BY <1>1, RegistryAssumption DEF RegistryInv, RegistryType, Registered
  <1>5. RegistryType'
    BY <1>1, <1>2, <1>3 DEF RegistryInv, RegistryType, Starting
  <1>6. ASSUME NEW u \in up PROVE Startable(u)'
    <2>1. u \in Services /\ Startable(u) /\ RegistryType
      BY <1>6 DEF RegistryInv, RegistryType
    <2> QED
      BY <2>1, StartableRegister
  <1> QED
    BY <1>1, <1>2, <1>5, <1>6 DEF RegistryInv, Starting

(* A call begins with an empty stack.                                      *)
LEMMA BeginKeeps ==
    ASSUME RegistryInv, NEW list \in Seq(Services),
           NEW c \in {"start", "stop", "restart", "start_all", "stop_all"}, Begin(c, list)
    PROVE  RegistryInv'
  <1>1. /\ call = "none" /\ call' = c /\ names' = list /\ UNCHANGED <<deps, up, stack>>
        /\ targets' = IF c \in {"stop", "stop_all"} THEN {} ELSE Range(list)
    BY DEF Begin
  <1>2. stack = <<>> /\ 1..Len(stack) = {}
    BY <1>1, SMT DEF RegistryInv, RegistryType, Starting
  <1>3. RegistryType'
    BY <1>1, <1>2, NeedsKept DEF RegistryInv, RegistryType, Starting
  <1> QED
    BY <1>1, <1>2, <1>3, NeedsKept DEF RegistryInv, Starting

(* A stack of one frame.                                                   *)
LEMMA FirstFrame ==
    ASSUME NEW f \in Frame
    PROVE  Append(<<>>, f) \in Seq(Frame) /\ Len(Append(<<>>, f)) = 1 /\ Append(<<>>, f)[1] = f
  BY SMT

(* Replacing the innermost frame leaves the others where they are.         *)
LEMMA NextFrame ==
    ASSUME NEW low \in Seq(Frame), NEW n \in Nat, Len(low) = n - 1, NEW g \in Frame,
           \A i \in 1..(n - 1) : low[i] = stack[i]
    PROVE  /\ Append(low, g) \in Seq(Frame) /\ Len(Append(low, g)) = n /\ Append(low, g)[n] = g
           /\ \A i \in 1..(n - 1) : Append(low, g)[i] = stack[i]
  BY SeqAppend, SMT

(* The state stays well formed while a starting call goes on.              *)
LEMMA TypeKept ==
    ASSUME RegistryType, Starting, UNCHANGED <<deps, up, call>>,
           names' \in Seq(Services), stack' \in Seq(Frame),
           \A i \in 1..Len(stack') : stack'[i].name \in Registered
    PROVE  RegistryType'
  <1>1. Registered' = Registered
    BY DEF Registered
  <1> QED
    BY <1>1 DEF RegistryType, Starting

(* start_recursive enters a name: it has all its dependencies left.        *)
LEMMA StartNextKeeps == RegistryInv /\ StartNext => RegistryInv'
  <1> SUFFICES ASSUME RegistryInv, StartNext PROVE RegistryInv'
    OBVIOUS
  <1>1. /\ Starting /\ stack = <<>> /\ names # <<>> /\ UNCHANGED <<deps, up, targets, died>>
        /\ Enter(Head(names), <<>>, {}, Tail(names))
    BY DEF StartNext
  <1>2. CASE Return(FALSE)
    BY <1>1, <1>2, CallFails
  <1>3. CASE ~Return(FALSE)
    <2>0. PICK s : s = Head(names)
      OBVIOUS
    <2> DEFINE f == [name |-> s, left |-> deps[s]]
    <2>1. /\ s \in Registered /\ stack' = Append(<<>>, f) /\ names' = Tail(names) /\ call' = call
      BY <1>1, <1>3, <2>0 DEF Enter
    <2>2. /\ names' \in Seq(Services) /\ Range(names) = {s} \cup Range(names')
      BY <1>1, <2>0, <2>1, HeadAndTail DEF RegistryInv, RegistryType
    <2>3. f \in Frame /\ f.name = s /\ f.left = deps[s]
      BY <2>1 DEF RegistryInv, RegistryType, Frame
    <2> HIDE DEF f
    <2>4. stack' \in Seq(Frame) /\ Len(stack') = 1 /\ stack'[1] = f
      BY <2>1, <2>3, FirstFrame
    <2>5. RegistryType'
      <3>1. \A i \in 1..Len(stack') : stack'[i].name \in Registered
        BY <2>1, <2>3, <2>4, SMT
      <3> QED
        BY <1>1, <2>1, <2>2, <2>4, <3>1, TypeKept DEF RegistryInv
    <2>6. \A i \in 1..Len(stack') : FrameInv(i)'
      <3>1. deps'[stack'[1].name] = stack'[1].left
        BY <1>1, <2>3, <2>4
      <3> QED
        BY <2>4, <3>1, SMT DEF FrameInv
    <2>7. \A t \in targets : t \in Range(names') \/ t = stack'[1].name \/ Served(t)'
      <3>1. ASSUME NEW t \in targets PROVE t \in Range(names) \/ Served(t)
        BY <1>1 DEF RegistryInv
      <3>2. \A t : Served(t) => Served(t)'
        BY <1>1, ServedKept
      <3> QED
        BY <2>2, <2>3, <2>4, <3>1, <3>2
    <2>8. stack' # <<>>
      BY <2>4, SMT
    <2> QED
      BY <1>1, <2>1, <2>5, <2>6, <2>7, <2>8, NeedsKept DEF RegistryInv, Starting
  <1> QED
    BY <1>2, <1>3

(* The innermost frame goes to its next dependency.                        *)
LEMMA DescendKeeps == RegistryInv /\ Descend => RegistryInv'
  <1> SUFFICES ASSUME RegistryInv, Descend PROVE RegistryInv'
    OBVIOUS
  <1> DEFINE top == TopFrame
             g == [top EXCEPT !.left = Tail(@)]
             below == Append(LowerFrames, g)
             n == Len(stack)
  <1>1. /\ stack # <<>> /\ top.left # <<>> /\ UNCHANGED <<deps, up, targets, died>>
        /\ Enter(Head(top.left), below, visiting, names)
    BY DEF Descend
  <1>t. stack \in Seq(Frame)
    BY DEF RegistryInv, RegistryType
  <1>2. CASE Return(FALSE)
    BY <1>1, <1>2, CallFails
  <1>3. CASE ~Return(FALSE)
    <2>0. PICK s : s = Head(top.left)
      OBVIOUS
    <2> DEFINE f == [name |-> s, left |-> deps[s]]
    <2>1. /\ s \in Registered /\ stack' = Append(below, f) /\ names' = names /\ call' = call
      BY <1>1, <1>3, <2>0 DEF Enter
    <2>2. /\ n \in Nat /\ n >= 1 /\ top = stack[n] /\ top \in Frame
          /\ LowerFrames \in Seq(Frame) /\ Len(LowerFrames) = n - 1
          /\ \A i \in 1..(n - 1) : LowerFrames[i] = stack[i]
      BY <1>1, <1>t, InnermostFrame
    <2>3. top.left \in Seq(Services) /\ top.name \in Services
      BY <2>2 DEF Frame
    <2>4. /\ Tail(top.left) \in Seq(Services) /\ Range(top.left) = {s} \cup Range(Tail(top.left))
      BY <1>1, <2>0, <2>3, HeadAndTail
    <2>5. g \in Frame /\ g.name = top.name /\ g.left = Tail(top.left)
      BY <2>2, <2>4 DEF Frame
    <2>6. f \in Frame /\ f.name = s /\ f.left = deps[s]
      BY <2>1 DEF RegistryInv, RegistryType, Frame
    <2> HIDE DEF g, f, top, n
    <2>7. below \in Seq(Frame) /\ Len(below) = n /\ below[n] = g
          /\ \A i \in 1..(n - 1) : below[i] = stack[i]
      BY <2>2, <2>5, NextFrame
    <2> HIDE DEF below
    <2>8. stack' \in Seq(Frame) /\ Len(stack') = n + 1 /\ stack'[n + 1] = f /\ stack'[n] = g
          /\ \A i \in 1..(n - 1) : stack'[i] = stack[i]
      <3>1. /\ stack' \in Seq(Frame) /\ Len(stack') = n + 1 /\ stack'[n + 1] = f
            /\ \A i \in 1..n : stack'[i] = below[i]
        BY <2>1, <2>2, <2>6, <2>7, SeqAppend, SMT
      <3> QED
        BY <2>2, <2>7, <3>1, SMT
    <2>9. \A i \in 1..n : stack'[i].name = stack[i].name /\ stack[i].name \in Registered
      <3>1. \A i \in 1..n : stack[i].name \in Registered
        BY DEF RegistryInv, RegistryType, n
      <3>2. stack'[n].name = stack[n].name
        BY <2>2, <2>5, <2>8
      <3>3. \A i \in 1..n : i = n \/ i \in 1..(n - 1)
        BY <2>2, SMT
      <3> QED
        BY <2>8, <3>1, <3>2, <3>3
    <2>10. Starting
      BY <1>1 DEF RegistryInv, RegistryType
    <2>11. RegistryType'
      <3>1. \A i \in 1..Len(stack') : stack'[i].name \in Registered
        <4>1. \A i \in 1..(n + 1) : i = n + 1 \/ i \in 1..n
          BY <2>2, SMT
        <4> QED
          BY <2>1, <2>6, <2>8, <2>9, <4>1
      <3> QED
        BY <1>1, <2>1, <2>8, <2>10, <3>1, TypeKept DEF RegistryInv, RegistryType
    <2>12. \A t : Served(t) => Served(t)'
      BY <1>1, ServedKept
    <2>13. ASSUME NEW i \in 1..(n + 1) PROVE FrameInv(i)'
      <3>1. CASE i = n + 1
        BY <1>1, <2>6, <2>8, <3>1 DEF FrameInv
      <3>2. CASE i \in 1..n
        <4>0. deps'[stack'[i].name] = deps[stack[i].name] /\ i < Len(stack')
          BY <1>1, <2>2, <2>8, <2>9, <3>2, SMT
        <4> SUFFICES ASSUME NEW d \in Range(deps[stack[i].name])
                     PROVE  \/ d \in Range(stack'[i].left)
                            \/ d = stack'[i + 1].name
                            \/ Startable(d)' /\ Served(d)'
          BY <4>0 DEF FrameInv
        <4>1. FrameInv(i)
          BY <3>2 DEF RegistryInv, n
        <4>2. CASE i = n
          <5>1. stack'[i].left = Tail(top.left) /\ stack'[i + 1].name = s /\ stack[i] = top
            BY <2>2, <2>5, <2>6, <2>8, <4>2
          <5>2. d \in Range(top.left) \/ (Startable(d) /\ Served(d))
            BY <2>2, <4>1, <4>2, <5>1, SMT DEF FrameInv, n
          <5> QED
            BY <1>1, <2>4, <2>12, <5>1, <5>2, NeedsKept
        <4>3. CASE i \in 1..(n - 1)
          <5>1. stack'[i] = stack[i] /\ i + 1 \in 1..n /\ stack'[i + 1].name = stack[i + 1].name
            BY <2>2, <2>8, <2>9, <4>3, SMT
          <5> QED
            BY <1>1, <2>12, <4>1, <5>1, NeedsKept DEF FrameInv
        <4> QED
          BY <2>2, <3>2, <4>2, <4>3, SMT
      <3> QED
        BY <2>2, <3>1, <3>2, SMT
    <2>14. \A t \in targets : t \in Range(names) \/ t = stack'[1].name \/ Served(t)'
      BY <2>2, <2>9, <2>10, <2>12, SMT DEF RegistryInv
    <2>15. stack' # <<>>
      BY <2>2, <2>8, SMT
    <2> QED
      BY <1>1, <2>1, <2>8, <2>10, <2>11, <2>13, <2>14, <2>15, NeedsKept DEF RegistryInv, Starting
  <1> QED
    BY <1>2, <1>3

(* What a service that is started depends on has been started.             *)
LEMMA InnermostServed ==
    ASSUME RegistryInv, Innermost
    PROVE  /\ TopFrame.name \in Registered
           /\ \A d \in Range(deps[TopFrame.name]) : Startable(d) /\ Served(d)
  <1>1. /\ Len(stack) \in Nat /\ Len(stack) >= 1 /\ TopFrame = stack[Len(stack)]
        /\ TopFrame.left = <<>>
    BY InnermostFrame DEF Innermost, RegistryInv, RegistryType
  <1>2. FrameInv(Len(stack)) /\ TopFrame.name \in Registered
    BY <1>1, SMT DEF RegistryInv, RegistryType
  <1>3. Range(TopFrame.left) = {}
    BY <1>1, SMT DEF Range
  <1> QED
    BY <1>1, <1>2, <1>3, SMT DEF FrameInv

(* service.start() returns for the innermost frame: all its dependencies   *)
(* have been visited, so the service is startable and served.              *)
LEMMA ServiceStartsKeeps == RegistryInv /\ ServiceStarts => RegistryInv'
  <1> SUFFICES ASSUME RegistryInv, ServiceStarts PROVE RegistryInv'
    OBVIOUS
  <1> DEFINE n == Len(stack)
  <1>0. PICK s : s = TopFrame.name
    OBVIOUS
  <1>1. /\ Innermost /\ stack # <<>> /\ up' = up \cup {s} /\ stack' = LowerFrames
        /\ UNCHANGED <<deps, targets, died, call, names>>
    BY <1>0 DEF ServiceStarts, Innermost, Leave
  <1>2. s \in Registered /\ \A d \in Range(deps[s]) : Startable(d) /\ Served(d)
    BY <1>0, <1>1, InnermostServed
  <1>3. Startable(s)
    BY <1>2, StartableUp DEF RegistryInv
  <1>4. /\ n \in Nat /\ n >= 1 /\ stack[n].name = s /\ LowerFrames \in Seq(Frame)
        /\ Len(stack') = n - 1 /\ \A i \in 1..(n - 1) : stack'[i] = stack[i]
    BY <1>0, <1>1, InnermostFrame DEF RegistryInv, RegistryType
  <1>5. Starting
    BY <1>1 DEF RegistryInv, RegistryType
  <1>6. RegistryType'
    BY <1>1, <1>2, <1>4, <1>5, NeedsKept, SMT DEF RegistryInv, RegistryType, Starting
  <1>7. \A t : (Served(t) => Served(t)') /\ (Startable(t) => Startable(t)')
    BY <1>1, ServedKept, NeedsKept
  <1>8. Served(s)'
    <2>1. RegistryType' /\ s \in Registered' /\ s \in up' \cup died'
      BY <1>1, <1>2, <1>6, NeedsKept
    <2>2. \A d \in Range(deps'[s]) : Served(d)'
      BY <1>1, <1>2, <1>7
    <2> SUFFICES ASSUME NEW t \in Services, s = t \/ Needs(s, t)' PROVE t \in up' \cup died'
      BY DEF Served
    <2>3. CASE Needs(s, t)'
      <3>1. Needs(s, t)
        BY <1>1, <2>3, NeedsKept
      <3>2. PICK d \in Range(deps[s]) : t = d \/ Needs(d, t)
        BY <1>2, <3>1, NeedsFirst DEF RegistryInv
      <3> QED
        BY <1>1, <1>2, <3>2 DEF Served
    <2> QED
      BY <2>1, <2>3
  <1>9. ASSUME NEW i \in 1..(n - 1) PROVE FrameInv(i)'
    <2> SUFFICES ASSUME NEW d \in Range(deps[stack[i].name])
                 PROVE  \/ d \in Range(stack[i].left)
                        \/ i < n - 1 /\ d = stack'[i + 1].name
                        \/ Startable(d)' /\ Served(d)'
      BY <1>1, <1>4 DEF FrameInv
    <2>1. FrameInv(i)
      BY <1>4, SMT DEF RegistryInv
    <2>2. CASE i = n - 1
      <3>1. stack[i + 1].name = s
        BY <1>4, <2>2, SMT
      <3> QED
        BY <1>3, <1>7, <1>8, <2>1, <3>1 DEF FrameInv
    <2>3. CASE i < n - 1
      <3>1. stack'[i + 1] = stack[i + 1]
        BY <1>4, <2>3, SMTT(20)
      <3> QED
        BY <1>7, <2>1, <2>3, <3>1 DEF FrameInv
    <2> QED
      BY <1>4, <2>2, <2>3, SMT
  <1>10. ASSUME NEW t \in targets
         PROVE  t \in Range(names) \/ (stack' # <<>> /\ t = stack'[1].name) \/ Served(t)'
    <2>1. t \in Range(names) \/ t = stack[1].name \/ Served(t)
      BY <1>5 DEF RegistryInv
    <2>2. CASE t = stack[1].name
      <3>1. CASE n = 1
        BY <1>4, <1>8, <2>2, <3>1
      <3>2. CASE n # 1
        BY <1>4, <2>2, <3>2, SMT
      <3> QED
        BY <3>1, <3>2
    <2> QED
      BY <1>7, <2>1, <2>2
  <1>11. \A u \in up' : Startable(u)'
    BY <1>1, <1>3, <1>7 DEF RegistryInv
  <1> QED
    BY <1>1, <1>4, <1>5, <1>6, <1>9, <1>10, <1>11 DEF RegistryInv, Starting

(* Stopping a service, with success or not, only takes it out of up.       *)
LEMMA StopKeeps == RegistryInv /\ (StopNext \/ StopFails) => RegistryInv'
  <1> SUFFICES ASSUME RegistryInv, StopNext \/ StopFails PROVE RegistryInv'
    OBVIOUS
  <1>1. CASE Return(FALSE) /\ UNCHANGED <<deps, up>>
    BY <1>1, CallFails
  <1>2. CASE ~(Return(FALSE) /\ UNCHANGED <<deps, up>>)
    <2>1. /\ Stopping /\ up' = up \ {Head(names)} /\ UNCHANGED <<deps, targets, stack>>
          /\ \/ call = "restart" /\ call' = "start" /\ names' = names
             \/ call # "restart" /\ names' = Tail(names) /\ call' = call
      BY <1>2 DEF StopNext, StopFails
    <2>2. stack = <<>> /\ 1..Len(stack) = {} /\ names # <<>>
      BY <2>1, SMTT(20) DEF RegistryInv, RegistryType, Starting, Stopping
    <2>3. names' \in Seq(Services)
      BY <2>1, <2>2, HeadAndTail, SMTT(20) DEF RegistryInv, RegistryType
    <2>4. RegistryType'
      BY <2>1, <2>2, <2>3, NeedsKept DEF RegistryInv, RegistryType, Starting
    <2>5. \A u \in up' : Startable(u)'
      BY <2>1, NeedsKept DEF RegistryInv
    <2> QED
      BY <2>1, <2>2, <2>4, <2>5 DEF RegistryInv, Starting, Stopping
  <1> QED
    BY <1>1, <1>2

(* A call that has visited all its services has served them.               *)
LEMMA DoneKeeps == RegistryInv /\ Done => RegistryInv'
  <1> SUFFICES ASSUME RegistryInv, Done PROVE RegistryInv'
    OBVIOUS
  <1>1. /\ call # "none" /\ names = <<>> /\ stack = <<>> /\ UNCHANGED <<deps, up, targets, died>>
        /\ call' = "none" /\ names' = <<>> /\ stack' = <<>>
    BY DEF Done, Return
  <1>2. stack' \in Seq(Frame) /\ names' \in Seq(Services) /\ 1..Len(stack') = {}
    BY <1>1, SMT
  <1>3. RegistryType'
    BY <1>1, <1>2, NeedsKept DEF RegistryInv, RegistryType, Starting
  <1>4. Range(names) = {}
    BY <1>1, SMT DEF Range
  <1>5. \A t \in targets : Served(t)
    BY <1>1, <1>4 DEF RegistryInv, RegistryType, Starting
  <1>6. \A t \in targets : Served(t)'
    BY <1>1, <1>5, ServedKept
  <1>7. \A u \in up' : Startable(u)'
    BY <1>1, NeedsKept DEF RegistryInv
  <1> QED
    BY <1>1, <1>2, <1>3, <1>6, <1>7 DEF RegistryInv, Starting

(* A service that ends by itself stays served.                             *)
LEMMA DiesKeeps ==
    ASSUME RegistryInv, NEW s, ServiceDies(s)
    PROVE  RegistryInv'
  <1>1. /\ up' = up \ {s} /\ died' = died \cup {s}
        /\ UNCHANGED <<deps, call, names, stack, visiting, ok, targets>>
    BY DEF ServiceDies
  <1>2. RegistryType'
    BY <1>1, NeedsKept DEF RegistryInv, RegistryType, Starting
  <1>3. \A t : (Served(t) => Served(t)') /\ (Startable(t) => Startable(t)')
    BY <1>1, ServedKept, NeedsKept
  <1>4. \A i \in 1..Len(stack) : FrameInv(i)'
    BY <1>1, <1>3 DEF RegistryInv, FrameInv
  <1> QED
    BY <1>1, <1>2, <1>3, <1>4 DEF RegistryInv, Starting

(* So every step keeps the invariant,                                      *)
LEMMA RegistryInvNext == RegistryInv /\ [RegistryNext]_rvars => RegistryInv'
  <1> SUFFICES ASSUME RegistryInv, [RegistryNext]_rvars PROVE RegistryInv'
    OBVIOUS
  <1>1. ASSUME NEW s \in Services, StartService(s) \/ StopService(s) \/ RestartService(s)
        PROVE  RegistryInv'
    <2>1. <<s>> \in Seq(Services)
      BY SMT
    <2> QED
      BY <1>1, <2>1, BeginKeeps DEF StartService, StopService, RestartService
  <1>2. CASE StartAll \/ StopAll
    <2>1. PICK list \in Orders : Begin("start_all", list) \/ Begin("stop_all", list)
      BY <1>2 DEF StartAll, StopAll
    <2>2. list \in Seq(Services)
      BY OrderIsList DEF Orders, Registered, RegistryInv, RegistryType
    <2> QED
      BY <2>1, <2>2, BeginKeeps
  <1>3. CASE StartFails
    BY <1>3, CallFails DEF StartFails
  <1>4. CASE UNCHANGED rvars
    <2>1. UNCHANGED <<deps, up, call, names, stack, ok, targets, died>>
      BY <1>4 DEF rvars
    <2>2. RegistryType'
      BY <2>1, NeedsKept DEF RegistryInv, RegistryType, Starting
    <2>3. \A t : (Served(t) => Served(t)') /\ (Startable(t) => Startable(t)')
      BY <2>1, ServedKept, NeedsKept
    <2>4. \A i \in 1..Len(stack) : FrameInv(i)'
      BY <2>1, <2>3 DEF RegistryInv, FrameInv
    <2> QED
      BY <2>1, <2>2, <2>3, <2>4 DEF RegistryInv, Starting
  <1> QED
    BY <1>1, <1>2, <1>3, <1>4, RegisterKeeps, StartNextKeeps, DescendKeeps, ServiceStartsKeeps,
       StopKeeps, DoneKeeps, DiesKeeps DEF RegistryNext, CallStep

(* and it holds for every registry.                                        *)
LEMMA RegistryInvHolds == RegistrySpec => []RegistryInv
  BY RegistryInvInit, RegistryInvNext, PTL DEF RegistrySpec

(* Nothing on a dependency cycle, and nothing that needs such a service or *)
(* one that was never registered, ever runs: in whatever order services    *)
(* were registered, started, stopped and died.                             *)
THEOREM UnstartableNeverRunsHolds == RegistrySpec => []UnstartableNeverRuns
  <1>1. RegistryInv => UnstartableNeverRuns
    BY DEF RegistryInv, UnstartableNeverRuns, Startable
  <1> QED
    BY <1>1, RegistryInvHolds, PTL

(* A start, restart or start_all that returned Ok has started its services *)
(* and all they need, and only what ended by itself does not run.          *)
THEOREM OkMeansUpHolds == RegistrySpec => []OkMeansUp
  <1>1. RegistryInv => OkMeansUp
    BY DEF RegistryInv, OkMeansUp, Served
  <1> QED
    BY <1>1, RegistryInvHolds, PTL

(* start_recursive starts a service after everything on its list.          *)
THEOREM StartsAfterDependenciesHolds == RegistrySpec => StartsAfterDependencies
  <1>1. ASSUME RegistryInv, [RegistryNext]_rvars, NEW s \in up' \ up
        PROVE  Range(deps[s]) \subseteq up \cup died
    <2>1. ServiceStarts
      BY <1>1 DEF RegistryNext, RegisterService, StartService, StopService, RestartService, StartAll,
         StopAll, Begin, CallStep, StartNext, Descend, StartFails, StopNext, StopFails, Done,
         ServiceDies, rvars
    <2>2. Innermost /\ s = TopFrame.name
      BY <1>1, <2>1 DEF ServiceStarts
    <2>3. s \in Registered /\ \A d \in Range(deps[s]) : Served(d)
      BY <1>1, <2>2, InnermostServed
    <2>4. Range(deps[s]) \subseteq Services
      BY <1>1, <2>3, DepsAreServices DEF RegistryInv
    <2> QED
      BY <2>3, <2>4 DEF Served
  <1>2. RegistryInv /\ [RegistryNext]_rvars =>
          [\A s \in up' \ up : Range(deps[s]) \subseteq up \cup died]_rvars
    BY <1>1
  <1> QED
    BY <1>2, RegistryInvHolds, PTL DEF RegistrySpec, StartsAfterDependencies
-----------------------------------------------------------------------------
(* The energy manager.                                                     *)

(* max(1) on the u8 configuration value.                                   *)
LEMMA LimitIsPositive == RecoveryLimit \in Nat \ {0}
  BY EnergyAssumption, SMT DEF RecoveryLimit

(* The combined mode is STRATEGIC only if each of its parts is.            *)
LEMMA DowngradeCauses ==
    ASSUME NEW s
    PROVE  effective_mode(s) \in {"REDUCED", "SILENT"}
             <=> \/ battery_mode(s) # "STRATEGIC"
                 \/ thermal_mode(s) # "STRATEGIC"
                 \/ cpu_high(s)
  <1>1. battery_mode(s) \in {"STRATEGIC", "REDUCED", "SILENT"}
    BY DEF battery_mode, determine_mode
  <1>2. thermal_mode(s) \in {"STRATEGIC", "REDUCED", "SILENT"}
    BY DEF thermal_mode
  <1>3. cpu_mode(s) = IF cpu_high(s) THEN "REDUCED" ELSE "STRATEGIC"
    BY DEF cpu_mode
  <1> QED
    BY <1>1, <1>2, <1>3 DEF effective_mode, max_mode
-----------------------------------------------------------------------------
(***************************************************************************)
(* Thermal recovery.  The manager's flag and counter are the code's only   *)
(* memory of heat; the invariant ties them to the number of cool samples   *)
(* since the last hot one.                                                 *)
(***************************************************************************)
RecoveryInv ==
    /\ cool \in 0 .. RecoveryLimit + 1
    /\ recovering \in BOOLEAN
    /\ recovering <=> cool <= RecoveryLimit
    /\ recovering => counter = cool
    /\ ~recovering => counter = 0

(* The inductive invariant of the thermal recovery.                        *)
HysteresisInv == RecoveryInv /\ DowngradeIsHeld

(* evaluate_thermal_mode keeps the flag and the counter in step with the   *)
(* samples, and reports a mode above STRATEGIC exactly while it recovers.  *)
LEMMA RecoveryStep ==
    ASSUME RecoveryInv, NEW s \in Samples, Evaluate(s)
    PROVE  RecoveryInv' /\ (thermal_mode(s) # "STRATEGIC" <=> cool' <= RecoveryLimit)
  <1>1. CASE Hot(s)
    <2>1. recovering' = TRUE /\ counter' = 0 /\ cool' = 0
      BY <1>1 DEF Evaluate, UpdateRecovery
    <2>2. thermal_mode(s) # "STRATEGIC"
      BY <1>1 DEF thermal_mode, Hot
    <2> QED
      BY <2>1, <2>2, LimitIsPositive, SMT DEF RecoveryInv
  <1>2. CASE ~Hot(s) /\ StillRecovering(s)
    <2>1. recovering' = TRUE /\ counter' = counter + 1
      BY <1>2 DEF Evaluate, UpdateRecovery
    <2>2. cool < RecoveryLimit /\ counter = cool
      BY <1>2 DEF RecoveryInv, StillRecovering
    <2>3. cool' = cool + 1
      BY <1>2, <2>2, LimitIsPositive, SMT DEF Evaluate, RecoveryInv
    <2>4. thermal_mode(s) # "STRATEGIC"
      BY <1>2 DEF thermal_mode
    <2> QED
      BY <2>1, <2>2, <2>3, <2>4, LimitIsPositive, SMT DEF RecoveryInv
  <1>3. CASE ~Hot(s) /\ ~StillRecovering(s)
    <2>1. recovering' = FALSE /\ counter' = 0
      BY <1>3 DEF Evaluate, UpdateRecovery
    <2>2. cool \in {RecoveryLimit, RecoveryLimit + 1}
      BY <1>3, LimitIsPositive, SMT DEF RecoveryInv, StillRecovering
    <2>3. cool' = RecoveryLimit + 1
      BY <1>3, <2>2, LimitIsPositive, SMT DEF Evaluate
    <2>4. thermal_mode(s) = "STRATEGIC"
      BY <1>3 DEF thermal_mode, Hot
    <2>5. ~(cool' <= RecoveryLimit) /\ cool' \in 0 .. RecoveryLimit + 1
      BY <2>3, LimitIsPositive, SMT
    <2> QED
      BY <2>1, <2>4, <2>5 DEF RecoveryInv
  <1> QED
    BY <1>1, <1>2, <1>3

(* Thermal hysteresis of evaluate: models stay downgraded for exactly      *)
(* thermal_recovery_cycles cool samples after a hot one, for every         *)
(* configuration.                                                          *)
THEOREM HysteresisIsExact == Spec => []DowngradeIsHeld
  <1>1. Init => HysteresisInv
    <2> SUFFICES ASSUME Init PROVE HysteresisInv
      OBVIOUS
    <2>1. cool \in 0 .. RecoveryLimit + 1 /\ ~(cool <= RecoveryLimit)
      BY LimitIsPositive, SMT DEF Init
    <2>2. recovering = FALSE /\ counter = 0 /\ sampled = FALSE
      BY DEF Init
    <2> QED
      BY <2>1, <2>2 DEF HysteresisInv, RecoveryInv, DowngradeIsHeld
  <1>2. HysteresisInv /\ [Next]_vars => HysteresisInv'
    <2> SUFFICES ASSUME HysteresisInv, [Next]_vars
                 PROVE  HysteresisInv'
      OBVIOUS
    <2>1. ASSUME NEW s \in Samples, Evaluate(s)
          PROVE  HysteresisInv'
      <3>1. RecoveryInv' /\ (thermal_mode(s) # "STRATEGIC" <=> cool' <= RecoveryLimit)
        BY <2>1, RecoveryStep DEF HysteresisInv
      <3>2. policy'.request_model_downgrade <=> effective_mode(s) \in {"REDUCED", "SILENT"}
        BY <2>1 DEF Evaluate, PolicyFor
      <3>3. policy'.request_model_downgrade
              <=> cool' <= RecoveryLimit \/ battery_mode(s) # "STRATEGIC" \/ cpu_high(s)
        BY <3>1, <3>2, DowngradeCauses
      <3>4. sample' = s
        BY <2>1 DEF Evaluate
      <3>5. DowngradeIsHeld'
        BY <3>3, <3>4, SMT DEF DowngradeIsHeld, battery_mode, WholePercent, determine_mode, cpu_high
      <3> QED
        BY <3>1, <3>5 DEF HysteresisInv
    <2>2. CASE UNCHANGED <<recovering, counter, cool, policy, sampled, sample>>
      BY <2>2, SMT DEF HysteresisInv, RecoveryInv, DowngradeIsHeld, battery_mode, WholePercent,
                  determine_mode, cpu_high
    <2> QED
      BY <2>1, <2>2 DEF Next, vars, Publish, PublishFails, BusShutdown
  <1>3. HysteresisInv => DowngradeIsHeld
    BY DEF HysteresisInv
  <1> QED
    BY <1>1, <1>2, <1>3, PTL DEF Spec
-----------------------------------------------------------------------------
(***************************************************************************)
(* Forced sleep.  While the bus is up, what subscribers believe is right   *)
(* or about to be corrected by an event that is still to be published, and *)
(* no event that is still to be published will mislead them.               *)
(***************************************************************************)
Has(q, e) == \E i \in 1 .. Len(q) : q[i] = e

SleepInv ==
    /\ pending \in Seq(EventNames)
    /\ sleeping \in BOOLEAN
    /\ observed \in BOOLEAN
    /\ policy.force_sleep = sleeping
    /\ accepting => \/ observed = sleeping
             \/ Has(pending, "SleepEntered")
             \/ Has(pending, "SleepExited")
    /\ Has(pending, "SleepEntered") => sleeping
    /\ Has(pending, "SleepExited") => ~sleeping

(* Events.push: an event is in a concatenation if it is in a part.         *)
LEMMA HasConcat ==
    ASSUME NEW p \in Seq(EventNames), NEW q \in Seq(EventNames), NEW e
    PROVE  /\ p \o q \in Seq(EventNames)
           /\ Has(p \o q, e) <=> Has(p, e) \/ Has(q, e)
  <1>1. /\ p \o q \in Seq(EventNames)
        /\ Len(p \o q) = Len(p) + Len(q)
        /\ \A i \in 1 .. Len(p) + Len(q) :
             (p \o q)[i] = IF i <= Len(p) THEN p[i] ELSE q[i - Len(p)]
    BY SeqConcat
  <1>2. Len(p) \in Nat /\ Len(q) \in Nat
    BY SeqLength
  <1>3. ASSUME Has(p \o q, e) PROVE Has(p, e) \/ Has(q, e)
    <2>1. PICK i \in 1 .. Len(p) + Len(q) : (p \o q)[i] = e
      BY <1>1, <1>3 DEF Has
    <2>2. CASE i <= Len(p)
      BY <1>1, <1>2, <2>1, <2>2, SMT DEF Has
    <2>3. CASE i > Len(p)
      <3>1. i - Len(p) \in 1 .. Len(q) /\ q[i - Len(p)] = e
        BY <1>1, <1>2, <2>1, <2>3, SMT
      <3> QED
        BY <3>1 DEF Has
    <2> QED
      BY <1>2, <2>1, <2>2, <2>3, SMT
  <1>4. ASSUME Has(p, e) PROVE Has(p \o q, e)
    <2>1. PICK i \in 1 .. Len(p) : p[i] = e
      BY <1>4 DEF Has
    <2>2. i \in 1 .. Len(p) + Len(q) /\ (p \o q)[i] = e
      BY <1>1, <1>2, <2>1, SMT
    <2> QED
      BY <1>1, <2>2 DEF Has
  <1>5. ASSUME Has(q, e) PROVE Has(p \o q, e)
    <2>1. PICK i \in 1 .. Len(q) : q[i] = e
      BY <1>5 DEF Has
    <2>2. Len(p) + i \in 1 .. Len(p) + Len(q) /\ (p \o q)[Len(p) + i] = e
      BY <1>1, <1>2, <2>1, SMT
    <2> QED
      BY <1>1, <2>2 DEF Has
  <1> QED
    BY <1>1, <1>3, <1>4, <1>5

(* A conditional push appends an event or nothing.                         *)
LEMMA WhenType ==
    ASSUME NEW condition, NEW e \in EventNames
    PROVE  When(condition, e) \in Seq(EventNames)
  <1>1. <<e>> \in Seq(EventNames) /\ <<>> \in Seq(EventNames)
    BY SMT
  <1> QED
    BY <1>1 DEF When

(* evaluate announces a change of forced sleep, and nothing else about it. *)
LEMMA SleepEvents ==
    ASSUME NEW s
    PROVE  /\ EventsFor(s) \in Seq(EventNames)
           /\ Has(EventsFor(s), "SleepEntered") <=> force_sleep(s) /\ ~sleeping
           /\ Has(EventsFor(s), "SleepExited") <=> ~force_sleep(s) /\ sleeping
  <1> DEFINE e1 == When(battery_low(s), "BatteryLow")
             e2 == When(thermal_high(s), "ThermalHigh")
             e3 == When(force_sleep(s) /\ ~sleeping, "SleepEntered")
             e4 == When(~force_sleep(s) /\ sleeping, "SleepExited")
             e5 == When(effective_mode(s) \in {"REDUCED", "SILENT"}, "ModelDowngrade")
             e6 == When(effective_mode(s) = "SILENT", "ModelUnload")
  <1>1. /\ e1 \in Seq(EventNames) /\ e2 \in Seq(EventNames) /\ e3 \in Seq(EventNames)
        /\ e4 \in Seq(EventNames) /\ e5 \in Seq(EventNames) /\ e6 \in Seq(EventNames)
    <2>1. {"BatteryLow", "ThermalHigh", "SleepEntered", "SleepExited", "ModelDowngrade",
           "ModelUnload"} \subseteq EventNames
      BY DEF EventNames
    <2> QED
      BY <2>1, WhenType
  <1>2. ASSUME NEW f \in {"SleepEntered", "SleepExited"}
        PROVE  ~Has(e1, f) /\ ~Has(e2, f) /\ ~Has(e5, f) /\ ~Has(e6, f)
    BY SMT DEF When, Has
  <1>3. /\ Has(e3, "SleepEntered") <=> force_sleep(s) /\ ~sleeping
        /\ ~Has(e3, "SleepExited")
        /\ Has(e4, "SleepExited") <=> ~force_sleep(s) /\ sleeping
        /\ ~Has(e4, "SleepEntered")
    BY SMT DEF When, Has
  <1>4. EventsFor(s) = e1 \o e2 \o e3 \o e4 \o e5 \o e6
    BY DEF EventsFor
  <1> HIDE DEF e1, e2, e3, e4, e5, e6
  <1>5. ASSUME NEW f \in {"SleepEntered", "SleepExited"}
        PROVE  /\ e1 \o e2 \o e3 \o e4 \o e5 \o e6 \in Seq(EventNames)
               /\ Has(e1 \o e2 \o e3 \o e4 \o e5 \o e6, f) <=> Has(e3, f) \/ Has(e4, f)
    <2>1. /\ e1 \o e2 \in Seq(EventNames)
          /\ Has(e1 \o e2, f) <=> Has(e1, f) \/ Has(e2, f)
      BY <1>1, HasConcat
    <2>2. /\ (e1 \o e2) \o e3 \in Seq(EventNames)
          /\ Has((e1 \o e2) \o e3, f) <=> Has(e1 \o e2, f) \/ Has(e3, f)
      BY <1>1, <2>1, HasConcat
    <2>3. /\ (e1 \o e2 \o e3) \o e4 \in Seq(EventNames)
          /\ Has((e1 \o e2 \o e3) \o e4, f) <=> Has(e1 \o e2 \o e3, f) \/ Has(e4, f)
      BY <1>1, <2>2, HasConcat
    <2>4. /\ (e1 \o e2 \o e3 \o e4) \o e5 \in Seq(EventNames)
          /\ Has((e1 \o e2 \o e3 \o e4) \o e5, f) <=> Has(e1 \o e2 \o e3 \o e4, f) \/ Has(e5, f)
      BY <1>1, <2>3, HasConcat
    <2>5. /\ (e1 \o e2 \o e3 \o e4 \o e5) \o e6 \in Seq(EventNames)
          /\ Has((e1 \o e2 \o e3 \o e4 \o e5) \o e6, f)
               <=> Has(e1 \o e2 \o e3 \o e4 \o e5, f) \/ Has(e6, f)
      BY <1>1, <2>4, HasConcat
    <2> QED
      BY <1>2, <2>1, <2>2, <2>3, <2>4, <2>5
  <1> QED
    BY <1>3, <1>4, <1>5

(* Publishing takes the first event off.                                   *)
LEMMA HasTail ==
    ASSUME NEW q \in Seq(EventNames), q # <<>>, NEW e
    PROVE  /\ Tail(q) \in Seq(EventNames)
           /\ Has(q, e) <=> Head(q) = e \/ Has(Tail(q), e)
  <1>1. /\ Tail(q) \in Seq(EventNames)
        /\ Len(Tail(q)) = Len(q) - 1
        /\ \A i \in 1 .. Len(Tail(q)) : Tail(q)[i] = q[i + 1]
    BY SeqHeadTail
  <1>2. Len(q) \in Nat \ {0} /\ Head(q) = q[1]
    BY SeqEmpty, SeqLength, SMT
  <1>3. ASSUME Has(q, e) PROVE Head(q) = e \/ Has(Tail(q), e)
    <2>1. PICK i \in 1 .. Len(q) : q[i] = e
      BY <1>3 DEF Has
    <2>2. CASE i = 1
      BY <1>2, <2>1, <2>2
    <2>3. CASE i # 1
      <3>1. i - 1 \in 1 .. Len(Tail(q)) /\ Tail(q)[i - 1] = e
        BY <1>1, <1>2, <2>1, <2>3, SMT
      <3> QED
        BY <3>1 DEF Has
    <2> QED
      BY <2>2, <2>3
  <1>4. ASSUME Has(Tail(q), e) PROVE Has(q, e)
    <2>1. PICK i \in 1 .. Len(Tail(q)) : Tail(q)[i] = e
      BY <1>4 DEF Has
    <2>2. i + 1 \in 1 .. Len(q) /\ q[i + 1] = e
      BY <1>1, <1>2, <2>1, SMT
    <2> QED
      BY <2>2 DEF Has
  <1>5. ASSUME Head(q) = e PROVE Has(q, e)
    BY <1>2, <1>5, SMT DEF Has
  <1> QED
    BY <1>1, <1>3, <1>4, <1>5

(* evaluate_and_publish: as long as the bus takes events, subscribers that *)
(* have heard all of them know whether the system is in forced sleep.      *)
THEOREM SleepIsAnnounced == Spec => []SubscribersKnowSleep
  <1>1. Init => SleepInv
    <2> SUFFICES ASSUME Init PROVE SleepInv
      OBVIOUS
    <2>1. pending = <<>> /\ sleeping = FALSE /\ observed = FALSE
      BY DEF Init
    <2>2. policy.force_sleep = FALSE
      BY DEF Init, DefaultPolicy
    <2>3. pending \in Seq(EventNames)
      BY <2>1, SMT
    <2>4. ~Has(pending, "SleepEntered") /\ ~Has(pending, "SleepExited")
      BY <2>1, SMT DEF Has
    <2> QED
      BY <2>1, <2>2, <2>3, <2>4 DEF SleepInv
  <1>2. SleepInv /\ [Next]_vars => SleepInv'
    <2> SUFFICES ASSUME SleepInv, [Next]_vars
                 PROVE  SleepInv'
      OBVIOUS
    <2>1. ASSUME NEW s \in Samples, Evaluate(s)
          PROVE  SleepInv'
      <3>1. force_sleep(s) \in BOOLEAN
        BY DEF force_sleep
      <3>2. /\ sleeping' = force_sleep(s)
            /\ policy'.force_sleep = force_sleep(s)
            /\ pending' = EventsFor(s)
            /\ accepting' = accepting /\ observed' = observed
            /\ pending = <<>>
        BY <2>1 DEF Evaluate, PolicyFor
      <3>3. ~Has(pending, "SleepEntered") /\ ~Has(pending, "SleepExited")
        BY <3>2, SMT DEF Has
      <3>4. accepting => observed = sleeping
        BY <3>3 DEF SleepInv
      <3>5. /\ pending' \in Seq(EventNames)
            /\ Has(pending', "SleepEntered") <=> force_sleep(s) /\ ~sleeping
            /\ Has(pending', "SleepExited") <=> ~force_sleep(s) /\ sleeping
        BY <3>2, SleepEvents
      <3>6. observed \in BOOLEAN /\ sleeping \in BOOLEAN
        BY DEF SleepInv
      <3> QED
        BY <3>1, <3>2, <3>4, <3>5, <3>6 DEF SleepInv, Has
    <2>2. CASE Publish
      <3>1. pending # <<>> /\ pending' = Tail(pending)
        BY <2>2 DEF Publish
      <3>2. UNCHANGED <<sleeping, policy, accepting>>
        BY <2>2 DEF Publish
      <3>3. pending \in Seq(EventNames) /\ sleeping \in BOOLEAN /\ observed \in BOOLEAN
        BY DEF SleepInv
      <3>4. /\ pending' \in Seq(EventNames)
            /\ Has(pending, "SleepEntered")
                 <=> Head(pending) = "SleepEntered" \/ Has(pending', "SleepEntered")
            /\ Has(pending, "SleepExited")
                 <=> Head(pending) = "SleepExited" \/ Has(pending', "SleepExited")
        BY <3>1, <3>3, HasTail
      <3>5. CASE Head(pending) = "SleepEntered"
        <4>1. observed' = TRUE /\ sleeping = TRUE
          BY <2>2, <3>4, <3>5 DEF Publish, SleepInv
        <4> QED
          BY <3>2, <3>3, <3>4, <4>1 DEF SleepInv, Has
      <3>6. CASE Head(pending) = "SleepExited"
        <4>1. observed' = FALSE /\ sleeping = FALSE
          BY <2>2, <3>3, <3>4, <3>6 DEF Publish, SleepInv
        <4> QED
          BY <3>2, <3>3, <3>4, <4>1 DEF SleepInv, Has
      <3>7. CASE Head(pending) \notin {"SleepEntered", "SleepExited"}
        <4>1. observed' = observed
          BY <2>2, <3>7 DEF Publish
        <4> QED
          BY <3>2, <3>3, <3>4, <3>7, <4>1 DEF SleepInv, Has
      <3> QED
        BY <3>5, <3>6, <3>7
    <2>3. CASE PublishFails
      BY <2>3, SMT DEF PublishFails, SleepInv, Has
    <2>4. CASE BusShutdown
      BY <2>4 DEF BusShutdown, SleepInv, Has
    <2>5. CASE UNCHANGED vars
      BY <2>5 DEF vars, SleepInv, Has
    <2> QED
      BY <2>1, <2>2, <2>3, <2>4, <2>5 DEF Next
  <1>3. SleepInv => SubscribersKnowSleep
    BY SMT DEF SleepInv, SubscribersKnowSleep, Has
  <1> QED
    BY <1>1, <1>2, <1>3, PTL DEF Spec
-----------------------------------------------------------------------------
(* Forced sleep stops the LLM and proactivity, asks for the model to be    *)
(* unloaded and never happens on external power, whatever the thresholds.  *)
THEOREM ForcedSleepIsQuiet == Spec => []SleepIsQuiet
  <1>1. Init => SleepIsQuiet
    BY SMT DEF Init, SleepIsQuiet, DefaultPolicy
  <1>2. SleepIsQuiet /\ [Next]_vars => SleepIsQuiet'
    <2> SUFFICES ASSUME SleepIsQuiet, [Next]_vars
                 PROVE  SleepIsQuiet'
      OBVIOUS
    <2>1. ASSUME NEW s \in Samples, Evaluate(s)
          PROVE  SleepIsQuiet'
      BY <2>1 DEF Evaluate, SleepIsQuiet, PolicyFor, force_sleep, authorize_execution
    <2>2. CASE UNCHANGED <<policy, sample>>
      BY <2>2 DEF SleepIsQuiet
    <2> QED
      BY <2>1, <2>2 DEF Next, vars, Publish, PublishFails, BusShutdown
  <1> QED
    BY <1>1, <1>2, PTL DEF Spec

=============================================================================
