----------------------------- MODULE Scheduler -----------------------------
(***************************************************************************)
(* The housekeeping scheduler: controllers start and stop it and register  *)
(* periodic tasks, loop threads run the tasks that are due.                *)
(*                                                                         *)
(* start() and stop() are split at the accesses other threads see: the     *)
(* `running` flag, the spawn, the handle mutex (which stop() holds while   *)
(* it joins the loop) and the join.  A loop reads the time before it has   *)
(* the mutex of the tasks.  A task's action may panic, which ends the loop *)
(* and poisons that mutex.  Time advances in steps of one tick up to a     *)
(* bound, independently of the threads.                                    *)
(*                                                                         *)
(* A definition with a suffix after `__` is an erroneous variant of the    *)
(* definition it precedes; no specification uses it.                       *)
(***************************************************************************)
EXTENDS Integers, Sequences, FiniteSets

CONSTANTS
    Controllers,    \* threads that call start, stop and register_task
    LoopIds,        \* bound: loop threads ever spawned
    Tasks,          \* task names, registered at most once each
    Interval,       \* intervals in ticks (interval.max(tick): at least 1)
    SchedulerCalls, \* bound: calls of start and stop
    MaxTime         \* bound: ticks

ASSUME SchedulerAssumption ==
    /\ Interval \in [Tasks -> Nat \ {0}]
    /\ SchedulerCalls \in Nat /\ MaxTime \in Nat
    /\ "none" \notin LoopIds \cup Controllers

VARIABLES
    running,        \* running
    handle,         \* handle: the loop it joins, or "none"
    joining,        \* controller holding the handle mutex, or "none"
    tasks,          \* tasks: names in order of registration
    next,           \* next_run of each registered task
    locked,         \* loop holding the mutex of the tasks, or "none"
    poisoned,       \* a panic poisoned that mutex
    now,            \* Instant::now()
    caller,         \* where each controller is
    mine,           \* loop a controller has spawned or joins
    loop,           \* where each loop is
    read, todo,     \* a loop's `now`, and the tasks it has not looked at
    raced,          \* history: a start and a stop overlapped
    used            \* calls made

control == <<running, handle, joining, caller, mine, raced, used>>
work    == <<tasks, next, locked, poisoned, loop, read, todo>>
svars   == <<control, work, now>>

Alive == {l \in LoopIds : loop[l] \notin {"unborn", "done"}}

-----------------------------------------------------------------------------
SchedulerInit ==
    /\ running = FALSE /\ handle = "none" /\ joining = "none"
    /\ tasks = <<>> /\ next = [t \in {} |-> 0] /\ locked = "none" /\ poisoned = FALSE
    /\ now = 0
    /\ caller = [c \in Controllers |-> "idle"]
    /\ mine = [c \in Controllers |-> "none"]
    /\ loop = [l \in LoopIds |-> "unborn"]
    /\ read = [l \in LoopIds |-> 0] /\ todo = [l \in LoopIds |-> <<>>]
    /\ raced = FALSE /\ used = 0

\* register_task; a poisoned mutex makes it return false.
RegisterTask(c, t) ==
    /\ caller[c] = "idle" /\ locked = "none" /\ ~poisoned /\ t \notin DOMAIN next
    /\ tasks' = Append(tasks, t)
    /\ next' = [x \in DOMAIN next \cup {t} |-> IF x = t THEN now + Interval[t] ELSE next[x]]
    /\ UNCHANGED <<control, locked, poisoned, loop, read, todo, now>>

\* start(): the flag's swap decides who spawns.
Start(c) ==
    /\ caller[c] = "idle" /\ used < SchedulerCalls
    /\ used' = used + 1
    /\ running' = TRUE
    /\ caller' = [caller EXCEPT ![c] = IF running THEN "idle" ELSE "spawn"]
    /\ raced' = (raced \/ \E d \in Controllers : caller[d] \in {"take", "join"})
    /\ UNCHANGED <<handle, joining, mine, work, now>>

Spawn(c) ==
    /\ caller[c] = "spawn"
    /\ \E l \in LoopIds :
         /\ loop[l] = "unborn"
         /\ loop' = [loop EXCEPT ![l] = "check"]
         /\ mine' = [mine EXCEPT ![c] = l]
    /\ caller' = [caller EXCEPT ![c] = "store"]
    /\ UNCHANGED <<running, handle, joining, raced, used, tasks, next, locked, poisoned, read, todo, now>>

Store(c) ==
    /\ caller[c] = "store" /\ joining = "none"
    /\ handle' = mine[c]
    /\ mine' = [mine EXCEPT ![c] = "none"]
    /\ caller' = [caller EXCEPT ![c] = "idle"]
    /\ UNCHANGED <<running, joining, raced, used, work, now>>

\* stop(), also from Drop: clear the flag, take the handle, join the loop
\* with the handle mutex held.
Stop(c) ==
    /\ caller[c] = "idle" /\ used < SchedulerCalls
    /\ used' = used + 1
    /\ running' = FALSE
    /\ caller' = [caller EXCEPT ![c] = "take"]
    /\ raced' = (raced \/ \E d \in Controllers : caller[d] \in {"spawn", "store"})
    /\ UNCHANGED <<handle, joining, mine, work, now>>

Take__detaching(c) ==
    /\ caller[c] = "take" /\ joining = "none"
    /\ handle' = "none"
    /\ caller' = [caller EXCEPT ![c] = "idle"]
    /\ UNCHANGED <<running, joining, mine, raced, used, work, now>>

Take(c) ==
    /\ caller[c] = "take" /\ joining = "none"
    /\ IF handle = "none"
       THEN /\ caller' = [caller EXCEPT ![c] = "idle"]
            /\ UNCHANGED <<handle, joining, mine>>
       ELSE /\ caller' = [caller EXCEPT ![c] = "join"]
            /\ joining' = c
            /\ mine' = [mine EXCEPT ![c] = handle]
            /\ handle' = "none"
    /\ UNCHANGED <<running, raced, used, work, now>>

Join(c) ==
    /\ caller[c] = "join" /\ loop[mine[c]] = "done"
    /\ joining' = "none"
    /\ mine' = [mine EXCEPT ![c] = "none"]
    /\ caller' = [caller EXCEPT ![c] = "idle"]
    /\ UNCHANGED <<running, handle, raced, used, work, now>>

Call(c) == Spawn(c) \/ Store(c) \/ Take(c) \/ Join(c)

-----------------------------------------------------------------------------
(* The loop thread.                                                        *)

Check__endless(l) ==
    /\ loop[l] = "check"
    /\ loop' = [loop EXCEPT ![l] = "lock"]
    /\ read' = [read EXCEPT ![l] = now]
    /\ UNCHANGED <<control, tasks, next, locked, poisoned, todo, now>>

Check(l) ==
    /\ loop[l] = "check"
    /\ loop' = [loop EXCEPT ![l] = IF running THEN "lock" ELSE "done"]
    /\ read' = [read EXCEPT ![l] = IF running THEN now ELSE 0]
    /\ UNCHANGED <<control, tasks, next, locked, poisoned, todo, now>>

\* A poisoned mutex makes the loop skip the tasks, for ever.
Lock(l) ==
    /\ loop[l] = "lock" /\ locked = "none"
    /\ IF poisoned
       THEN loop' = [loop EXCEPT ![l] = "check"] /\ UNCHANGED <<locked, todo>>
       ELSE /\ loop' = [loop EXCEPT ![l] = "scan"]
            /\ locked' = l
            /\ todo' = [todo EXCEPT ![l] = tasks]
    /\ UNCHANGED <<control, tasks, next, poisoned, read, now>>

\* Look at the next task and run it if it was due when the loop read the
\* time; after the last one release the mutex and sleep for a tick.
Scan__breaking(l) ==
    /\ loop[l] = "scan"
    /\ IF todo[l] = <<>> \/ read[l] < next[Head(todo[l])]
       THEN /\ loop' = [loop EXCEPT ![l] = "check"]
            /\ locked' = "none"
            /\ todo' = [todo EXCEPT ![l] = <<>>]
            /\ UNCHANGED next
       ELSE /\ todo' = [todo EXCEPT ![l] = Tail(@)]
            /\ next' = [next EXCEPT ![Head(todo[l])] = read[l] + Interval[Head(todo[l])]]
            /\ UNCHANGED <<loop, locked>>
    /\ UNCHANGED <<control, tasks, poisoned, read, now>>

Scan(l) ==
    /\ loop[l] = "scan"
    /\ IF todo[l] = <<>>
       THEN /\ loop' = [loop EXCEPT ![l] = "check"]
            /\ locked' = "none"
            /\ UNCHANGED <<todo, next>>
       ELSE LET t == Head(todo[l]) IN
            /\ todo' = [todo EXCEPT ![l] = Tail(@)]
            /\ next' = [next EXCEPT ![t] = IF read[l] >= @ THEN read[l] + Interval[t] ELSE @]
            /\ UNCHANGED <<loop, locked>>
    /\ UNCHANGED <<control, tasks, poisoned, read, now>>

\* The action of a due task panics.
Panic(l) ==
    /\ loop[l] = "scan" /\ todo[l] # <<>> /\ read[l] >= next[Head(todo[l])]
    /\ loop' = [loop EXCEPT ![l] = "done"]
    /\ locked' = "none" /\ poisoned' = TRUE
    /\ todo' = [todo EXCEPT ![l] = <<>>]
    /\ UNCHANGED <<control, tasks, next, read, now>>

LoopStep(l) == Check(l) \/ Lock(l) \/ Scan(l)

Tick ==
    /\ now < MaxTime
    /\ now' = now + 1
    /\ UNCHANGED <<control, work>>

SchedulerNext ==
    \/ \E c \in Controllers, t \in Tasks : RegisterTask(c, t)
    \/ \E c \in Controllers : Start(c) \/ Stop(c) \/ Call(c)
    \/ \E l \in LoopIds : LoopStep(l) \/ Panic(l)
    \/ Tick

SchedulerSpec == SchedulerInit /\ [][SchedulerNext]_svars

\* Threads run; the mutex of the tasks is let go between any two turns of a
\* loop, which sleeps for a tick, so a waiting loop gets it in the end.
SchedulerFairness ==
    /\ \A c \in Controllers : WF_svars(Call(c))
    /\ \A l \in LoopIds : WF_svars(LoopStep(l)) /\ SF_svars(Lock(l))

-----------------------------------------------------------------------------
(* Properties.                                                             *)

\* As long as no start() overlapped a stop() there is at most one loop, and
\* none once stop() has returned: restarting never leaves an earlier loop
\* behind to run the tasks twice.
OneLoop ==
    ~raced => /\ \A k, l \in Alive : k = l
              /\ (\A c \in Controllers : caller[c] = "idle") /\ ~running => Alive = {}

\* Every call of start() and stop() returns, unless a start() that sets the
\* flag again keeps alive the loop that a stop() is joining.
SchedulerReturns ==
    \A c \in Controllers : (caller[c] # "idle") ~> (caller[c] = "idle" \/ raced)

\* A task that is due is run while the scheduler runs, whatever tasks are
\* before it in the list, unless an action panicked.
DueTaskRuns ==
    \A t \in Tasks, n \in 1..MaxTime :
        (t \in DOMAIN next /\ next[t] = n /\ n <= now) ~>
            (t \in DOMAIN next /\ next[t] # n) \/ ~running \/ poisoned
=============================================================================
