------------------------------ MODULE EventBus ------------------------------
(***************************************************************************)
(* The typed event bus of the OS supervisor (os/src/event_bus.rs).         *)
(*                                                                         *)
(* Client threads share clones of one EventBus handle and call publish,    *)
(* subscribe, unsubscribe, shutdown and drop.  One dispatch thread takes   *)
(* commands from a bounded channel and runs the subscribed handlers itself, *)
(* so a handler that continues a trace sends into the queue that only its  *)
(* own thread empties.  Every lock operation of the code is one step; what *)
(* a thread does between two of them touches only its locals.  A fetch_add *)
(* on next_id is taken with the step next to it, since only the uniqueness *)
(* of ids can be observed.                                                 *)
(*                                                                         *)
(* A definition with a suffix after `__` is an erroneous variant of the    *)
(* definition it precedes; no specification uses it.                       *)
(***************************************************************************)
EXTENDS Integers, Sequences, FiniteSets

CONSTANTS
    Clients,         \* threads that own a handle to the bus
    Events,          \* event types in use
    Kinds,           \* what handlers do: "observe", or "relay" (continue_trace)
    QueueCapacity,   \* the three arguments of EventBus::new
    MaxHops,
    TraceCapacity,
    MaxPublish,      \* bound: publish calls started by clients
    MaxSubs          \* bound: subscriptions ever made

U8Max == 255

ASSUME EventBusAssumption ==
    /\ Kinds \subseteq {"observe", "relay"}
    /\ QueueCapacity \in Nat
    /\ MaxHops \in 0 .. U8Max
    /\ TraceCapacity \in Nat
    /\ MaxPublish \in Nat
    /\ MaxSubs \in Nat

ASSUME ClientsAssumption == IsFiniteSet(Clients)

AtLeastOne(n) == IF n < 1 THEN 1 ELSE n
Capacity == AtLeastOne(QueueCapacity)
HopLimit == AtLeastOne(MaxHops)
TraceLimit == AtLeastOne(TraceCapacity)

VARIABLES
    active,      \* EventBusInner.active
    queue,       \* the bounded channel
    subs,        \* EventBusInner.subscribers: handlers per event, in order
    traces,      \* EventBusInner.traces
    nextId,      \* EventBusInner.next_id
    pc,          \* where each client thread is in its call
    call,        \* the envelope or subscription a client's call is about
    handles,     \* clients whose EventBus handle is not yet dropped
    dpc,         \* where the dispatch thread is
    cur,         \* the envelope being dispatched
    todo,        \* handlers of the snapshot that still have to run
    out,         \* the envelope a relaying handler is sending
    accepted,    \* history: envelopes whose send returned Ok, in order
    received,    \* history: envelopes the dispatch thread took from the channel
    closing,     \* history: Len(accepted) when shutdown was requested, or -1
    started      \* history: publish and subscribe calls started

bus == <<active, queue, subs, traces, nextId>>
clients == <<pc, call, handles>>
dispatcher == <<dpc, cur, todo, out>>
history == <<accepted, received, closing, started>>
vars == <<active, queue, subs, traces, nextId, pc, call, handles,
          dpc, cur, todo, out, accepted, received, closing, started>>

(***************************************************************************)
(* Channel commands: BusCommand::Publish(envelope) is the envelope itself. *)
(* Ids start at 1, so BusCommand::Stop is the record with id 0.            *)
(***************************************************************************)
Envelope == [id : Nat \ {0}, trace : Nat, hop : 0 .. U8Max, event : Events]
Stop == [id |-> 0, trace |-> 0, hop |-> 0, event |-> "Stop"]
Subscriber == [id : Nat, kind : Kinds]

NoEnvelope == [id |-> 0, trace |-> 0, hop |-> 0, event |-> "none"]

Publishing(e, trace) == [id |-> 0, trace |-> trace, hop |-> 0, event |-> e]
Subscribing(e, k) == [event |-> e, kind |-> k]

DispatcherStopped == dpc = "stopped"

Init ==
    /\ active = TRUE
    /\ queue = <<>>
    /\ subs = [e \in Events |-> <<>>]
    /\ traces = <<>>
    /\ nextId = 1
    /\ pc = [c \in Clients |-> "idle"]
    /\ call = [c \in Clients |-> NoEnvelope]
    /\ handles = Clients
    /\ dpc = "recv"
    /\ cur = NoEnvelope
    /\ todo = <<>>
    /\ out = NoEnvelope
    /\ accepted = <<>>
    /\ received = <<>>
    /\ closing = -1
    /\ started = [publish |-> 0, subscribe |-> 0]
-----------------------------------------------------------------------------
(* Client calls *)

Goto(c, l) == pc' = [pc EXCEPT ![c] = l]

(* publish: the trace id is taken before the bus is known to be active.    *)
Publish(c, e) ==
    /\ pc[c] = "idle"
    /\ started.publish < MaxPublish
    /\ call' = [call EXCEPT ![c] = Publishing(e, nextId)]
    /\ nextId' = nextId + 1
    /\ started' = [started EXCEPT !.publish = @ + 1]
    /\ Goto(c, "check")
    /\ UNCHANGED <<active, queue, subs, traces, handles, accepted, received, closing>>
    /\ UNCHANGED dispatcher

(* publish_with_trace: AlreadyShutdown and RecursionLimitExceeded return.  *)
PublishRefused(c) ==
    /\ pc[c] = "check"
    /\ ~active \/ call[c].hop > HopLimit
    /\ Goto(c, "idle")
    /\ UNCHANGED <<call, handles>>
    /\ UNCHANGED bus /\ UNCHANGED dispatcher /\ UNCHANGED history

PublishAdmitted(c) ==
    /\ pc[c] = "check"
    /\ active /\ call[c].hop <= HopLimit
    /\ call' = [call EXCEPT ![c].id = nextId]
    /\ nextId' = nextId + 1
    /\ Goto(c, "send")
    /\ UNCHANGED <<active, queue, subs, traces, handles>>
    /\ UNCHANGED dispatcher /\ UNCHANGED history

(* tx.send blocks while the channel is full and fails once the receiver,   *)
(* which the dispatch thread owns, is gone.                                *)
CanSend == ~DispatcherStopped /\ Len(queue) < Capacity

PublishSend(c) ==
    /\ pc[c] = "send"
    /\ CanSend
    /\ queue' = Append(queue, call[c])
    /\ accepted' = Append(accepted, call[c])
    /\ Goto(c, "idle")
    /\ UNCHANGED <<active, subs, traces, nextId, call, handles, received, closing, started>>
    /\ UNCHANGED dispatcher

PublishDisconnected(c) ==
    /\ pc[c] = "send"
    /\ DispatcherStopped
    /\ Goto(c, "idle")
    /\ UNCHANGED <<call, handles>>
    /\ UNCHANGED bus /\ UNCHANGED dispatcher /\ UNCHANGED history

(* subscribe: the active check and the push are under different locks.     *)
Subscribe(c, e, k) ==
    /\ pc[c] = "idle"
    /\ started.subscribe < MaxSubs
    /\ active
    /\ call' = [call EXCEPT ![c] = Subscribing(e, k)]
    /\ started' = [started EXCEPT !.subscribe = @ + 1]
    /\ Goto(c, "push")
    /\ UNCHANGED <<handles, accepted, received, closing>>
    /\ UNCHANGED bus /\ UNCHANGED dispatcher

SubscribePush(c) ==
    /\ pc[c] = "push"
    /\ subs' = [subs EXCEPT ![call[c].event] =
                  Append(@, [id |-> nextId, kind |-> call[c].kind])]
    /\ nextId' = nextId + 1
    /\ Goto(c, "idle")
    /\ UNCHANGED <<active, queue, traces, call, handles>>
    /\ UNCHANGED dispatcher /\ UNCHANGED history

Unsubscribe(c, e, i) ==
    /\ pc[c] = "idle"
    /\ subs' = [subs EXCEPT ![e] = SubSeq(@, 1, i - 1) \o SubSeq(@, i + 1, Len(@))]
    /\ UNCHANGED <<active, queue, traces, nextId>>
    /\ UNCHANGED clients /\ UNCHANGED dispatcher /\ UNCHANGED history

(* shutdown: only the caller that flips `active` sends Stop and joins.     *)
MarkInactive(c) ==
    /\ active' = FALSE
    /\ closing' = Len(accepted)
    /\ Goto(c, "stop")

Shutdown(c) ==
    /\ pc[c] = "idle"
    /\ active
    /\ MarkInactive(c)
    /\ UNCHANGED <<queue, subs, traces, nextId, call, handles, accepted, received, started>>
    /\ UNCHANGED dispatcher

ShutdownSend__ahead(c) ==
    /\ pc[c] = "stop"
    /\ CanSend
    /\ queue' = <<Stop>> \o queue
    /\ Goto(c, "join")
    /\ UNCHANGED <<active, subs, traces, nextId, call, handles>>
    /\ UNCHANGED dispatcher /\ UNCHANGED history

ShutdownSend__drains(c) ==
    /\ pc[c] = "stop"
    /\ ~DispatcherStopped
    /\ queue' = <<Stop>>
    /\ Goto(c, "join")
    /\ UNCHANGED <<active, subs, traces, nextId, call, handles>>
    /\ UNCHANGED dispatcher /\ UNCHANGED history

ShutdownSend__forgotten(c) ==
    /\ pc[c] = "stop"
    /\ Goto(c, "join")
    /\ UNCHANGED <<call, handles>>
    /\ UNCHANGED bus /\ UNCHANGED dispatcher /\ UNCHANGED history

ShutdownSend(c) ==
    /\ pc[c] = "stop"
    /\ CanSend
    /\ queue' = Append(queue, Stop)
    /\ Goto(c, "join")
    /\ UNCHANGED <<active, subs, traces, nextId, call, handles>>
    /\ UNCHANGED dispatcher /\ UNCHANGED history

ShutdownJoin(c) ==
    /\ pc[c] = "join"
    /\ DispatcherStopped
    /\ Goto(c, IF c \in handles THEN "idle" ELSE "gone")
    /\ UNCHANGED <<call, handles>>
    /\ UNCHANGED bus /\ UNCHANGED dispatcher /\ UNCHANGED history

(* Arc::strong_count(&inner): handles, the clones that relaying handlers   *)
(* captured, and the clone the dispatch thread runs on.                    *)
StrongCount ==
    Cardinality(handles)
      + Cardinality({s \in Events \X (1 .. MaxSubs) :
                       s[2] \in DOMAIN subs[s[1]] /\ subs[s[1]][s[2]].kind = "relay"})
      + (IF DispatcherStopped THEN 0 ELSE 1)

DropHandle(c) ==
    /\ pc[c] = "idle"
    /\ handles' = handles \ {c}
    /\ IF StrongCount = 1 /\ active
         THEN MarkInactive(c)
         ELSE Goto(c, "gone") /\ UNCHANGED <<active, closing>>
    /\ UNCHANGED <<queue, subs, traces, nextId, call, accepted, received, started>>
    /\ UNCHANGED dispatcher
-----------------------------------------------------------------------------
(* The dispatch thread *)

(* record_trace: append, then drain the overflow from the front.           *)
RecordTrace(env) ==
    LET all == Append(traces, env)
    IN IF Len(all) > TraceLimit
         THEN SubSeq(all, Len(all) - TraceLimit + 1, Len(all))
         ELSE all

Receive ==
    /\ dpc = "recv"
    /\ queue # <<>>
    /\ Head(queue) # Stop
    /\ queue' = Tail(queue)
    /\ received' = Append(received, Head(queue))
    /\ IF Head(queue).hop > HopLimit
         THEN UNCHANGED <<cur, traces, dpc>>
         ELSE /\ cur' = Head(queue)
              /\ traces' = RecordTrace(Head(queue))
              /\ dpc' = "match"
    /\ UNCHANGED <<active, subs, nextId, todo, out, accepted, closing, started>>
    /\ UNCHANGED clients

(* The loop ends: the receiver and everything still queued are dropped.    *)
ReceiveStop ==
    /\ dpc = "recv"
    /\ queue # <<>>
    /\ Head(queue) = Stop
    /\ queue' = <<>>
    /\ dpc' = "stopped"
    /\ UNCHANGED <<active, subs, traces, nextId, cur, todo, out>>
    /\ UNCHANGED clients /\ UNCHANGED history

MatchingHandlers ==
    /\ dpc = "match"
    /\ todo' = subs[cur.event]
    /\ dpc' = "run"
    /\ UNCHANGED <<cur, out>>
    /\ UNCHANGED bus /\ UNCHANGED clients /\ UNCHANGED history

RunObserver ==
    /\ dpc = "run"
    /\ todo # <<>>
    /\ Head(todo).kind = "observe"
    /\ todo' = Tail(todo)
    /\ UNCHANGED <<dpc, cur, out>>
    /\ UNCHANGED bus /\ UNCHANGED clients /\ UNCHANGED history

(* continue_trace, called by a handler on the dispatch thread.             *)
SaturatingAdd1(h) == IF h < U8Max THEN h + 1 ELSE U8Max
NextHop == SaturatingAdd1(cur.hop)

MayContinue__inactive == NextHop <= HopLimit
MayContinue__oneMore == active /\ cur.hop <= HopLimit

MayContinue == active /\ NextHop <= HopLimit

ContinueRefused ==
    /\ dpc = "run"
    /\ todo # <<>>
    /\ Head(todo).kind = "relay"
    /\ ~MayContinue
    /\ todo' = Tail(todo)
    /\ UNCHANGED <<dpc, cur, out>>
    /\ UNCHANGED bus /\ UNCHANGED clients /\ UNCHANGED history

ContinueTrace ==
    /\ dpc = "run"
    /\ todo # <<>>
    /\ Head(todo).kind = "relay"
    /\ MayContinue
    /\ out' = [id |-> nextId, trace |-> cur.trace, hop |-> NextHop, event |-> cur.event]
    /\ nextId' = nextId + 1
    /\ dpc' = "relay"
    /\ UNCHANGED <<active, queue, subs, traces, cur, todo>>
    /\ UNCHANGED clients /\ UNCHANGED history

ContinueSend ==
    /\ dpc = "relay"
    /\ CanSend
    /\ queue' = Append(queue, out)
    /\ accepted' = Append(accepted, out)
    /\ todo' = Tail(todo)
    /\ dpc' = "run"
    /\ UNCHANGED <<active, subs, traces, nextId, cur, out, received, closing, started>>
    /\ UNCHANGED clients

HandlersDone ==
    /\ dpc = "run"
    /\ todo = <<>>
    /\ dpc' = "recv"
    /\ UNCHANGED <<cur, todo, out>>
    /\ UNCHANGED bus /\ UNCHANGED clients /\ UNCHANGED history
-----------------------------------------------------------------------------
ClientCall(c) ==
    \/ \E e \in Events : Publish(c, e)
    \/ \E e \in Events, k \in Kinds : Subscribe(c, e, k)
    \/ \E e \in Events : \E i \in DOMAIN subs[e] : Unsubscribe(c, e, i)
    \/ Shutdown(c)
    \/ DropHandle(c)

ClientStep(c) ==
    \/ PublishRefused(c)
    \/ PublishAdmitted(c)
    \/ PublishSend(c)
    \/ PublishDisconnected(c)
    \/ SubscribePush(c)
    \/ ShutdownSend(c)
    \/ ShutdownJoin(c)

Dispatch ==
    \/ Receive
    \/ ReceiveStop
    \/ MatchingHandlers
    \/ RunObserver
    \/ ContinueRefused
    \/ ContinueTrace
    \/ ContinueSend
    \/ HandlersDone

Next ==
    \/ \E c \in Clients : ClientCall(c)
    \/ \E c \in Clients : ClientStep(c)
    \/ Dispatch

Spec == Init /\ [][Next]_vars

(* Threads are scheduled: a started call and the dispatch loop go on when  *)
(* they can.  Nobody has to start a call.                                  *)
Fairness == WF_vars(Dispatch) /\ \A c \in Clients : WF_vars(ClientStep(c))

FairSpec == Spec /\ Fairness
-----------------------------------------------------------------------------
(* Types: every variable ranges over what the code can store there.        *)
CallType(c) ==
    /\ pc[c] \in {"idle", "check", "send", "push", "stop", "join", "gone"}
    /\ pc[c] = "check" => call[c] \in [id : {0}, trace : Nat, hop : {0}, event : Events]
    /\ pc[c] = "send" => call[c] \in Envelope
    /\ pc[c] = "push" => call[c] \in [event : Events, kind : Kinds]

BusTypeOK ==
    /\ active \in BOOLEAN
    /\ queue \in Seq(Envelope \cup {Stop}) /\ Len(queue) <= Capacity
    /\ subs \in [Events -> Seq(Subscriber)]
    /\ traces \in Seq(Envelope) /\ Len(traces) <= TraceLimit
    /\ nextId \in Nat \ {0}

ClientTypeOK ==
    /\ DOMAIN pc = Clients /\ DOMAIN call = Clients
    /\ \A c \in Clients : CallType(c)
    /\ handles \subseteq Clients

DispatcherTypeOK ==
    /\ dpc \in {"recv", "match", "run", "relay", "stopped"}
    /\ dpc \in {"match", "run", "relay"} => cur \in Envelope
    /\ todo \in Seq(Subscriber)
    /\ dpc = "relay" => out \in Envelope /\ todo # <<>>

HistoryTypeOK ==
    /\ accepted \in Seq(Envelope)
    /\ received \in Seq(Envelope)
    /\ closing \in {-1} \cup (0 .. Len(accepted))

TypeOK == BusTypeOK /\ ClientTypeOK /\ DispatcherTypeOK /\ HistoryTypeOK

(* Shutdown is graceful: when the dispatch thread has ended, it has        *)
(* received every event whose publish returned Ok before shutdown was      *)
(* requested (event_bus.rs shutdown / dispatch_loop).                      *)
GracefulShutdown ==
    DispatcherStopped => 0 <= closing /\ closing <= Len(received)

(* Delivery is FIFO, without loss in between and without duplicates: what  *)
(* the dispatch thread has received is a prefix of what was accepted.      *)
ReceivedInOrder ==
    /\ Len(received) <= Len(accepted)
    /\ received = SubSeq(accepted, 1, Len(received))

(* An event can be accepted and yet never dispatched only by a publish     *)
(* that passed the active check before shutdown flipped it: after the flip *)
(* every other client, and the handler running then, completes at most one *)
(* send.                                                                   *)
LossIsBounded ==
    ~active => Len(accepted) - closing <= Cardinality(Clients)

ContinuesParent(i) ==
    \E j \in DOMAIN received : /\ j < i
                               /\ received[j].trace = accepted[i].trace
                               /\ received[j].hop + 1 = accepted[i].hop

HopsFollowTrace ==
    \A i \in DOMAIN accepted :
        /\ accepted[i].hop <= HopLimit
        /\ accepted[i].hop > 0 => ContinuesParent(i)

(* Recursion protection (publish_with_trace, continue_trace): an accepted  *)
(* envelope with a positive hop continues a received one of its trace, one *)
(* hop below, and none exceeds the limit; so a relay that answers every    *)
(* event with one continuation is cut off after max_hops of them, and no   *)
(* trace has more than max_hops + 1 envelopes.                             *)
RelayChainEnds ==
    /\ HopsFollowTrace
    /\ MaxSubs = 1 =>
         \A t \in 1 .. nextId :
           Cardinality({i \in DOMAIN accepted : accepted[i].trace = t}) <= HopLimit + 1

(* The bus implements its contract: histories map to the log and the       *)
(* deliveries, `active` and the state of the dispatch thread to the phase. *)
Contract == INSTANCE BusContract WITH
    Message <- Envelope,
    log <- accepted,
    delivered <- received,
    mark <- closing,
    phase <- IF DispatcherStopped THEN "finished" ELSE IF active THEN "open" ELSE "closing"

ImplementsContract == Contract!Spec

(* Every event accepted while the bus was active is eventually received,   *)
(* whether or not the bus is shut down meanwhile.                          *)
AcceptedIsDispatched ==
    \A n \in 1 .. MaxPublish : (active /\ Len(accepted) >= n) ~> (Len(received) >= n)

(* A shutdown call returns.                                                *)
ShutdownReturns ==
    \A c \in Clients : (pc[c] = "stop") ~> (pc[c] \in {"idle", "gone"})
=============================================================================
