---------------------------- MODULE BusContract ----------------------------
(***************************************************************************)
(* What the event bus promises its users, without threads, channel or      *)
(* handlers: accepted messages form a log; the log is delivered in order,  *)
(* each entry once; after a close request messages may still be accepted   *)
(* for a while, but the bus finishes only when everything accepted before  *)
(* the request is delivered, and then neither accepts nor delivers.        *)
(***************************************************************************)
EXTENDS Integers, Sequences

CONSTANT Message

VARIABLES log, delivered, mark, phase

contract == <<log, delivered, mark, phase>>

Init ==
    /\ log = <<>>
    /\ delivered = <<>>
    /\ mark = -1
    /\ phase = "open"

Accept ==
    /\ phase # "finished"
    /\ Len(log') = Len(log) + 1
    /\ log' = Append(log, log'[Len(log) + 1])
    /\ log'[Len(log) + 1] \in Message
    /\ UNCHANGED <<delivered, mark, phase>>

Deliver ==
    /\ phase # "finished"
    /\ Len(delivered) < Len(log)
    /\ delivered' = Append(delivered, log[Len(delivered) + 1])
    /\ UNCHANGED <<log, mark, phase>>

Close ==
    /\ phase = "open"
    /\ phase' = "closing"
    /\ mark' = Len(log)
    /\ UNCHANGED <<log, delivered>>

Finish ==
    /\ phase = "closing"
    /\ mark <= Len(delivered)
    /\ phase' = "finished"
    /\ UNCHANGED <<log, delivered, mark>>

Next == Accept \/ Deliver \/ Close \/ Finish

Spec == Init /\ [][Next]_contract
=============================================================================
