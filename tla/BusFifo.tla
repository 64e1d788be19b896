------------------------------- MODULE BusFifo --------------------------------
(***************************************************************************)
(* What the message bus promises its callers, without locks or goroutines: *)
(* in each direction a bounded FIFO queue that loses, duplicates and       *)
(* reorders nothing, and that accepts nothing once it is closed.  log[d] is *)
(* everything ever accepted in direction d, got[d] how much of it has been *)
(* handed to the consumer.                                                 *)
(***************************************************************************)
EXTENDS Integers, Sequences

CONSTANTS Dirs,      \* the directions: inbound and outbound
          Messages,  \* everything a caller can publish
          Capacity   \* the buffer of each channel

VARIABLES log, got, closed

vars == <<log, got, closed>>

Init == /\ log = [d \in Dirs |-> <<>>]
        /\ got = [d \in Dirs |-> 0]
        /\ closed = FALSE

Accept(d, m) == /\ ~closed
                /\ Len(log[d]) - got[d] < Capacity
                /\ log' = [log EXCEPT ![d] = Append(@, m)]
                /\ UNCHANGED <<got, closed>>

Deliver(d) == /\ got[d] < Len(log[d])
              /\ got' = [got EXCEPT ![d] = @ + 1]
              /\ UNCHANGED <<log, closed>>

Close == /\ ~closed
         /\ closed' = TRUE
         /\ UNCHANGED <<log, got>>

Next == \/ \E d \in Dirs : Deliver(d) \/ \E m \in Messages : Accept(d, m)
        \/ Close

Spec == Init /\ [][Next]_vars
===============================================================================
