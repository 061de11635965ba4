------------------------------ MODULE FifoQueue ------------------------------
(***************************************************************************)
(* What data_buffer.c promises: a first-in first-out queue of bounded      *)
(* capacity.  An insertion into a full queue either displaces the oldest   *)
(* item (keep_new) or is ignored.  This module is the abstract             *)
(* specification; DataBuffer implements it with a ring of slots.           *)
(***************************************************************************)
EXTENDS Naturals, Sequences

CONSTANTS Data,      \* what a queue entry can hold
          Capacity   \* how many entries the queue keeps

VARIABLE items       \* the entries, oldest first

IsFull == Len(items) >= Capacity

Init == items = << >>

\* A new entry joins the queue while there is room.
Put(d) == ~IsFull /\ items' = Append(items, d)

\* A new entry joins a full queue at the price of the oldest one.
PutDroppingOldest(d) == IsFull /\ items' = Append(Tail(items), d)

\* The oldest entry leaves.
Take == items # << >> /\ items' = Tail(items)

Next == \/ \E d \in Data : Put(d) \/ PutDroppingOldest(d)
        \/ Take

Spec == Init /\ [][Next]_items
==============================================================================
