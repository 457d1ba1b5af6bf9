----------------------------- MODULE BoundedFifo -----------------------------
(***************************************************************************)
(* What a thread-safe bounded queue promises, whatever it is built from:   *)
(* every producer's items enter the queue exactly once and in the order it *)
(* numbered them, the queue never exceeds its capacity, and each item      *)
(* leaves once, oldest first, to one consumer.  BlockQueue (mutex and      *)
(* condition variables) and RingQueue (semaphores) are shown to implement  *)
(* it.                                                                     *)
(***************************************************************************)
EXTENDS Naturals, Sequences

CONSTANTS Producers, Consumers, Capacity,
          MaxData      \* bound: a producer's counter wraps around here

VARIABLES items,      \* the queue
          next,       \* the number of each producer's next item
          received    \* what each consumer took last, or NoItem

vars == <<items, next, received>>

Items == Producers \X (0..MaxData-1)
NoItem == <<>>

Init == /\ items = <<>>
        /\ next = [p \in Producers |-> 0]
        /\ received = [c \in Consumers |-> NoItem]

Put(p) == /\ Len(items) < Capacity
          /\ items' = Append(items, <<p, next[p]>>)
          /\ next' = [next EXCEPT ![p] = (@ + 1) % MaxData]
          /\ UNCHANGED received

Take(c) == /\ items # <<>>
           /\ items' = Tail(items)
           /\ received' = [received EXCEPT ![c] = Head(items)]
           /\ UNCHANGED next

Next == (\E p \in Producers : Put(p)) \/ (\E c \in Consumers : Take(c))

Spec == Init /\ [][Next]_vars

=============================================================================
