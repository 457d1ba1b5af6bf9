------------------------------- MODULE SemQueue -------------------------------
(***************************************************************************)
(* LinuxC/pthread/semaphore/pth_sem.c and sem_test.c: one producer and one *)
(* consumer share a ring of ints through two semaphores and no lock.  The  *)
(* consumer zeroes the slot it has read.  The two programs differ in the   *)
(* producer: pth_sem.c prints the slot and then posts, sem_test.c posts    *)
(* first (line 18) and prints the slot afterwards (line 19), when the      *)
(* consumer may already be working on it.                                  *)
(*                                                                         *)
(* The random ints stored are told apart by the producer's own numbering.  *)
(* Neither program checks pthread_create; creation is taken to succeed.    *)
(***************************************************************************)
EXTENDS Naturals, Sequences

CONSTANTS Producer, Consumer,
          NUM,          \* slots: NUM in pth_sem.c, MAXSIZE in sem_test.c
          MaxData       \* bound: the numbering of items wraps around here

VARIABLES printFirst,              \* which program runs.  TRUE: pth_sem.c,
                                   \* FALSE: sem_test.c
          queue, blank, full,      \* blank_number and product_number in pth_sem.c
          p, c,                    \* the two threads' own positions (top)
          n,                       \* how many items were produced, mod MaxData
          printed,                 \* what the producer printed last
          consumed,                \* what the consumer printed last
          pc

vars == <<printFirst, queue, blank, full, p, c, n, printed, consumed, pc>>

Zero == <<>>
Items == {Producer} \X (0..MaxData-1)
Slots == 0..NUM-1

Step(t, from, to) == pc[t] = from /\ pc' = [pc EXCEPT ![t] = to]

(* The global array starts zeroed; both threads start at slot 0.           *)
Init == /\ printFirst \in BOOLEAN
        /\ queue = [s \in Slots |-> Zero]
        /\ blank = NUM /\ full = 0
        /\ p = 0 /\ c = 0 /\ n = 0
        /\ printed = Zero /\ consumed = Zero
        /\ pc = [t \in {Producer, Consumer} |-> "wait"]

WaitBlank == /\ blank > 0 /\ blank' = blank - 1
             /\ Step(Producer, "wait", "write")
             /\ UNCHANGED <<queue, full, p, c, n, printed, consumed>>

Write == /\ queue' = [queue EXCEPT ![p] = <<Producer, n>>]
         /\ n' = (n + 1) % MaxData
         /\ Step(Producer, "write", IF printFirst THEN "print" ELSE "post")
         /\ UNCHANGED <<blank, full, p, c, printed, consumed>>

(* Seeded fault: the producer reports the slot after its own.              *)
PrintSlotNext == /\ printed' = queue[(p + 1) % NUM]
                 /\ Step(Producer, "print", IF printFirst THEN "post" ELSE "advance")
                 /\ UNCHANGED <<queue, blank, full, p, c, n, consumed>>

PrintSlot == /\ printed' = queue[p]
             /\ Step(Producer, "print", IF printFirst THEN "post" ELSE "advance")
             /\ UNCHANGED <<queue, blank, full, p, c, n, consumed>>

PostFull == /\ full' = full + 1
            /\ Step(Producer, "post", IF printFirst THEN "advance" ELSE "print")
            /\ UNCHANGED <<queue, blank, p, c, n, printed, consumed>>

Advance == /\ p' = (p + 1) % NUM
           /\ Step(Producer, "advance", "wait")
           /\ UNCHANGED <<queue, blank, full, c, n, printed, consumed>>

WaitFull == /\ full > 0 /\ full' = full - 1
            /\ Step(Consumer, "wait", "read")
            /\ UNCHANGED <<queue, blank, p, c, n, printed, consumed>>

Read == /\ consumed' = queue[c]
        /\ Step(Consumer, "read", "zero")
        /\ UNCHANGED <<queue, blank, full, p, c, n, printed>>

(* Seeded fault: the consumer clears the slot after it.                    *)
ZeroNext == /\ queue' = [queue EXCEPT ![(c + 1) % NUM] = Zero]
            /\ Step(Consumer, "zero", "post")
            /\ UNCHANGED <<blank, full, p, c, n, printed, consumed>>

ZeroSlot == /\ queue' = [queue EXCEPT ![c] = Zero]
            /\ Step(Consumer, "zero", "post")
            /\ UNCHANGED <<blank, full, p, c, n, printed, consumed>>

PostBlank == /\ blank' = blank + 1
             /\ Step(Consumer, "post", "advance")
             /\ UNCHANGED <<queue, full, p, c, n, printed, consumed>>

AdvanceC == /\ c' = (c + 1) % NUM
            /\ Step(Consumer, "advance", "wait")
            /\ UNCHANGED <<queue, blank, full, p, n, printed, consumed>>

producer == /\ WaitBlank \/ Write \/ PrintSlot \/ PostFull \/ Advance
            /\ UNCHANGED printFirst
consumer == /\ WaitFull \/ Read \/ ZeroSlot \/ PostBlank \/ AdvanceC
            /\ UNCHANGED printFirst

Next == producer \/ consumer

Spec == Init /\ [][Next]_vars

(* Both threads run.                                                       *)
FairSpec == Spec /\ WF_vars(producer) /\ WF_vars(consumer)

-----------------------------------------------------------------------------
TypeOK == /\ queue \in [Slots -> Items \cup {Zero}]
          /\ blank \in 0..NUM /\ full \in 0..NUM
          /\ p \in Slots /\ c \in Slots /\ n \in 0..MaxData-1
          /\ printed \in Items \cup {Zero} /\ consumed \in Items \cup {Zero}
          /\ pc[Producer] \in {"wait", "write", "print", "post", "advance"}
          /\ pc[Consumer] \in {"wait", "read", "zero", "post", "advance"}

(* Without a lock the threads are kept apart by the counts alone: they     *)
(* never access one slot at the same time, though each has its own         *)
(* position ...                                                            *)
SlotsApart ==
  /\ pc[Producer] = "write" \/ (printFirst /\ pc[Producer] = "print")
  /\ pc[Consumer] \in {"read", "zero"}
  => p # c

(* ... and the ring is a FIFO queue: the items written and not yet read    *)
(* are those counted by `full`, one whose post is still to come and one    *)
(* the consumer has waited for, from its position on.                      *)
Posting == \/ pc[Producer] = "post"
           \/ printFirst /\ pc[Producer] = "print"
filled == full + (IF Posting THEN 1 ELSE 0) + (IF pc[Consumer] = "read" THEN 1 ELSE 0)
first == IF pc[Consumer] \in {"zero", "post", "advance"} THEN c + 1 ELSE c
contents == [m \in 1..filled |-> queue[(first + m - 1) % NUM]]

Fifo == INSTANCE BoundedFifo WITH items <- contents, next <- [t \in {Producer} |-> n],
                                  received <- [t \in {Consumer} |-> consumed],
                                  Producers <- {Producer}, Consumers <- {Consumer},
                                  Capacity <- NUM
FifoSpec == Fifo!Spec

(* The producer reports the item it stored: always in pth_sem.c; in        *)
(* sem_test.c the slot may have been zeroed meanwhile, but it never holds  *)
(* any other item.                                                         *)
ReportsItsItem ==
  [][PrintSlot => \/ printed' = <<Producer, (n + MaxData - 1) % MaxData>>
                  \/ ~printFirst /\ printed' = Zero]_vars

(* Neither thread ever waits for good: items keep flowing.                 *)
Writing == pc[Producer] = "write"
Reading == pc[Consumer] = "read"
KeepsFlowing == []<>Writing /\ []<>Reading

=============================================================================
