----------------------------- MODULE LinkedQueue -----------------------------
(***************************************************************************)
(* LinuxC/pthread/conditionVariable/pth_cond.c and pth_cond_test.c: one    *)
(* producer mallocs nodes and links them into a list that starts at `head` *)
(* (pth_cond.c at its head, pth_cond_test.c at its tail), one consumer     *)
(* unlinks the first node, reads it after the unlock, and frees it.        *)
(*                                                                         *)
(* The random num of a node is told apart by the producer's numbering.     *)
(* Neither program checks pthread_create or malloc; both are taken to      *)
(* succeed, malloc as long as one of the MaxNodes cells is free.           *)
(***************************************************************************)
EXTENDS Naturals, Sequences, FiniteSets

CONSTANTS Producer, Consumer, Nobody,
          MaxNodes,         \* bound: the cells of the heap
          MaxData,          \* bound: the numbering of nodes wraps around here
          MaxSpurious       \* bound: how often pthread_cond_wait may return
                            \* unasked

VARIABLES atTail,            \* which program runs.  TRUE: pth_cond_test.c,
                             \* FALSE: pth_cond.c
          head, next, num,   \* the list: the fields of struct msg, by cell
          heap,              \* the cells malloc has handed out
          lock,
          mp, cur,           \* the producer's mp (tmp) and its cursor
          n,                 \* how many nodes were produced, mod MaxData
          cmp,               \* the consumer's mp (tmp)
          consumed,          \* what the consumer printed last
          pc,
          spurious           \* spurious wakeups so far

vars == <<atTail, head, next, num, heap, lock, mp, cur, n, cmp, consumed, pc, spurious>>

NULL == 0
Cells == 1..MaxNodes
Nothing == <<>>

Step(t, from, to) == pc[t] = from /\ pc' = [pc EXCEPT ![t] = to]

Init == /\ atTail \in BOOLEAN /\ spurious = 0
        /\ head = NULL /\ heap = {} /\ lock = Nobody
        /\ next = [x \in Cells |-> NULL]
        /\ num = [x \in Cells |-> 0]
        /\ mp = NULL /\ cur = NULL /\ n = 0 /\ cmp = NULL /\ consumed = Nothing
        /\ pc = [t \in {Producer, Consumer} |-> IF t = Producer THEN "malloc" ELSE "lock"]

(* pth_cond_test.c clears the new node's next pointer; in pth_cond.c it is *)
(* garbage until the node is linked.                                       *)
Malloc == \E x \in Cells \ heap :
  /\ heap' = heap \cup {x}
  /\ mp' = x
  /\ num' = [num EXCEPT ![x] = n]
  /\ n' = (n + 1) % MaxData
  /\ \E garbage \in IF atTail THEN {NULL} ELSE {NULL, x} :
       next' = [next EXCEPT ![x] = garbage]
  /\ Step(Producer, "malloc", "lock")
  /\ UNCHANGED <<head, lock, cur, cmp, consumed>>

ProducerLock == /\ lock = Nobody /\ lock' = Producer
                /\ Step(Producer, "lock", "link")
                /\ UNCHANGED <<head, next, num, heap, mp, cur, n, cmp, consumed>>

(* mp->next = head; head = mp;                                             *)
LinkAtHead == /\ ~atTail
              /\ next' = [next EXCEPT ![mp] = head]
              /\ head' = mp
              /\ Step(Producer, "link", "unlock")
              /\ UNCHANGED <<num, heap, lock, mp, cur, n, cmp, consumed>>

(* if (head != NULL) { cur = head; while (cur->next) cur = cur->next;      *)
(* cur->next = tmp; } else head = tmp;                                     *)
LinkFirst == /\ atTail /\ head = NULL
             /\ head' = mp
             /\ Step(Producer, "link", "unlock")
             /\ UNCHANGED <<next, num, heap, lock, mp, cur, n, cmp, consumed>>

StartWalk == /\ atTail /\ head # NULL
             /\ cur' = head
             /\ Step(Producer, "link", "walk")
             /\ UNCHANGED <<head, next, num, heap, lock, mp, n, cmp, consumed>>

Walk == /\ pc[Producer] = "walk" /\ next[cur] # NULL
        /\ cur' = next[cur]
        /\ UNCHANGED <<head, next, num, heap, lock, mp, n, cmp, consumed, pc>>

LinkLast == /\ Step(Producer, "walk", "unlock")
            /\ next[cur] = NULL
            /\ next' = [next EXCEPT ![cur] = mp]
            /\ UNCHANGED <<head, num, heap, lock, mp, cur, n, cmp, consumed>>

ProducerUnlock == /\ lock' = Nobody
                  /\ Step(Producer, "unlock", "signal")
                  /\ UNCHANGED <<head, next, num, heap, mp, cur, n, cmp, consumed>>

(* Seeded fault: nobody is told of the new node.                           *)
SignalMissing == /\ Step(Producer, "signal", "malloc")
                 /\ UNCHANGED <<head, next, num, heap, lock, mp, cur, n, cmp, consumed>>

Signal == /\ pc[Producer] = "signal"
          /\ pc' = [pc EXCEPT ![Producer] = "malloc",
                              ![Consumer] = IF @ = "wait" THEN "lock" ELSE @]
          /\ UNCHANGED <<head, next, num, heap, lock, mp, cur, n, cmp, consumed>>

ConsumerLock == /\ lock = Nobody /\ lock' = Consumer
                /\ Step(Consumer, "lock", "test")
                /\ UNCHANGED <<head, next, num, heap, mp, cur, n, cmp, consumed>>

(* while (head == NULL) pthread_cond_wait(...)                             *)
Wait == /\ head = NULL
        /\ lock' = Nobody
        /\ Step(Consumer, "test", "wait")
        /\ UNCHANGED <<head, next, num, heap, mp, cur, n, cmp, consumed>>

(* Seeded fault: head is not moved on.                                     *)
UnlinkKeeps == /\ head # NULL
               /\ cmp' = head
               /\ Step(Consumer, "test", "unlock")
               /\ UNCHANGED <<head, next, num, heap, lock, mp, cur, n, consumed>>

Unlink == /\ head # NULL
          /\ cmp' = head
          /\ head' = next[head]
          /\ Step(Consumer, "test", "unlock")
          /\ UNCHANGED <<next, num, heap, lock, mp, cur, n, consumed>>

ConsumerUnlock == /\ lock' = Nobody
                  /\ Step(Consumer, "unlock", "print")
                  /\ UNCHANGED <<head, next, num, heap, mp, cur, n, cmp, consumed>>

PrintNode == /\ Step(Consumer, "print", "free")
             /\ consumed' = <<Producer, num[cmp]>>
             /\ UNCHANGED <<head, next, num, heap, lock, mp, cur, n, cmp>>

(* What a freed cell and the dead local hold does not matter any more      *)
(* (HeapInOrder: nobody looks); both are cleared to have fewer states.     *)
Free == /\ Step(Consumer, "free", "lock")
        /\ heap' = heap \ {cmp}
        /\ next' = [next EXCEPT ![cmp] = NULL]
        /\ num' = [num EXCEPT ![cmp] = 0]
        /\ cmp' = NULL
        /\ UNCHANGED <<head, lock, mp, cur, n, consumed>>

SpuriousWakeup == /\ spurious < MaxSpurious
                  /\ spurious' = spurious + 1
                  /\ Step(Consumer, "wait", "lock")
                  /\ UNCHANGED <<head, next, num, heap, lock, mp, cur, n, cmp, consumed>>

producer == /\ \/ Malloc \/ ProducerLock \/ LinkAtHead \/ LinkFirst \/ StartWalk
               \/ Walk \/ LinkLast \/ ProducerUnlock \/ Signal
            /\ UNCHANGED <<atTail, spurious>>
consumer == /\ \/ ConsumerLock \/ Wait \/ Unlink \/ ConsumerUnlock \/ PrintNode \/ Free
            /\ UNCHANGED <<atTail, spurious>>

Next == producer \/ consumer \/ (SpuriousWakeup /\ UNCHANGED atTail)

Spec == Init /\ [][Next]_vars

(* Both threads run.                                                       *)
FairSpec == Spec /\ WF_vars(producer) /\ WF_vars(consumer)

-----------------------------------------------------------------------------
(* The list from head: node[k] is the k-th node, counting from 0, or NULL. *)
node[k \in 0..MaxNodes] == IF k = 0 THEN head
                           ELSE IF node[k-1] = NULL THEN NULL ELSE next[node[k-1]]
OnList == {node[k] : k \in 0..MaxNodes} \ {NULL}

(* Cells only one thread knows: the producer's until it is linked, the     *)
(* consumer's from the unlinking to the free.                              *)
ProducerOwns == IF pc[Producer] \in {"lock", "link", "walk"} THEN {mp} ELSE {}
ConsumerOwns == IF pc[Consumer] \in {"unlock", "print", "free"} THEN {cmp} ELSE {}

TypeOK == /\ head \in Cells \cup {NULL}
          /\ next \in [Cells -> Cells \cup {NULL}]
          /\ num \in [Cells -> 0..MaxData-1] /\ n \in 0..MaxData-1
          /\ heap \subseteq Cells
          /\ mp \in Cells \cup {NULL} /\ cur \in Cells \cup {NULL} /\ cmp \in Cells \cup {NULL}
          /\ consumed = Nothing \/ consumed \in {Producer} \X (0..MaxData-1)
          /\ (lock = Producer) <=> pc[Producer] \in {"link", "walk", "unlock"}
          /\ (lock = Consumer) <=> pc[Consumer] \in {"test", "unlock"}

(* No node is leaked, linked twice, or used after it is freed: the cells   *)
(* in use are those on the list and those one thread owns, each in one     *)
(* place only, the list ends, and the producer's cursor walks on it.       *)
HeapInOrder ==
  /\ heap = OnList \cup ProducerOwns \cup ConsumerOwns
  /\ OnList \cap ProducerOwns = {} /\ OnList \cap ConsumerOwns = {}
  /\ ProducerOwns \cap ConsumerOwns = {}
  /\ node[MaxNodes] = NULL
  /\ pc[Producer] = "walk" => cur \in OnList

(* The consumer never sleeps next to a node that nobody will tell it of.   *)
NoLostWakeup == pc[Consumer] = "wait" /\ head # NULL => pc[Producer] \in {"unlock", "signal"}

(* The nodes from head on, in the consumer's order, with the one it has    *)
(* unlinked and not printed yet in front.                                  *)
linked == LET size == Cardinality(OnList) IN [k \in 1..size |-> <<Producer, num[node[k-1]]>>]
pending == IF pc[Consumer] \in {"unlock", "print"} THEN <<<<Producer, num[cmp]>>>> ELSE <<>>
unlinkedNew == IF pc[Producer] \in {"lock", "link", "walk"} THEN <<<<Producer, num[mp]>>>> ELSE <<>>

(* pth_cond_test.c is a FIFO queue: nodes are consumed in the order they   *)
(* were made, each one once, although links, frees and reads of different  *)
(* nodes overlap.  (pth_cond.c, which links at the head, is not.)          *)
Fifo == INSTANCE BoundedFifo WITH
  items <- IF atTail THEN pending \o linked \o unlinkedNew ELSE <<>>,
  next <- [t \in {Producer} |-> IF atTail THEN n ELSE 0],
  received <- [t \in {Consumer} |-> IF atTail THEN consumed ELSE Nothing],
  Producers <- {Producer}, Consumers <- {Consumer}, Capacity <- MaxNodes
FifoSpec == Fifo!Spec

(* The consumer is served again and again.                                 *)
Consumed == pc[Consumer] = "print"

=============================================================================
