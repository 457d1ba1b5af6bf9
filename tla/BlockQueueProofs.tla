--------------------------- MODULE BlockQueueProofs ---------------------------
(***************************************************************************)
(* Theorems about BlockQueue, for any number of threads and any capacity.  *)
(***************************************************************************)
EXTENDS BlockQueue, Lemmas, SequenceTheorems

(* The counts of threads that NoLostWakeup compares are counts.            *)
LEMMA FiniteSides ==
  /\ \A labels : IsFiniteSet(At(Producers, labels)) /\ IsFiniteSet(At(Consumers, labels))
  /\ \A labels : /\ Cardinality(At(Producers, labels)) \in Nat
                 /\ Cardinality(At(Consumers, labels)) \in Nat
<1>1. \A labels : At(Producers, labels) \subseteq Producers /\ At(Consumers, labels) \subseteq Consumers
  BY DEF At
<1> QED
  BY <1>1, BlockQueueAssumption, FS_Subset, FS_CardinalityType

IInv == TypeOK /\ NoLostWakeup

LEMMA InitIInv == Init => IInv
<1> SUFFICES ASSUME Init PROVE IInv
  OBVIOUS
<1>1. TypeOK
  BY BlockQueueAssumption, EmptySeq DEF Init, TypeOK, Labels, Threads
<1>2. cond_con = {} /\ cond_pro = {}
  BY DEF Init, cond_con, cond_pro, Threads
<1> QED
  BY <1>1, <1>2 DEF IInv, NoLostWakeup

LEMMA NextTypeOK == TypeOK /\ [Next]_vars => TypeOK'
<1> SUFFICES ASSUME TypeOK, [Next]_vars PROVE TypeOK'
  OBVIOUS
<1> USE BlockQueueAssumption DEF TypeOK, Labels, Threads
<1>1. CASE UNCHANGED vars
  BY <1>1 DEF vars
<1>2. CASE Main
  BY <1>2 DEF Main, Create, CreateFails, Goto
<1>3. ASSUME NEW t \in Threads, Lock(t), UNCHANGED spurious PROVE TypeOK'
  BY <1>3 DEF Lock, Goto
<1>4. ASSUME NEW t \in Threads, PushWait(t) \/ PopWait(t), UNCHANGED spurious PROVE TypeOK'
  BY <1>4 DEF PushWait, PopWait, Goto
<1>5. ASSUME NEW t \in Threads, Unlock(t), UNCHANGED spurious PROVE TypeOK'
  BY <1>5 DEF Unlock, Goto
<1>6. ASSUME NEW p \in Producers, PushItem(p), UNCHANGED spurious PROVE TypeOK'
  <2>1. <<p, i[p]>> \in Items
    BY DEF Items
  <2>2. queue' \in Seq(Items) /\ Len(queue') <= Capacity
    BY <1>6, <2>1, AppendProperties, LenProperties DEF PushItem
  <2> QED
    BY <1>6, <2>2 DEF PushItem, Goto
<1>7. ASSUME NEW c \in Consumers, PopItem(c), UNCHANGED spurious PROVE TypeOK'
  <2>1. Head(queue) \in Items /\ queue' \in Seq(Items) /\ Len(queue') <= Capacity
    BY <1>7, HeadTailProperties, LenProperties DEF PopItem
  <2> QED
    BY <1>7, <2>1 DEF PopItem, Goto
<1>8. ASSUME NEW p \in Producers, SignalCon(p), UNCHANGED spurious PROVE TypeOK'
  <2>1. i[p] + 1 \in Nat
    OBVIOUS
  <2>2. (i[p] + 1) % MaxData \in 0..MaxData-1
    BY <2>1, Remainder
  <2> QED
    BY <1>8, <2>2 DEF SignalCon, AfterSignal, Wakeable, cond_con
<1>9. ASSUME NEW c \in Consumers, SignalPro(c), UNCHANGED spurious PROVE TypeOK'
  BY <1>9 DEF SignalPro, AfterSignal, Wakeable, cond_pro
<1>10. ASSUME NEW t \in Threads, SpuriousWakeup(t) PROVE TypeOK'
  BY <1>10 DEF SpuriousWakeup, Goto
<1> QED
  BY <1>1, <1>2, <1>3, <1>4, <1>5, <1>6, <1>7, <1>8, <1>9, <1>10
     DEF Next, Push, Pop, Stopped

LEMMA NextNoLostWakeup == IInv /\ TypeOK' /\ [Next]_vars => NoLostWakeup'
<1> SUFFICES ASSUME TypeOK, NoLostWakeup, TypeOK', [Next]_vars PROVE NoLostWakeup'
  BY DEF IInv
<1> DEFINE ComingP == At(Producers, {"lock", "test"})
           ComingC == At(Consumers, {"lock", "test"})
           LeavingP == At(Producers, {"unlock", "signal"})
           LeavingC == At(Consumers, {"unlock", "signal"})
<1> USE BlockQueueAssumption DEF Threads
<1>1. /\ IsFiniteSet(ComingP) /\ IsFiniteSet(ComingC) /\ IsFiniteSet(LeavingP) /\ IsFiniteSet(LeavingC)
      /\ IsFiniteSet(ComingP') /\ IsFiniteSet(ComingC') /\ IsFiniteSet(LeavingP') /\ IsFiniteSet(LeavingC')
  BY FS_Subset DEF At
<1>2. /\ Cardinality(ComingP) \in Nat /\ Cardinality(ComingC) \in Nat
      /\ Cardinality(LeavingP) \in Nat /\ Cardinality(LeavingC) \in Nat
      /\ Len(queue) \in Nat /\ Len(queue') \in Nat
  BY FiniteSides, LenProperties DEF TypeOK
<1>3. CASE UNCHANGED vars
  BY <1>3 DEF vars, NoLostWakeup, cond_con, cond_pro, At
<1>4. ASSUME NEW t \in Threads, Create(t), UNCHANGED spurious PROVE NoLostWakeup'
  <2>1. /\ ComingP' = ComingP \/ (ComingP' = ComingP \cup {t} /\ t \notin ComingP)
        /\ ComingC' = ComingC \/ (ComingC' = ComingC \cup {t} /\ t \notin ComingC)
        /\ LeavingP' = LeavingP /\ LeavingC' = LeavingC
        /\ cond_con' = cond_con /\ cond_pro' = cond_pro /\ queue' = queue
    BY <1>4 DEF Create, Goto, TypeOK, At, cond_con, cond_pro
  <2> QED
    BY <1>1, <1>2, <2>1, FS_AddElement DEF NoLostWakeup
<1>5. CASE CreateFails /\ UNCHANGED spurious
  BY <1>5 DEF CreateFails, NoLostWakeup, cond_con, cond_pro, At
<1>6. ASSUME NEW t \in Threads, Lock(t) \/ Unlock(t) PROVE NoLostWakeup'
  <2>1. /\ ComingP' = ComingP /\ ComingC' = ComingC
        /\ LeavingP' = LeavingP /\ LeavingC' = LeavingC
        /\ cond_con' = cond_con /\ cond_pro' = cond_pro /\ queue' = queue
    BY <1>6 DEF Lock, Unlock, Goto, TypeOK, At, cond_con, cond_pro
  <2> QED
    BY <2>1 DEF NoLostWakeup
<1>7. ASSUME NEW p \in Producers, PushWait(p) PROVE NoLostWakeup'
  <2>1. /\ ComingC' = ComingC /\ LeavingP' = LeavingP
        /\ cond_con' = cond_con /\ queue' = queue
    BY <1>7 DEF PushWait, Goto, TypeOK, At, cond_con
  <2>2. Capacity - Len(queue') = 0
    BY <1>7 DEF PushWait
  <2>3. Cardinality(LeavingC') \in Nat /\ Cardinality(ComingP') \in Nat
    BY <1>1, FS_CardinalityType
  <2> QED
    BY <2>1, <2>2, <2>3 DEF NoLostWakeup
<1>8. ASSUME NEW c \in Consumers, PopWait(c) PROVE NoLostWakeup'
  <2>1. /\ ComingP' = ComingP /\ LeavingC' = LeavingC
        /\ cond_pro' = cond_pro /\ queue' = queue
    BY <1>8 DEF PopWait, Goto, TypeOK, At, cond_pro
  <2>2. Len(queue') = 0
    BY <1>8, EmptySeq DEF PopWait
  <2>3. Cardinality(LeavingP') \in Nat /\ Cardinality(ComingC') \in Nat
    BY <1>1, FS_CardinalityType
  <2> QED
    BY <2>1, <2>2, <2>3 DEF NoLostWakeup
<1>9. ASSUME NEW p \in Producers, PushItem(p) PROVE NoLostWakeup'
  <2>1. /\ ComingC' = ComingC /\ LeavingC' = LeavingC
        /\ p \in ComingP /\ ComingP' = ComingP \ {p}
        /\ p \notin LeavingP /\ LeavingP' = LeavingP \cup {p}
        /\ cond_con' = cond_con /\ cond_pro' = cond_pro
    BY <1>9 DEF PushItem, Goto, TypeOK, At, cond_con, cond_pro
  <2>2. Len(queue') = Len(queue) + 1
    <3>1. <<p, i[p]>> \in Items
      BY DEF Items, TypeOK
    <3> QED
      BY <1>9, <3>1, AppendProperties DEF PushItem, TypeOK
  <2>3. /\ Cardinality(ComingP') = Cardinality(ComingP) - 1
        /\ Cardinality(LeavingP') = Cardinality(LeavingP) + 1
    BY <1>1, <2>1, FS_AddElement, FS_RemoveElement
  <2> QED
    BY <1>2, <2>1, <2>2, <2>3 DEF NoLostWakeup
<1>10. ASSUME NEW c \in Consumers, PopItem(c) PROVE NoLostWakeup'
  <2>1. /\ ComingP' = ComingP /\ LeavingP' = LeavingP
        /\ c \in ComingC /\ ComingC' = ComingC \ {c}
        /\ c \notin LeavingC /\ LeavingC' = LeavingC \cup {c}
        /\ cond_con' = cond_con /\ cond_pro' = cond_pro
    BY <1>10 DEF PopItem, Goto, TypeOK, At, cond_con, cond_pro
  <2>2. Len(queue') = Len(queue) - 1
    BY <1>10, HeadTailProperties DEF PopItem, TypeOK
  <2>3. /\ Cardinality(ComingC') = Cardinality(ComingC) - 1
        /\ Cardinality(LeavingC') = Cardinality(LeavingC) + 1
    BY <1>1, <2>1, FS_AddElement, FS_RemoveElement
  <2> QED
    BY <1>2, <2>1, <2>2, <2>3 DEF NoLostWakeup
<1>11. ASSUME NEW p \in Producers, SignalCon(p) PROVE NoLostWakeup'
  <2>1. PICK woken \in Wakeable(cond_con) : pc' = AfterSignal(pc, p, "lock", woken, "lock")
    BY <1>11 DEF SignalCon
  <2>2. woken \subseteq cond_con /\ (cond_con # {} => woken # {})
    BY DEF Wakeable
  <2>3. /\ LeavingC' = LeavingC /\ cond_pro' = cond_pro /\ queue' = queue
        /\ p \in LeavingP /\ LeavingP' = LeavingP \ {p}
        /\ p \notin ComingP /\ ComingP' = ComingP \cup {p}
        /\ ComingC' = ComingC \cup woken /\ woken \cap ComingC = {}
        /\ cond_con' = cond_con \ woken
    BY <1>11, <2>1, <2>2 DEF SignalCon, AfterSignal, TypeOK, At, cond_con, cond_pro
  <2>4. /\ Cardinality(ComingP') = Cardinality(ComingP) + 1
        /\ Cardinality(LeavingP') = Cardinality(LeavingP) - 1
    BY <1>1, <2>3, FS_AddElement, FS_RemoveElement
  <2>5. cond_con # {} => Cardinality(ComingC') >= Cardinality(ComingC) + 1
    BY <1>1, <2>2, <2>3, Grown
  <2>6. Cardinality(ComingC') \in Nat
    BY <1>1, FS_CardinalityType
  <2> QED
    BY <1>2, <2>3, <2>4, <2>5, <2>6 DEF NoLostWakeup
<1>12. ASSUME NEW c \in Consumers, SignalPro(c) PROVE NoLostWakeup'
  <2>1. PICK woken \in Wakeable(cond_pro) : pc' = AfterSignal(pc, c, "lock", woken, "lock")
    BY <1>12 DEF SignalPro
  <2>2. woken \subseteq cond_pro /\ (cond_pro # {} => woken # {})
    BY DEF Wakeable
  <2>a. /\ pc[c] = "signal" /\ queue' = queue
        /\ \A u \in Threads : pc'[u] = IF u = c \/ u \in woken THEN "lock" ELSE pc[u]
    BY <1>12, <2>1 DEF SignalPro, AfterSignal, TypeOK
  <2>3. /\ LeavingP' = LeavingP /\ cond_con' = cond_con /\ queue' = queue
        /\ c \in LeavingC /\ LeavingC' = LeavingC \ {c}
        /\ c \notin ComingC /\ ComingC' = ComingC \cup {c}
        /\ ComingP' = ComingP \cup woken /\ woken \cap ComingP = {}
        /\ cond_pro' = cond_pro \ woken
    BY <2>2, <2>a DEF At, cond_con, cond_pro
  <2>4. /\ Cardinality(ComingC') = Cardinality(ComingC) + 1
        /\ Cardinality(LeavingC') = Cardinality(LeavingC) - 1
    BY <1>1, <2>3, FS_AddElement, FS_RemoveElement
  <2>5. cond_pro # {} => Cardinality(ComingP') >= Cardinality(ComingP) + 1
    BY <1>1, <2>2, <2>3, Grown
  <2>6. Cardinality(ComingP') \in Nat
    BY <1>1, FS_CardinalityType
  <2> QED
    BY <1>2, <2>3, <2>4, <2>5, <2>6 DEF NoLostWakeup
<1>13. ASSUME NEW t \in Threads, SpuriousWakeup(t) PROVE NoLostWakeup'
  <2>1. /\ ComingP' = ComingP \/ (ComingP' = ComingP \cup {t} /\ t \notin ComingP)
        /\ ComingC' = ComingC \/ (ComingC' = ComingC \cup {t} /\ t \notin ComingC)
        /\ LeavingP' = LeavingP /\ LeavingC' = LeavingC
        /\ cond_con' \subseteq cond_con /\ cond_pro' \subseteq cond_pro /\ queue' = queue
    BY <1>13 DEF SpuriousWakeup, Goto, TypeOK, At, cond_con, cond_pro
  <2> QED
    BY <1>1, <1>2, <2>1, FS_AddElement DEF NoLostWakeup
<1> QED
  BY <1>3, <1>4, <1>5, <1>6, <1>7, <1>8, <1>9, <1>10, <1>11, <1>12, <1>13
     DEF Next, Main, Push, Pop, Stopped

(* The inductive invariant holds in every reachable state.                 *)
THEOREM Invariance == Spec => []IInv
<1>1. IInv /\ [Next]_vars => IInv'
  BY NextTypeOK, NextNoLostWakeup DEF IInv
<1> QED
  BY InitIInv, <1>1, PTL DEF Spec

(* pro_con.cpp:30-51: the queue never holds more than its capacity, and    *)
(* the mutex belongs to the one thread between Lock and Unlock.            *)
THEOREM TypeCorrect == Spec => []TypeOK
  BY Invariance, PTL DEF IInv

(* pro_con.cpp:37-38, 49-50: the signals come after the unlock, and yet no *)
(* wakeup is lost, whatever the number of threads and the capacity.        *)
THEOREM WakeupsKept == Spec => []NoLostWakeup
  BY Invariance, PTL DEF IInv

(* Every step of the queue is a Put, a Take or nothing to BoundedFifo.     *)
LEMMA StepSimulation == TypeOK /\ [Next]_vars => [Fifo!Next]_(Fifo!vars)
<1> SUFFICES ASSUME TypeOK, [Next]_vars PROVE [Fifo!Next]_(Fifo!vars)
  OBVIOUS
<1> USE BlockQueueAssumption DEF TypeOK, Threads
<1>1. CASE UNCHANGED vars
  BY <1>1 DEF vars, Fifo!vars, pushed
<1>2. ASSUME NEW t \in Threads, \/ Create(t) \/ Lock(t) \/ PushWait(t) \/ PopWait(t)
                                \/ Unlock(t) \/ SpuriousWakeup(t)
      PROVE  UNCHANGED Fifo!vars
  BY <1>2 DEF Create, Lock, PushWait, PopWait, Unlock, SpuriousWakeup, Goto, Fifo!vars, pushed
<1>3. CASE CreateFails
  BY <1>3 DEF CreateFails, Fifo!vars, pushed
<1>4. ASSUME NEW p \in Producers, PushItem(p) PROVE Fifo!Put(p)
  <2>1. pushed[p] = i[p] /\ pushed' = [pushed EXCEPT ![p] = (@ + 1) % MaxData]
    BY <1>4 DEF PushItem, Goto, pushed
  <2>2. Len(queue) < Capacity
    BY <1>4, LenProperties DEF PushItem
  <2> QED
    BY <1>4, <2>1, <2>2 DEF PushItem, Fifo!Put
<1>5. ASSUME NEW c \in Consumers, PopItem(c) PROVE Fifo!Take(c)
  <2>1. pushed' = pushed
    BY <1>5 DEF PopItem, Goto, pushed
  <2> QED
    BY <1>5, <2>1 DEF PopItem, Fifo!Take
<1>6. ASSUME NEW p \in Producers, SignalCon(p) PROVE UNCHANGED Fifo!vars
  <2>1. PICK woken \in Wakeable(cond_con) : pc' = AfterSignal(pc, p, "lock", woken, "lock")
    BY <1>6 DEF SignalCon
  <2>2. \A q \in Producers : pc'[q] = IF q = p THEN "lock" ELSE pc[q]
    BY <2>1 DEF AfterSignal, Wakeable, cond_con
  <2> QED
    BY <1>6, <2>2 DEF SignalCon, Fifo!vars, pushed
<1>7. ASSUME NEW c \in Consumers, SignalPro(c) PROVE UNCHANGED Fifo!vars
  <2>1. PICK woken \in Wakeable(cond_pro) : pc' = AfterSignal(pc, c, "lock", woken, "lock")
    BY <1>7 DEF SignalPro
  <2>2. \A q \in Producers : pc'[q] = pc[q] \/ (pc[q] = "wait" /\ pc'[q] = "lock")
    BY <2>1 DEF AfterSignal, Wakeable, cond_pro
  <2> QED
    BY <1>7, <2>2 DEF SignalPro, Fifo!vars, pushed
<1> QED
  BY <1>1, <1>2, <1>3, <1>4, <1>5, <1>6, <1>7
     DEF Next, Main, Push, Pop, Stopped, Fifo!Next

(* pro_con.cpp:30-51: Push and Pop are atomic operations of a bounded FIFO *)
(* queue, whatever the number of threads and the capacity.                 *)
THEOREM ImplementsFifo == Spec => FifoSpec
<1>1. Init => Fifo!Init
  BY BlockQueueAssumption DEF Init, Fifo!Init, pushed, NoItem, Fifo!NoItem, Threads
<1> QED
  BY <1>1, StepSimulation, TypeCorrect, PTL DEF Spec, FifoSpec, Fifo!Spec

=============================================================================
