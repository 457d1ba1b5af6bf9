---------------------------- MODULE TicketsProofs ----------------------------
(***************************************************************************)
(* Theorems about Tickets, for any number of touts and tickets.            *)
(***************************************************************************)
EXTENDS Tickets, FiniteSetTheorems, TLAPS

(* A tout that has left saw the stock empty, and it stays empty.           *)
LeftWhenEmpty == \A t \in Touts : pc[t] = "exited" => tickets <= 0

(* The inductive invariant.  OversellBounded is inductive only because the *)
(* number of committed touts is part of it.                                *)
IInv == TypeOK /\ OversellBounded /\ EveryNumberOnce /\ LeftWhenEmpty

LEMMA CountTouts == N \in Nat /\ N >= 1
  BY TicketsAssumption, FS_CardinalityType, FS_EmptySet DEF N

(* Committed is a finite set, at most as large as Touts.                   *)
LEMMA CountCommitted ==
  /\ IsFiniteSet(Committed)
  /\ Cardinality(Committed) \in Nat
  /\ Cardinality(Committed) <= N
<1>1. Committed \subseteq Touts
  BY DEF Committed
<1> QED
  BY <1>1, TicketsAssumption, FS_Subset, FS_CardinalityType DEF N

LEMMA InitIInv == Init => IInv
<1> SUFFICES ASSUME Init PROVE IInv
  OBVIOUS
<1>1. TypeOK
  BY TicketsAssumption DEF Init, TypeOK, Labels
<1>2. Committed = {}
  BY DEF Init, Committed
<1>3. OversellBounded
  BY <1>2, CountTouts, FS_EmptySet, TicketsAssumption DEF Init, OversellBounded
<1>4. EveryNumberOnce
  BY TicketsAssumption DEF Init, EveryNumberOnce
<1>5. LeftWhenEmpty
  BY DEF Init, LeftWhenEmpty
<1> QED
  BY <1>1, <1>3, <1>4, <1>5 DEF IInv

(* A step of one tout that neither enters nor leaves {lock, print, sell}   *)
(* keeps the set of committed touts.                                       *)
LEMMA CommittedKept ==
  ASSUME TypeOK, NEW t \in Touts, NEW from, NEW to, Step(t, from, to),
         from \in {"lock", "print", "sell"} <=> to \in {"lock", "print", "sell"}
  PROVE  Committed' = Committed
  BY DEF TypeOK, Step, Goto, Committed

LEMMA NextIInv == IInv /\ [Next]_vars => IInv'
<1> SUFFICES ASSUME IInv, [Next]_vars PROVE IInv'
  OBVIOUS
<1> USE DEF IInv
<1>1. CASE UNCHANGED vars
  BY <1>1 DEF vars, TypeOK, OversellBounded, EveryNumberOnce, LeftWhenEmpty, Committed
<1>2. ASSUME NEW t \in Touts, Create(t) PROVE IInv'
  <2>1. Committed' = Committed
    BY <1>2, CommittedKept DEF Create
  <2> QED
    BY <1>2, <2>1 DEF Create, Step, Goto, TypeOK, Labels, OversellBounded,
                     EveryNumberOnce, LeftWhenEmpty
<1>3. CASE CreateFails
  BY <1>3 DEF CreateFails, TypeOK, OversellBounded, EveryNumberOnce, LeftWhenEmpty, Committed
<1>4. CASE Join
  BY <1>4 DEF Join, TypeOK, OversellBounded, EveryNumberOnce, LeftWhenEmpty, Committed
<1>5. ASSUME NEW t \in Touts, Check(t) PROVE IInv'
  <2>1. TypeOK' /\ EveryNumberOnce' /\ LeftWhenEmpty'
    BY <1>5 DEF Check, Step, Goto, TypeOK, Labels, EveryNumberOnce, LeftWhenEmpty
  <2>2. Committed' \subseteq Touts
    BY DEF Committed
  <2>3. Cardinality(Committed') <= N /\ Cardinality(Committed') \in Nat
    BY <2>2, TicketsAssumption, FS_Subset, FS_CardinalityType DEF N
  <2>4. OversellBounded'
    BY <1>5, <2>3, CountTouts DEF Check, OversellBounded, TypeOK, N
  <2> QED
    BY <2>1, <2>4
<1>6. ASSUME NEW t \in Touts, Leave(t) PROVE IInv'
  <2>1. Committed' = Committed
    BY <1>6, CommittedKept DEF Leave
  <2> QED
    BY <1>6, <2>1 DEF Leave, Step, Goto, TypeOK, Labels, OversellBounded,
                     EveryNumberOnce, LeftWhenEmpty
<1>7. ASSUME NEW t \in Touts, Lock(t) PROVE IInv'
  <2>1. Committed' = Committed
    BY <1>7, CommittedKept DEF Lock
  <2> QED
    BY <1>7, <2>1, TicketsAssumption
       DEF Lock, Step, Goto, TypeOK, Labels, OversellBounded, EveryNumberOnce, LeftWhenEmpty
<1>8. ASSUME NEW t \in Touts, PrintTicket(t) PROVE IInv'
  <2>1. Committed' = Committed
    BY <1>8, CommittedKept DEF PrintTicket
  <2>2. TypeOK' /\ OversellBounded' /\ LeftWhenEmpty'
    BY <1>8, <2>1 DEF PrintTicket, Step, Goto, TypeOK, Labels, OversellBounded, LeftWhenEmpty
  <2>3. ~ \E u \in Touts : pc[u] = "sell"
    BY <1>8 DEF PrintTicket, Step, TypeOK
  <2>4. pc'[t] = "sell"
    BY <1>8 DEF PrintTicket, Step, Goto, TypeOK
  <2>5. printed' = tickets..Total
    BY <1>8, <2>3 DEF PrintTicket, EveryNumberOnce, TypeOK
  <2>6. EveryNumberOnce'
    BY <1>8, <2>4, <2>5 DEF PrintTicket, EveryNumberOnce
  <2> QED
    BY <2>2, <2>6
<1>9. ASSUME NEW t \in Touts, Sell(t) PROVE IInv'
  <2>1. t \in Committed
    BY <1>9 DEF Sell, Step, Committed
  <2>2. Committed' = Committed \ {t}
    BY <1>9 DEF Sell, Step, Goto, Committed, TypeOK
  <2>3. Cardinality(Committed') = Cardinality(Committed) - 1
    BY <2>1, <2>2, CountCommitted, FS_RemoveElement
  <2>4. OversellBounded'
    BY <1>9, <2>3, CountCommitted, CountTouts DEF Sell, OversellBounded, TypeOK, N
  <2>5. TypeOK' /\ LeftWhenEmpty'
    BY <1>9, TicketsAssumption DEF Sell, Step, Goto, TypeOK, Labels, LeftWhenEmpty
  <2>6. ~ \E u \in Touts : pc'[u] = "sell"
    BY <1>9 DEF Sell, Step, Goto, TypeOK
  <2>7. printed' = (tickets' + 1)..Total
    BY <1>9 DEF Sell, Step, EveryNumberOnce, TypeOK
  <2>8. EveryNumberOnce'
    BY <2>6, <2>7 DEF EveryNumberOnce
  <2> QED
    BY <2>4, <2>5, <2>8
<1>10. ASSUME NEW t \in Touts, Unlock(t) PROVE IInv'
  <2>1. Committed' = Committed
    BY <1>10, CommittedKept DEF Unlock
  <2> QED
    BY <1>10, <2>1, TicketsAssumption
       DEF Unlock, Step, Goto, TypeOK, Labels, OversellBounded, EveryNumberOnce, LeftWhenEmpty
<1>11. ASSUME NEW t \in Touts, Usleep(t) PROVE IInv'
  <2>1. Committed' = Committed
    BY <1>11, CommittedKept DEF Usleep
  <2> QED
    BY <1>11, <2>1
       DEF Usleep, Step, Goto, TypeOK, Labels, OversellBounded, EveryNumberOnce, LeftWhenEmpty
<1> QED
  BY <1>1, <1>2, <1>3, <1>4, <1>5, <1>6, <1>7, <1>8, <1>9, <1>10, <1>11
     DEF Next, main, thr_tout, Stopped

(* The inductive invariant holds in every reachable state.                 *)
THEOREM Invariance == Spec => []IInv
  BY InitIInv, NextIInv, PTL DEF Spec

(* tout.c:21-27: every variable keeps its type and the mutex belongs to    *)
(* the tout between the lock and the unlock.                               *)
THEOREM TypeCorrect == Spec => []TypeOK
  BY Invariance, PTL DEF IInv

(* tout.c:21: testing the count outside the lock oversells, but never by   *)
(* more than one ticket less than there are touts.                         *)
THEOREM Oversell == Spec => []OversellBounded
  BY Invariance, PTL DEF IInv

(* tout.c:22-27: whatever the count says, the lock makes every ticket      *)
(* number be printed exactly once.                                         *)
THEOREM NumbersOnce == Spec => []EveryNumberOnce
  BY Invariance, PTL DEF IInv

(* tout.c:29-33: when every tout has left, all tickets are sold.           *)
THEOREM AllSold == Spec => []SoldOut
<1>1. IInv => SoldOut
  BY TicketsAssumption DEF IInv, LeftWhenEmpty, SoldOut
<1> QED
  BY <1>1, Invariance, PTL

=============================================================================
