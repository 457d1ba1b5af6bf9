---------------------------- MODULE CounterProofs ----------------------------
(***************************************************************************)
(* Theorems about Counter, for every NLOOP.                                *)
(***************************************************************************)
EXTENDS Counter, TLAPS

(* How many increments thread t has stored.                                *)
Stored(t) == i[t] + (IF pc[t] = "unlock" THEN 1 ELSE 0)

(* The types, and where the loops stand.                                   *)
Shape == /\ locked \in BOOLEAN
         /\ counter \in Nat
         /\ counter_mutex \in Threads \cup {Nobody}
         /\ i \in [Threads -> 0..NLOOP]
         /\ val \in [Threads -> Nat]
         /\ pc \in [Threads -> {"new", "lock", "load", "store", "unlock", "exited"}]
         /\ \A t \in Threads : /\ pc[t] = "exited" => i[t] = NLOOP
                               /\ pc[t] # "exited" => i[t] < NLOOP
                               /\ ~locked => pc[t] \notin {"lock", "unlock"}

(* Nothing is counted twice, with or without the mutex.                    *)
Bounded == /\ counter <= Stored(A) + Stored(B)
           /\ \A t \in Threads : val[t] <= Stored(A) + Stored(B)

(* With the mutex, the counter is exact, and so is a value loaded from it. *)
Exact == locked =>
  /\ counter = Stored(A) + Stored(B)
  /\ \A t \in Threads : /\ counter_mutex = t <=> pc[t] \in {"load", "store", "unlock"}
                        /\ pc[t] = "store" => val[t] = counter

(* Without it, a thread in its second iteration or later has loaded at     *)
(* least the 1 that its own or a later store left.                         *)
Later == /\ \A t \in Threads : i[t] >= 1 => counter >= 1
         /\ \A t \in Threads : i[t] >= 1 /\ pc[t] = "store" => val[t] >= 1
         /\ ~locked => AtLeastTwo

IInv == Shape /\ Bounded /\ Exact /\ Later

LEMMA InitIInv == Init => IInv
  BY CounterAssumption
     DEF Init, IInv, Shape, Bounded, Exact, Later, AtLeastTwo, AllExited, Stored, Threads

LEMMA NextIInv == IInv /\ [Next]_vars => IInv'
<1> SUFFICES ASSUME IInv, [Next]_vars PROVE IInv'
  OBVIOUS
<1> USE CounterAssumption DEF IInv
<1>1. CASE UNCHANGED vars
  BY <1>1 DEF vars, Shape, Bounded, Exact, Later, AtLeastTwo, AllExited, Stored
<1>2. ASSUME NEW t \in Threads, Create(t), locked' = locked PROVE IInv'
  BY <1>2 DEF Create, Step, Start, Shape, Bounded, Exact, Later, AtLeastTwo, AllExited,
              Stored, Threads
<1>3. ASSUME NEW t \in Threads, locked, Lock(t), locked' = locked PROVE IInv'
  BY <1>3 DEF Lock, Step, Shape, Bounded, Exact, Later, AtLeastTwo, AllExited, Stored, Threads
<1>4. ASSUME NEW t \in Threads, Load(t), locked' = locked PROVE IInv'
  BY <1>4 DEF Load, Step, Shape, Bounded, Exact, Later, AtLeastTwo, AllExited, Stored, Threads
<1>5. ASSUME NEW t \in Threads, locked, Store(t), locked' = locked PROVE IInv'
  BY <1>5 DEF Store, Step, Shape, Bounded, Exact, Later, AtLeastTwo, AllExited, Stored, Threads
<1>6. ASSUME NEW t \in Threads, locked, Unlock(t), locked' = locked PROVE IInv'
  BY <1>6 DEF Unlock, Step, LoopHead, Start, Shape, Bounded, Exact, Later, AtLeastTwo,
              AllExited, Stored, Threads
<1>7. ASSUME NEW t \in Threads, ~locked, StoreUnlocked(t), locked' = locked PROVE IInv'
  BY <1>7 DEF StoreUnlocked, Step, LoopHead, Start, Shape, Bounded, Exact, Later, AtLeastTwo,
              AllExited, Stored, Threads
<1> QED
  BY <1>1, <1>2, <1>3, <1>4, <1>5, <1>6, <1>7 DEF Next, doit, Done

(* The inductive invariant holds in every reachable state.                 *)
THEOREM Invariance == Spec => []IInv
  BY InitIInv, NextIInv, PTL DEF Spec

(* pth_mutex.c:29-37 and pth_nomutex.c: the counter never runs ahead of    *)
(* the increments that were made.                                          *)
THEOREM TypeCorrect == Spec => []TypeOK
<1>1. IInv => TypeOK
  BY CounterAssumption DEF IInv, Shape, Bounded, Exact, TypeOK, Stored, Threads
<1> QED
  BY <1>1, Invariance, PTL

(* pth_mutex.c:30-36: with the mutex held across the load and the store no *)
(* increment is lost.                                                      *)
THEOREM MutexLosesNone == Spec => []NoneLost
<1>1. IInv => NoneLost
  BY CounterAssumption DEF IInv, Shape, Exact, NoneLost, AllExited, Stored, Threads
<1> QED
  BY <1>1, Invariance, PTL

(* pth_nomutex.c:29-31: without the mutex increments are lost, but the     *)
(* final count is never below 2 (below 1 for a single iteration).          *)
THEOREM NeverBelowTwo == Spec => []AtLeastTwo
<1>1. IInv => AtLeastTwo
  BY CounterAssumption DEF IInv, Shape, Exact, Later, AtLeastTwo, AllExited, Stored, Threads
<1> QED
  BY <1>1, Invariance, PTL

=============================================================================
