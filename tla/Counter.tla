------------------------------- MODULE Counter -------------------------------
(***************************************************************************)
(* LinuxC/pthread/mutex: two threads increment a shared counter NLOOP      *)
(* times each, in two steps, val = counter and counter = val + 1.          *)
(* pth_mutex.c holds counter_mutex across the two, pth_nomutex.c does not  *)
(* (a data race: the load and the store are each one aligned access).      *)
(*                                                                         *)
(* Neither program checks pthread_create; creation is taken to succeed.    *)
(* Program counters: new, lock, load, store, unlock, exited.               *)
(***************************************************************************)
EXTENDS Naturals

CONSTANTS A, B,       \* the threads main creates, tidA and tidB
          NLOOP, Nobody

Threads == {A, B}

ASSUME CounterAssumption ==
  /\ A # B /\ Nobody \notin Threads
  /\ NLOOP \in Nat \ {0}

VARIABLES locked,   \* which program runs.  TRUE: pth_mutex.c, FALSE: pth_nomutex.c
          counter, counter_mutex, i, val, pc

vars == <<locked, counter, counter_mutex, i, val, pc>>

Step(t, from, to) == pc[t] = from /\ pc' = [pc EXCEPT ![t] = to]

Start == IF locked THEN "lock" ELSE "load"

(* The head of the for loop, with i at its new value n.                    *)
LoopHead(n) == IF n < NLOOP THEN Start ELSE "exited"

(* val is uninitialised and not read before doit assigns it.               *)
Init == /\ locked \in BOOLEAN
        /\ counter = 0
        /\ counter_mutex = Nobody
        /\ i = [t \in Threads |-> 0]
        /\ val = [t \in Threads |-> 0]
        /\ pc = [t \in Threads |-> "new"]

Create(t) == Step(t, "new", Start) /\ UNCHANGED <<counter, counter_mutex, i, val>>

Lock(t) == /\ counter_mutex = Nobody
           /\ counter_mutex' = t
           /\ Step(t, "lock", "load")
           /\ UNCHANGED <<counter, i, val>>

(* Seeded fault: pth_mutex.c releases the mutex between load and store.    *)
LoadUnlocks(t) == /\ val' = [val EXCEPT ![t] = counter]
                  /\ counter_mutex' = Nobody
                  /\ Step(t, "load", "store")
                  /\ UNCHANGED <<counter, i>>

Load(t) == /\ val' = [val EXCEPT ![t] = counter]
           /\ Step(t, "load", "store")
           /\ UNCHANGED <<counter, counter_mutex, i>>

(* Seeded fault: the loop body counts twice.                               *)
StoreTwice(t) == /\ counter' = val[t] + 2
                 /\ Step(t, "store", "unlock")
                 /\ UNCHANGED <<counter_mutex, i, val>>

(* counter = val + 1, with the mutex held ...                              *)
Store(t) == /\ counter' = val[t] + 1
            /\ Step(t, "store", "unlock")
            /\ UNCHANGED <<counter_mutex, i, val>>

Unlock(t) == /\ counter_mutex' = Nobody
             /\ i' = [i EXCEPT ![t] = @ + 1]
             /\ Step(t, "unlock", LoopHead(i[t] + 1))
             /\ UNCHANGED <<counter, val>>

(* Seeded fault: the increment is lost.                                    *)
StoreUnlockedStale(t) == /\ counter' = val[t]
                         /\ i' = [i EXCEPT ![t] = @ + 1]
                         /\ Step(t, "store", LoopHead(i[t] + 1))
                         /\ UNCHANGED <<counter_mutex, val>>

(* ... and without it, where the loop goes on at once.                     *)
StoreUnlocked(t) == /\ counter' = val[t] + 1
                    /\ i' = [i EXCEPT ![t] = @ + 1]
                    /\ Step(t, "store", LoopHead(i[t] + 1))
                    /\ UNCHANGED <<counter_mutex, val>>

doit(t) == \/ Load(t)
           \/ locked /\ (Lock(t) \/ Store(t) \/ Unlock(t))
           \/ ~locked /\ StoreUnlocked(t)

(* main joins every thread and returns.                                    *)
Done == (\A t \in Threads : pc[t] = "exited") /\ UNCHANGED vars

Next == \/ \E t \in Threads : (Create(t) \/ doit(t)) /\ UNCHANGED locked
        \/ Done

Spec == Init /\ [][Next]_vars

-----------------------------------------------------------------------------
AllExited == \A t \in Threads : pc[t] = "exited"

TypeOK == /\ locked \in BOOLEAN
          /\ counter \in 0..2 * NLOOP
          /\ counter_mutex \in Threads \cup {Nobody}
          /\ i \in [Threads -> 0..NLOOP]
          /\ val \in [Threads -> 0..2 * NLOOP]
          /\ pc \in [Threads -> {"new", "lock", "load", "store", "unlock", "exited"}]

(* pth_mutex.c: no increment is lost.                                      *)
NoneLost == locked /\ AllExited => counter = 2 * NLOOP

(* pth_nomutex.c: increments are lost, down to a final count of 2 and not  *)
(* NLOOP, because a thread may store the value it loaded before the other  *)
(* one ran almost to its end; and nothing is counted twice.                *)
AtLeastTwo == AllExited => counter >= (IF NLOOP = 1 THEN 1 ELSE 2)

=============================================================================
