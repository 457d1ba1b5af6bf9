--------------------------------- MODULE MySem ---------------------------------
(***************************************************************************)
(* LinuxC/pthread/semaphore/sem_by_mutex: semaphores built from a mutex    *)
(* and a condition variable, and pth_mysem.c, which runs a producer and a  *)
(* consumer on two of them.  sem_wait_my tests the count without the mutex *)
(* (line 36), with `if`, and decrements it without the mutex (line 41),    *)
(* in two steps, a load and a store; and all semaphores share one          *)
(* condition variable, `resource`.                                         *)
(*                                                                         *)
(* The producer waits on blank_number and posts product_number, the        *)
(* consumer the other way round.  Program counters: test; lock and wait    *)
(* (line 37), asleep, relock, unlock; load and store (the decrement);      *)
(* use (the slot); postlock, postload, poststore, postunlock, signal.      *)
(*                                                                         *)
(* limit_book has room for both semaphores: malloc rounds the few bytes    *)
(* that sem_init_my asks for up.  Creation of the threads is unchecked and *)
(* taken to succeed.                                                       *)
(***************************************************************************)
EXTENDS Integers, Pthread

CONSTANTS Producer, Consumer, Nobody,
          NUM,        \* blank_number starts at NUM
          MaxDrift,   \* bound: how far below 0 or above NUM a count may go
          MaxSpurious \* bound: how often pthread_cond_wait may return unasked

VARIABLES limit_book,  \* the count of each semaphore
          mutex,
          val,         \* what each thread has loaded of a count
          pc, spurious

vars == <<limit_book, mutex, val, pc, spurious>>

Threads == {Producer, Consumer}
Sems == {"blank", "product"}

(* The semaphore a thread waits on, and the one it posts.                  *)
Waits(t) == IF t = Producer THEN "blank" ELSE "product"
Posts(t) == IF t = Producer THEN "product" ELSE "blank"

resource == {t \in Threads : pc[t] = "asleep"}

Step(t, from, to) == pc[t] = from /\ pc' = [pc EXCEPT ![t] = to]

(* sem_init_my of both, before the threads are created.                    *)
Init == /\ limit_book = [s \in Sems |-> IF s = "blank" THEN NUM ELSE 0]
        /\ mutex = Nobody
        /\ val = [t \in Threads |-> 0]
        /\ pc = [t \in Threads |-> "test"]
        /\ spurious = 0

Test(t) == /\ Step(t, "test", IF limit_book[Waits(t)] = 0 THEN "lock" ELSE "load")
           /\ UNCHANGED <<limit_book, mutex, val>>

Lock(t) == /\ mutex = Nobody /\ mutex' = t
           /\ \/ Step(t, "lock", "wait")
              \/ Step(t, "relock", "unlock")
              \/ Step(t, "postlock", "postload")
           /\ UNCHANGED <<limit_book, val>>

Wait(t) == /\ Step(t, "wait", "asleep")
           /\ mutex' = Nobody
           /\ UNCHANGED <<limit_book, val>>

Unlock(t) == /\ Step(t, "unlock", "load") \/ Step(t, "postunlock", "signal")
             /\ mutex' = Nobody
             /\ UNCHANGED <<limit_book, val>>

Load(t) == /\ \/ Step(t, "load", "store") /\ val' = [val EXCEPT ![t] = limit_book[Waits(t)]]
              \/ Step(t, "postload", "poststore") /\ val' = [val EXCEPT ![t] = limit_book[Posts(t)]]
           /\ UNCHANGED <<limit_book, mutex>>

Store(t) == /\ val[t] > -MaxDrift
            /\ Step(t, "store", "use")
            /\ limit_book' = [limit_book EXCEPT ![Waits(t)] = val[t] - 1]
            /\ UNCHANGED <<mutex, val>>

(* The thread writes or reads and zeroes its slot, outside every lock.     *)
Use(t) == /\ Step(t, "use", "postlock")
          /\ UNCHANGED <<limit_book, mutex, val>>

PostStore(t) == /\ val[t] < NUM + MaxDrift
                /\ Step(t, "poststore", "postunlock")
                /\ limit_book' = [limit_book EXCEPT ![Posts(t)] = val[t] + 1]
                /\ UNCHANGED <<mutex, val>>

Signal(t) == /\ pc[t] = "signal"
             /\ \E woken \in Wakeable(resource) :
                  pc' = AfterSignal(pc, t, "test", woken, "relock")
             /\ UNCHANGED <<limit_book, mutex, val>>

SpuriousWakeup(t) == /\ spurious < MaxSpurious
                     /\ spurious' = spurious + 1
                     /\ Step(t, "asleep", "relock")
                     /\ UNCHANGED <<limit_book, mutex, val>>

thread(t) == /\ \/ Test(t) \/ Lock(t) \/ Wait(t) \/ Unlock(t) \/ Load(t)
                \/ Store(t) \/ Use(t) \/ PostStore(t) \/ Signal(t)
             /\ UNCHANGED spurious

(* Both asleep, and nobody left to signal; or a count at its bound.        *)
BothAsleep == resource = Threads
AtBound == \E t \in Threads : \/ pc[t] = "store" /\ val[t] <= -MaxDrift
                              \/ pc[t] = "poststore" /\ val[t] >= NUM + MaxDrift
Stuck == (BothAsleep \/ AtBound) /\ UNCHANGED vars

Next == (\E t \in Threads : thread(t) \/ SpuriousWakeup(t)) \/ Stuck

Spec == Init /\ [][Next]_vars

-----------------------------------------------------------------------------
Labels == {"test", "lock", "wait", "asleep", "relock", "unlock", "load", "store", "use",
           "postlock", "postload", "poststore", "postunlock", "signal"}

TypeOK == /\ limit_book \in [Sems -> -MaxDrift..NUM + MaxDrift]
          /\ mutex \in Threads \cup {Nobody}
          /\ val \in [Threads -> -MaxDrift..NUM + MaxDrift]
          /\ pc \in [Threads -> Labels]
          /\ spurious \in 0..MaxSpurious
          /\ \A t \in Threads :
               mutex = t <=> pc[t] \in {"wait", "unlock", "postload", "poststore", "postunlock"}

(* pthread_note.txt:135-136: a unit is taken only if the count is greater  *)
(* than 0, otherwise the thread blocks; so a count never falls below 0.    *)
NeverBelowZero == \A s \in Sems : limit_book[s] >= 0

=============================================================================
