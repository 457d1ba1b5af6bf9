----------------------------- MODULE Philosophers -----------------------------
(***************************************************************************)
(* LinuxC/pthread/TheDinningPhilosophersProblem/phil_pro.c: philosophers   *)
(* take two chopsticks, the states of which one mutex protects; a          *)
(* chopstick that is taken is waited for on its own condition variable,    *)
(* with `if` and not `while` around pthread_cond_wait (lines 22 and 29).   *)
(*                                                                         *)
(* Program counters: new; think (line 19, then the lock); first and second *)
(* (own the mutex, about to test the first or the second chopstick);       *)
(* wait1/wait2 (asleep); woken1/woken2 (in pthread_cond_wait, to take the  *)
(* mutex back); eat (line 35, then the lock); signal1, signal2.            *)
(***************************************************************************)
EXTENDS Naturals, FiniteSets, Pthread

CONSTANTS N,                \* 5 philosophers and chopsticks
          Nobody,
          MaxSpurious       \* bound: how often pthread_cond_wait may return
                            \* unasked

PhilosophersAssumption ==
  N \in Nat /\ N >= 2 /\ Nobody \notin 1..N /\ MaxSpurious \in Nat

VARIABLES chops,   \* 1: on the table, 0: taken
          mutex, pc,
          spurious \* spurious wakeups so far

vars == <<chops, mutex, pc, spurious>>

Philosophers == 1..N
Chopsticks == 0..N-1

First(no) == (no + N - 2) % N     \* (no + 3) % 5
Second(no) == no - 1

(* The condition variables conds[c], as the threads asleep in them.        *)
conds(c) == {no \in Philosophers : \/ pc[no] = "wait1" /\ First(no) = c
                                   \/ pc[no] = "wait2" /\ Second(no) = c}

Step(no, from, to) == pc[no] = from /\ pc' = [pc EXCEPT ![no] = to]

Init == /\ chops = [c \in Chopsticks |-> 1]
        /\ mutex = Nobody
        /\ pc = [no \in Philosophers |-> "new"]
        /\ spurious = 0

(* main checks no pthread_create; creation is taken to succeed.            *)
Create(no) == Step(no, "new", "think") /\ UNCHANGED <<chops, mutex, spurious>>

Lock(no) == /\ mutex = Nobody /\ mutex' = no
            /\ Step(no, "think", "first")
            /\ UNCHANGED chops

WaitFirst(no) == /\ chops[First(no)] = 0
                 /\ mutex' = Nobody
                 /\ Step(no, "first", "wait1")
                 /\ UNCHANGED chops

(* Seeded fault: lines 26 and 28, commented out in the source, release the *)
(* mutex between the two chopsticks.                                       *)
TakeFirstUnlocks(no) == /\ chops[First(no)] = 1
                        /\ chops' = [chops EXCEPT ![First(no)] = 0]
                        /\ mutex' = Nobody
                        /\ Step(no, "first", "second")

TakeFirst(no) == /\ chops[First(no)] = 1
                 /\ chops' = [chops EXCEPT ![First(no)] = 0]
                 /\ Step(no, "first", "second")
                 /\ UNCHANGED mutex

(* Back from pthread_cond_wait: the chopstick is taken without a new test. *)
ResumeFirst(no) == /\ mutex = Nobody /\ mutex' = no
                   /\ chops' = [chops EXCEPT ![First(no)] = 0]
                   /\ Step(no, "woken1", "second")

WaitSecond(no) == /\ chops[Second(no)] = 0
                  /\ mutex' = Nobody
                  /\ Step(no, "second", "wait2")
                  /\ UNCHANGED chops

TakeSecond(no) == /\ chops[Second(no)] = 1
                  /\ chops' = [chops EXCEPT ![Second(no)] = 0]
                  /\ mutex' = Nobody
                  /\ Step(no, "second", "eat")

ResumeSecond(no) == /\ mutex = Nobody
                    /\ chops' = [chops EXCEPT ![Second(no)] = 0]
                    /\ Step(no, "woken2", "eat")
                    /\ UNCHANGED mutex

(* Lines 36-39: lock, put both down, unlock.                               *)
Release(no) == /\ mutex = Nobody
               /\ chops' = [chops EXCEPT ![First(no)] = 1, ![Second(no)] = 1]
               /\ Step(no, "eat", "signal1")
               /\ UNCHANGED mutex

(* pthread_cond_signal(conds[c]) by philosopher no, who goes on to `next`. *)
Signal(no, c, next) ==
  \E woken \in Wakeable(conds(c)) :
    pc' = [q \in Philosophers |-> CASE q = no -> next
                                    [] q \in woken /\ pc[q] = "wait1" -> "woken1"
                                    [] q \in woken /\ pc[q] = "wait2" -> "woken2"
                                    [] OTHER -> pc[q]]

SignalFirst(no) == /\ pc[no] = "signal1"
                   /\ Signal(no, First(no), "signal2")
                   /\ UNCHANGED <<chops, mutex>>

(* Seeded fault: both signals go to the first chopstick.                   *)
SignalFirstAgain(no) == /\ pc[no] = "signal2"
                        /\ Signal(no, First(no), "think")
                        /\ UNCHANGED <<chops, mutex>>

SignalSecond(no) == /\ pc[no] = "signal2"
                    /\ Signal(no, Second(no), "think")
                    /\ UNCHANGED <<chops, mutex>>

SpuriousWakeup(no) == /\ spurious < MaxSpurious
                      /\ spurious' = spurious + 1
                      /\ Step(no, "wait1", "woken1") \/ Step(no, "wait2", "woken2")
                      /\ UNCHANGED <<chops, mutex>>

philosopher(no) ==
  /\ \/ Lock(no) \/ WaitFirst(no) \/ TakeFirst(no) \/ ResumeFirst(no)
     \/ WaitSecond(no) \/ TakeSecond(no) \/ ResumeSecond(no)
     \/ Release(no) \/ SignalFirst(no) \/ SignalSecond(no)
  /\ UNCHANGED spurious

Next == \E no \in Philosophers : Create(no) \/ philosopher(no) \/ SpuriousWakeup(no)

Spec == Init /\ [][Next]_vars

(* Every thread that can take a step eventually does.                      *)
FairSpec == Spec /\ \A no \in Philosophers : WF_vars(Create(no)) /\ WF_vars(philosopher(no))

-----------------------------------------------------------------------------
Labels == {"new", "think", "first", "wait1", "woken1", "second", "wait2", "woken2",
           "eat", "signal1", "signal2"}

(* The chopsticks a philosopher has fetched and not put down.              *)
Has(no) == (IF pc[no] \in {"second", "wait2", "woken2", "eat"} THEN {First(no)} ELSE {})
             \cup (IF pc[no] = "eat" THEN {Second(no)} ELSE {})

TypeOK == /\ chops \in [Chopsticks -> 0..1]
          /\ mutex \in Philosophers \cup {Nobody}
          /\ pc \in [Philosophers -> Labels]
          /\ spurious \in 0..MaxSpurious
          /\ \A no \in Philosophers : mutex = no <=> pc[no] \in {"first", "second"}

(* A chopstick marked taken is in somebody's hand: none is lost, even      *)
(* though two philosophers may have it at once.                            *)
NoneLeftTaken == \A c \in Chopsticks :
  chops[c] = 0 => \E no \in Philosophers : c \in Has(no)

(* Each philosopher holds a chopstick while asleep for the next one, yet   *)
(* the circle never closes: a philosopher fetches both under one hold of   *)
(* the mutex, so the last one to fall asleep would have to wait for a      *)
(* neighbour who, since then, was waiting for it.                          *)
NeverAllAsleep == \E no \in Philosophers : pc[no] \notin {"wait1", "wait2"}

(* The signals come after the unlock (phil_pro.c:39-41) and reach only     *)
(* those asleep by then.  No sleeper is left behind: the chopstick it      *)
(* waits for is in another's hand, or another is still to signal it.       *)
SleeperHasWaker == \A c \in Chopsticks : \A no \in conds(c) :
  \E q \in Philosophers \ {no} :
     \/ c \in Has(q)
     \/ pc[q] = "signal1" /\ c \in {First(q), Second(q)}
     \/ pc[q] = "signal2" /\ c = Second(q)

(* With weak fairness somebody eats again and again (but not everybody:    *)
(* the mutex may pass a philosopher over for ever).                        *)
Eating == \E no \in Philosophers : pc[no] = "eat"

(* pthread_note.txt:94-98: the condition must be tested in a loop, lest a  *)
(* woken thread go on when the resource is gone.  phil_pro.c uses `if`: do *)
(* two philosophers ever hold one chopstick?                               *)
Exclusive == \A no, q \in Philosophers : no # q => Has(no) \cap Has(q) = {}

=============================================================================
