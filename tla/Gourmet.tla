------------------------------- MODULE Gourmet -------------------------------
(***************************************************************************)
(* bite/pthread/cond.c: chiefs put a dish on a counter that has room for   *)
(* one, gourmets eat it; one mutex and a condition variable for each role. *)
(*                                                                         *)
(* Program counters: new; lock (pthread_mutex_lock, or returning from      *)
(* pthread_cond_wait); test (owns the mutex, head of the while loop);      *)
(* wait; unlock; signal.                                                   *)
(***************************************************************************)
EXTENDS Integers, FiniteSets, Pthread

CONSTANTS Gourmets, Chiefs,   \* four of each
          Nobody,
          MaxSpurious         \* bound: how often pthread_cond_wait may return
                              \* unasked

Threads == Gourmets \cup Chiefs

VARIABLES have_delicacy, mutex, pc,
          running,   \* FALSE once main has returned, which ends the process
          spurious   \* spurious wakeups so far

vars == <<have_delicacy, mutex, pc, running, spurious>>

cond_gourmet == {g \in Gourmets : pc[g] = "wait"}
cond_cheif == {c \in Chiefs : pc[c] = "wait"}

Step(t, from, to) == pc[t] = from /\ pc' = [pc EXCEPT ![t] = to] /\ UNCHANGED running

Init == /\ have_delicacy = 0
        /\ mutex = Nobody
        /\ pc = [t \in Threads |-> "new"]
        /\ running = TRUE
        /\ spurious = 0

(* main creates every gourmet, then every chief, and returns if            *)
(* pthread_create fails.                                                   *)
Create(t) == /\ t \in Chiefs => \A g \in Gourmets : pc[g] # "new"
             /\ Step(t, "new", "lock")
             /\ UNCHANGED <<have_delicacy, mutex>>

CreateFails == /\ \E t \in Threads : pc[t] = "new"
               /\ running' = FALSE
               /\ UNCHANGED <<have_delicacy, mutex, pc>>

Lock(t) == /\ mutex = Nobody /\ mutex' = t
           /\ Step(t, "lock", "test")
           /\ UNCHANGED have_delicacy

(* while (have_delicacy == 0) pthread_cond_wait(&cond_gourmet, &mutex)     *)
WaitForDish(g) == /\ have_delicacy = 0
                  /\ mutex' = Nobody
                  /\ Step(g, "test", "wait")
                  /\ UNCHANGED have_delicacy

Eat(g) == /\ have_delicacy # 0
          /\ have_delicacy' = have_delicacy - 1
          /\ Step(g, "test", "unlock")
          /\ UNCHANGED mutex

(* while (have_delicacy == 1) pthread_cond_wait(&cond_cheif, &mutex)       *)
WaitForEater(c) == /\ have_delicacy = 1
                   /\ mutex' = Nobody
                   /\ Step(c, "test", "wait")
                   /\ UNCHANGED have_delicacy

(* Seeded fault: a chief does not look whether the counter is free.        *)
CookAlways(c) == /\ have_delicacy' = have_delicacy + 1
                 /\ Step(c, "test", "unlock")
                 /\ UNCHANGED mutex

Cook(c) == /\ have_delicacy # 1
           /\ have_delicacy' = have_delicacy + 1
           /\ Step(c, "test", "unlock")
           /\ UNCHANGED mutex

Unlock(t) == /\ mutex' = Nobody
             /\ Step(t, "unlock", "signal")
             /\ UNCHANGED have_delicacy

(* Seeded fault: both roles wait in one queue, and a gourmet's signal may  *)
(* wake a gourmet.                                                         *)
SignalAnyone(g) == /\ pc[g] = "signal"
                   /\ \E woken \in Wakeable(cond_cheif \cup cond_gourmet) :
                        pc' = AfterSignal(pc, g, "lock", woken, "lock")
                   /\ UNCHANGED <<have_delicacy, mutex, running>>

SignalCheif(g) == /\ pc[g] = "signal"
                  /\ \E woken \in Wakeable(cond_cheif) :
                       pc' = AfterSignal(pc, g, "lock", woken, "lock")
                  /\ UNCHANGED <<have_delicacy, mutex, running>>

SignalGourmet(c) == /\ pc[c] = "signal"
                    /\ \E woken \in Wakeable(cond_gourmet) :
                         pc' = AfterSignal(pc, c, "lock", woken, "lock")
                    /\ UNCHANGED <<have_delicacy, mutex, running>>

SpuriousWakeup(t) == /\ running
                     /\ spurious < MaxSpurious
                     /\ spurious' = spurious + 1
                     /\ Step(t, "wait", "lock")
                     /\ UNCHANGED <<have_delicacy, mutex>>

main == /\ running
        /\ CreateFails \/ \E t \in Threads : Create(t)
        /\ UNCHANGED spurious
gourmet(g) == /\ running
              /\ Lock(g) \/ WaitForDish(g) \/ Eat(g) \/ Unlock(g) \/ SignalCheif(g)
              /\ UNCHANGED spurious
chief(c) == /\ running
            /\ Lock(c) \/ WaitForEater(c) \/ Cook(c) \/ Unlock(c) \/ SignalGourmet(c)
            /\ UNCHANGED spurious

(* main joins only the last gourmet and the last chief, and neither ends.  *)
Stopped == ~running /\ UNCHANGED vars

Next == \/ main
        \/ \E g \in Gourmets : gourmet(g)
        \/ \E c \in Chiefs : chief(c)
        \/ \E t \in Threads : SpuriousWakeup(t)
        \/ Stopped

Spec == Init /\ [][Next]_vars

(* Every thread that can take a step eventually does.                      *)
FairSpec == /\ Spec /\ WF_vars(main)
            /\ \A g \in Gourmets : WF_vars(gourmet(g))
            /\ \A c \in Chiefs : WF_vars(chief(c))

-----------------------------------------------------------------------------
TypeOK == /\ have_delicacy \in {0, 1}
          /\ mutex \in Threads \cup {Nobody}
          /\ pc \in [Threads -> {"new", "lock", "test", "wait", "unlock", "signal"}]
          /\ running \in BOOLEAN
          /\ spurious \in 0..MaxSpurious
          /\ \A t \in Threads : mutex = t <=> pc[t] \in {"test", "unlock"}

(* A dish is never left on the counter with every gourmet asleep and       *)
(* nobody about to wake one, nor an empty counter with every chief asleep: *)
(* the signals follow the unlock (cond.c:22-23, 37-40), and the wakeup is  *)
(* not lost in between.                                                    *)
Coming(T) == \E t \in T : pc[t] \in {"lock", "test"}
Signalling(T) == \E t \in T : pc[t] \in {"unlock", "signal"}
NoLostWakeup ==
  /\ have_delicacy = 1 /\ cond_gourmet # {} => Signalling(Chiefs) \/ Coming(Gourmets)
  /\ have_delicacy = 0 /\ cond_cheif # {} => Signalling(Gourmets) \/ Coming(Chiefs)

(* Dishes are made and eaten again and again, unless thread creation       *)
(* failed.  That each role waits on its own condition variable is what it  *)
(* takes (pthread_note.txt:99-104).                                        *)
Cooked == have_delicacy = 1 \/ ~running
Eaten == have_delicacy = 0 \/ ~running

=============================================================================
