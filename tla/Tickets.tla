------------------------------- MODULE Tickets -------------------------------
(***************************************************************************)
(* bite/pthread/tout.c: ticket touts share the counter `tickets`.  Each    *)
(* one tests the counter WITHOUT the mutex (line 21), then takes the mutex *)
(* and sells (lines 22-27).                                                *)
(*                                                                         *)
(* The test is an unlocked read of an int that other threads write, a data *)
(* race; the makefile builds without optimisation, so it is one aligned    *)
(* load and sees some current value.                                       *)
(*                                                                         *)
(* Program counters: new; check (the if); lock; print and sell (own the    *)
(* mutex); unlock; sleep (usleep); exited (pthread_exit).                  *)
(***************************************************************************)
EXTENDS Integers, FiniteSets

CONSTANTS Touts,      \* main creates 4
          Total,      \* 100
          Nobody

ASSUME TicketsAssumption ==
  IsFiniteSet(Touts) /\ Touts # {} /\ Nobody \notin Touts /\ Total \in Nat

VARIABLES tickets, mutex, pc,
          printed,   \* history: the ticket numbers printed so far
          running    \* FALSE once main has returned, which ends the process

vars == <<tickets, mutex, pc, printed, running>>

Goto(t, label) == pc' = [pc EXCEPT ![t] = label]
Step(t, from, to) == pc[t] = from /\ Goto(t, to) /\ UNCHANGED running

Init == /\ tickets = Total
        /\ mutex = Nobody
        /\ pc = [t \in Touts |-> "new"]
        /\ printed = {}
        /\ running = TRUE

(* main returns -1, which ends the process, if pthread_create fails, and 0 *)
(* once it has joined every tout.                                          *)
Create(t) == Step(t, "new", "check") /\ UNCHANGED <<tickets, mutex, printed>>

CreateFails == /\ \E t \in Touts : pc[t] = "new"
               /\ running' = FALSE
               /\ UNCHANGED <<tickets, mutex, pc, printed>>

Join == /\ \A t \in Touts : pc[t] = "exited"
        /\ running' = FALSE
        /\ UNCHANGED <<tickets, mutex, pc, printed>>

(* Seeded fault: the test lets a tout sell when nothing is left.           *)
CheckAtLeastZero(t) == /\ tickets >= 0
                       /\ Step(t, "check", "lock")
                       /\ UNCHANGED <<tickets, mutex, printed>>

Check(t) == /\ tickets > 0
            /\ Step(t, "check", "lock")
            /\ UNCHANGED <<tickets, mutex, printed>>

(* Seeded fault: a tout leaves while a ticket is left.                     *)
LeaveEarly(t) == /\ tickets <= 1
                 /\ Step(t, "check", "exited")
                 /\ UNCHANGED <<tickets, mutex, printed>>

Leave(t) == /\ tickets <= 0
            /\ Step(t, "check", "exited")
            /\ UNCHANGED <<tickets, mutex, printed>>

(* Seeded fault: a tout does not wait for the mutex.                       *)
LockNot(t) == /\ mutex' = t
              /\ Step(t, "lock", "print")
              /\ UNCHANGED <<tickets, printed>>

Lock(t) == /\ mutex = Nobody
           /\ mutex' = t
           /\ Step(t, "lock", "print")
           /\ UNCHANGED <<tickets, printed>>

PrintTicket(t) == /\ printed' = printed \cup {tickets}
                  /\ Step(t, "print", "sell")
                  /\ UNCHANGED <<tickets, mutex>>

Sell(t) == /\ tickets' = tickets - 1
           /\ Step(t, "sell", "unlock")
           /\ UNCHANGED <<mutex, printed>>

(* Seeded fault: the mutex is never released.                              *)
UnlockMissing(t) == /\ Step(t, "unlock", "sleep")
                    /\ UNCHANGED <<tickets, mutex, printed>>

Unlock(t) == /\ mutex' = Nobody
             /\ Step(t, "unlock", "sleep")
             /\ UNCHANGED <<tickets, printed>>

Usleep(t) == Step(t, "sleep", "check") /\ UNCHANGED <<tickets, mutex, printed>>

main == running /\ (Join \/ CreateFails \/ \E t \in Touts : Create(t))
thr_tout(t) == running /\ ( \/ Check(t) \/ Leave(t) \/ Lock(t) \/ PrintTicket(t)
                            \/ Sell(t) \/ Unlock(t) \/ Usleep(t) )

Stopped == ~running /\ UNCHANGED vars

Next == main \/ (\E t \in Touts : thr_tout(t)) \/ Stopped

Spec == Init /\ [][Next]_vars

-----------------------------------------------------------------------------
N == Cardinality(Touts)

Labels == {"new", "check", "lock", "print", "sell", "unlock", "sleep", "exited"}

(* Touts that have passed the test and not sold yet.                       *)
Committed == {t \in Touts : pc[t] \in {"lock", "print", "sell"}}

TypeOK == /\ tickets \in Int /\ tickets <= Total
          /\ mutex \in Touts \cup {Nobody}
          /\ pc \in [Touts -> Labels]
          /\ printed \subseteq Int
          /\ running \in BOOLEAN
          /\ \A t \in Touts : mutex = t <=> pc[t] \in {"print", "sell", "unlock"}

(* How much the unlocked test can oversell: a tout that read a positive    *)
(* count still sells after the others emptied the stock.  The count stays  *)
(* above 1 - N by at least the number of touts past the test, so N-1       *)
(* tickets too many at most are ever sold.                                 *)
OversellBounded == tickets >= Cardinality(Committed) + 1 - N

(* Printing and selling under the mutex keep the numbers apart: every      *)
(* number from Total down to the current count, and no other, has been     *)
(* printed, so no ticket number is sold twice or skipped.                  *)
EveryNumberOnce ==
  printed = (IF \E t \in Touts : pc[t] = "sell" THEN tickets ELSE tickets + 1)..Total

(* When the touts have all left, nothing is unsold.                        *)
SoldOut == (\A t \in Touts : pc[t] = "exited") => tickets <= 0

(* tout.c:5 calls the variable the current number of tickets, and tout.c:17 *)
(* asks for the lock before the shared variable is accessed: no tout is     *)
(* about to sell a ticket that does not exist.                              *)
SoldTicketExists == \A t \in Touts : pc[t] = "sell" => tickets > 0

=============================================================================
