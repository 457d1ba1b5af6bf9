-------------------------- MODULE PhilosophersMutex --------------------------
(***************************************************************************)
(* LinuxC/pthread/TheDinningPhilosophersProblem/phil_pro_mutex.c: every    *)
(* chopstick is a mutex.  A philosopher locks chopstick no, then chopstick *)
(* no+1 mod 5, and unlocks them in the opposite order.                     *)
(*                                                                         *)
(* Program counters: think (about to lock the first), one (has the first), *)
(* both (has both), half (has given the second back).                      *)
(***************************************************************************)
EXTENDS Naturals, FiniteSets

CONSTANTS N,       \* 5
          Nobody

VARIABLES chops,   \* the owner of each mutex
          pc

vars == <<chops, pc>>

Seats == 0..N-1
Second(no) == (no + 1) % N

Step(no, from, to) == pc[no] = from /\ pc' = [pc EXCEPT ![no] = to]

(* main checks no pthread_create; creation is taken to succeed.            *)
Init == chops = [c \in Seats |-> Nobody] /\ pc = [no \in Seats |-> "new"]

Create(no) == Step(no, "new", "think") /\ UNCHANGED chops

Take(no, c, from, to) == /\ chops[c] = Nobody
                         /\ chops' = [chops EXCEPT ![c] = no]
                         /\ Step(no, from, to)

Put(no, c, from, to) == /\ chops' = [chops EXCEPT ![c] = Nobody]
                        /\ Step(no, from, to)

TakeFirst(no) == Take(no, no, "think", "one")
TakeSecond(no) == Take(no, Second(no), "one", "both")

PutSecond(no) == Put(no, Second(no), "both", "half")

(* Seeded fault: the first chopstick is never unlocked.                    *)
PutFirstNot(no) == Step(no, "half", "think") /\ UNCHANGED chops
PutFirst(no) == Put(no, no, "half", "think")

CircularWait == \A no \in Seats : pc[no] = "one"

philosopher(no) == \/ TakeFirst(no) \/ TakeSecond(no)
                   \/ PutSecond(no) \/ PutFirst(no)

(* Everybody waits for the next one, for ever.                             *)
Stuck == CircularWait /\ UNCHANGED vars

Next == (\E no \in Seats : Create(no) \/ philosopher(no)) \/ Stuck

Spec == Init /\ [][Next]_vars

-----------------------------------------------------------------------------
(* A mutex belongs to the philosopher whose program counter says so.       *)
TypeOK == /\ pc \in [Seats -> {"new", "think", "one", "both", "half"}]
          /\ chops \in [Seats -> Seats \cup {Nobody}]
          /\ \A c, no \in Seats :
               chops[c] = no <=> \/ no = c /\ pc[no] \in {"one", "both", "half"}
                                 \/ Second(no) = c /\ pc[no] = "both"

Blocked(no) == \/ pc[no] = "think" /\ chops[no] # Nobody
               \/ pc[no] = "one" /\ chops[Second(no)] # Nobody

(* The program can only get stuck in one way: every philosopher holds the  *)
(* first chopstick and waits for the second.                               *)
StuckOnlyInCircle == (\A no \in Seats : Blocked(no)) => CircularWait

(* pthread_note.txt:175-176: a circular wait is what makes a deadlock, and *)
(* taking locks in order prevents it.  Does phil_pro_mutex.c avoid it?     *)
NoCircularWait == ~CircularWait

=============================================================================
