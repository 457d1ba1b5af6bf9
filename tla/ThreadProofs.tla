----------------------------- MODULE ThreadProofs -----------------------------
(***************************************************************************)
(* Theorems about the programs of ThreadPrograms, for every value of its   *)
(* constants.  Each program has an inductive invariant of its own; a step  *)
(* of one leaves the variables of the others alone.                        *)
(***************************************************************************)
EXTENDS ThreadPrograms, Lemmas, SequenceTheorems

-----------------------------------------------------------------------------
(* phil_pro_mutex.c                                                        *)

(* The neighbour to the right.                                             *)
LEMMA PSecond == \A no \in P!Seats : P!Second(no) = IF no = Diners - 1 THEN 0 ELSE no + 1
<1> SUFFICES ASSUME NEW no \in P!Seats
             PROVE  P!Second(no) = IF no = Diners - 1 THEN 0 ELSE no + 1
  OBVIOUS
<1>1. Diners \in Nat \ {0} /\ no \in Nat /\ no + 1 \in Nat /\ no < Diners
  BY ThreadProgramsAssumption DEF P!Seats
<1>2. (no + 1) % Diners = IF no + 1 < Diners THEN no + 1 ELSE no + 1 - Diners
  BY <1>1
<1> QED
  BY <1>1, <1>2 DEF P!Second, P!Seats

LEMMA PInit == P!Init => P!TypeOK
  BY ThreadProgramsAssumption DEF P!Init, P!TypeOK, P!Seats

LEMMA PNext == P!TypeOK /\ [P!Next]_pvars => P!TypeOK'
<1> SUFFICES ASSUME P!TypeOK, [P!Next]_pvars PROVE P!TypeOK'
  OBVIOUS
<1> USE ThreadProgramsAssumption, PSecond DEF P!TypeOK, P!Seats
<1>1. CASE UNCHANGED pvars
  BY <1>1 DEF pvars
<1>2. CASE P!Stuck
  BY <1>2 DEF P!Stuck, P!vars
<1>3. ASSUME NEW no \in P!Seats, P!Create(no) PROVE P!TypeOK'
  BY <1>3 DEF P!Create, P!Step
<1>4. ASSUME NEW no \in P!Seats, P!TakeFirst(no) PROVE P!TypeOK'
  BY <1>4 DEF P!TakeFirst, P!Take, P!Step
<1>5. ASSUME NEW no \in P!Seats, P!TakeSecond(no) PROVE P!TypeOK'
  BY <1>5 DEF P!TakeSecond, P!Take, P!Step
<1>6. ASSUME NEW no \in P!Seats, P!PutSecond(no) PROVE P!TypeOK'
  BY <1>6 DEF P!PutSecond, P!Put, P!Step
<1>7. ASSUME NEW no \in P!Seats, P!PutFirst(no) PROVE P!TypeOK'
  BY <1>7 DEF P!PutFirst, P!Put, P!Step
<1> QED
  BY <1>1, <1>2, <1>3, <1>4, <1>5, <1>6, <1>7 DEF P!Next, P!philosopher

(* Whoever is blocked is blocked by somebody who holds a chopstick, and a  *)
(* philosopher who holds both is not blocked.                              *)
LEMMA PStuck == P!TypeOK => P!StuckOnlyInCircle
  BY ThreadProgramsAssumption, PSecond
     DEF P!TypeOK, P!Seats, P!StuckOnlyInCircle, P!Blocked, P!CircularWait

-----------------------------------------------------------------------------
(* phil_pro.c                                                              *)

Left(no) == IF no = 1 THEN PhilPros ELSE no - 1
Right(no) == IF no = PhilPros THEN 1 ELSE no + 1

(* A chopstick that is marked taken is with one of the two who share it    *)
(* (the one whose first it is, or that one's left neighbour).              *)
CTaken == \A no \in C!Philosophers :
  pchops[C!First(no)] = 0 => \/ cpc[no] \in {"second", "wait2", "woken2", "eat"}
                             \/ cpc[Left(no)] = "eat"

(* A sleeper waits for the chopstick it shares with a neighbour, who has   *)
(* it or is still to signal it; and who fetches its second chopstick got   *)
(* the first under the same hold of the mutex, when nobody slept for it.   *)
CWaits == \A no \in C!Philosophers :
  /\ cpc[no] = "wait1" => cpc[Left(no)] \in {"eat", "signal1", "signal2"}
  /\ cpc[no] = "wait2" => cpc[Right(no)] \in {"second", "wait2", "woken2", "eat", "signal1"}
  /\ cpc[no] = "second" => cpc[Left(no)] # "wait2"

CInv == C!TypeOK /\ CTaken /\ CWaits

(* The seats form a ring, and neighbours share a chopstick.                *)
LEMMA CSeats ==
  /\ MaxSpurious \in Nat /\ Nobody \notin C!Philosophers /\ 1 \in C!Philosophers
  /\ \A no \in C!Philosophers :
       /\ Left(no) \in C!Philosophers \ {no} /\ Right(no) \in C!Philosophers \ {no}
       /\ Left(Right(no)) = no /\ Right(Left(no)) = no
       /\ C!First(no) \in C!Chopsticks /\ C!Second(no) = C!First(Right(no))
       /\ \A q \in C!Philosophers : C!First(q) = C!First(no) => q = no
  /\ \A s \in C!Chopsticks : \E no \in C!Philosophers : C!First(no) = s
<1>1. PhilPros \in Nat /\ PhilPros >= 2 /\ Nobody \notin 1..PhilPros /\ MaxSpurious \in Nat
  BY ThreadProgramsAssumption DEF C!PhilosophersAssumption
<1>2. ASSUME NEW no \in C!Philosophers
      PROVE  C!First(no) = IF no = 1 THEN PhilPros - 1 ELSE no - 2
  BY <1>1 DEF C!First, C!Philosophers
<1>3. ASSUME NEW s \in C!Chopsticks PROVE \E no \in C!Philosophers : C!First(no) = s
  <2> DEFINE no == IF s = PhilPros - 1 THEN 1 ELSE s + 2
  <2>1. no \in C!Philosophers /\ C!First(no) = s
    BY <1>1, <1>2 DEF C!Philosophers, C!Chopsticks
  <2> QED
    BY <2>1
<1> QED
  BY <1>1, <1>2, <1>3 DEF C!Second, C!Philosophers, C!Chopsticks, Left, Right

LEMMA CInit == C!Init => CInv
<1> SUFFICES ASSUME C!Init PROVE CInv
  OBVIOUS
<1> USE CSeats DEF C!Init
<1>1. C!TypeOK
  BY DEF C!TypeOK, C!Labels
<1>2. CTaken /\ CWaits
  BY DEF CTaken, CWaits
<1> QED
  BY <1>1, <1>2 DEF CInv

(* Each operation, and each wakeup, keeps the invariant.                   *)
LEMMA CNext == CInv /\ [C!Next]_cvars => CInv'
<1> SUFFICES ASSUME CInv, [C!Next]_cvars PROVE CInv'
  OBVIOUS
<1> USE CSeats DEF CInv
<1>1. CASE UNCHANGED cvars
  BY <1>1 DEF cvars, C!TypeOK, CTaken, CWaits
<1>2. ASSUME NEW no \in C!Philosophers, C!Create(no), UNCHANGED cspurious PROVE CInv'
  <2>1. C!TypeOK'
    BY <1>2 DEF C!Create, C!Step, C!TypeOK, C!Labels
  <2>2. CTaken'
    BY <1>2 DEF C!Create, C!Step, C!TypeOK, CTaken
  <2>3. CWaits'
    BY <1>2 DEF C!Create, C!Step, C!TypeOK, CTaken, CWaits
  <2> QED
    BY <2>1, <2>2, <2>3
<1>3. ASSUME NEW no \in C!Philosophers, C!Lock(no), UNCHANGED cspurious PROVE CInv'
  <2>1. C!TypeOK'
    BY <1>3 DEF C!Lock, C!Step, C!TypeOK, C!Labels
  <2>2. CTaken'
    BY <1>3 DEF C!Lock, C!Step, C!TypeOK, CTaken
  <2>3. CWaits'
    BY <1>3 DEF C!Lock, C!Step, C!TypeOK, CTaken, CWaits
  <2> QED
    BY <2>1, <2>2, <2>3
<1>4. ASSUME NEW no \in C!Philosophers, C!WaitFirst(no), UNCHANGED cspurious PROVE CInv'
  <2>1. C!TypeOK'
    BY <1>4 DEF C!WaitFirst, C!Step, C!TypeOK, C!Labels
  <2>2. CTaken'
    BY <1>4 DEF C!WaitFirst, C!Step, C!TypeOK, CTaken
  <2>3. CWaits'
    BY <1>4 DEF C!WaitFirst, C!Step, C!TypeOK, CTaken, CWaits
  <2> QED
    BY <2>1, <2>2, <2>3
<1>5. ASSUME NEW no \in C!Philosophers, C!TakeFirst(no), UNCHANGED cspurious PROVE CInv'
  <2>1. C!TypeOK'
    BY <1>5 DEF C!TakeFirst, C!Step, C!TypeOK, C!Labels
  <2>2. CTaken'
    BY <1>5 DEF C!TakeFirst, C!Step, C!TypeOK, CTaken
  <2>3. CWaits'
    BY <1>5 DEF C!TakeFirst, C!Step, C!TypeOK, CTaken, CWaits
  <2> QED
    BY <2>1, <2>2, <2>3
<1>6. ASSUME NEW no \in C!Philosophers, C!ResumeFirst(no), UNCHANGED cspurious PROVE CInv'
  <2>1. C!TypeOK'
    BY <1>6 DEF C!ResumeFirst, C!Step, C!TypeOK, C!Labels
  <2>2. CTaken'
    BY <1>6 DEF C!ResumeFirst, C!Step, C!TypeOK, CTaken
  <2>3. CWaits'
    BY <1>6 DEF C!ResumeFirst, C!Step, C!TypeOK, CTaken, CWaits
  <2> QED
    BY <2>1, <2>2, <2>3
<1>7. ASSUME NEW no \in C!Philosophers, C!WaitSecond(no), UNCHANGED cspurious PROVE CInv'
  <2>1. C!TypeOK'
    BY <1>7 DEF C!WaitSecond, C!Step, C!TypeOK, C!Labels
  <2>2. CTaken'
    BY <1>7 DEF C!WaitSecond, C!Step, C!TypeOK, CTaken
  <2>3. CWaits'
    BY <1>7 DEF C!WaitSecond, C!Step, C!TypeOK, CTaken, CWaits
  <2> QED
    BY <2>1, <2>2, <2>3
<1>8. ASSUME NEW no \in C!Philosophers, C!TakeSecond(no), UNCHANGED cspurious PROVE CInv'
  <2>1. C!TypeOK'
    BY <1>8 DEF C!TakeSecond, C!Step, C!TypeOK, C!Labels
  <2>2. CTaken'
    BY <1>8 DEF C!TakeSecond, C!Step, C!TypeOK, CTaken
  <2>3. CWaits'
    BY <1>8 DEF C!TakeSecond, C!Step, C!TypeOK, CTaken, CWaits
  <2> QED
    BY <2>1, <2>2, <2>3
<1>9. ASSUME NEW no \in C!Philosophers, C!ResumeSecond(no), UNCHANGED cspurious PROVE CInv'
  <2>1. C!TypeOK'
    BY <1>9 DEF C!ResumeSecond, C!Step, C!TypeOK, C!Labels
  <2>2. CTaken'
    BY <1>9 DEF C!ResumeSecond, C!Step, C!TypeOK, CTaken
  <2>3. CWaits'
    BY <1>9 DEF C!ResumeSecond, C!Step, C!TypeOK, CTaken, CWaits
  <2> QED
    BY <2>1, <2>2, <2>3
<1>10. ASSUME NEW no \in C!Philosophers, C!Release(no), UNCHANGED cspurious PROVE CInv'
  <2>1. C!TypeOK'
    BY <1>10 DEF C!Release, C!Step, C!TypeOK, C!Labels
  <2>2. CTaken'
    BY <1>10 DEF C!Release, C!Step, C!TypeOK, CTaken
  <2>3. CWaits'
    BY <1>10 DEF C!Release, C!Step, C!TypeOK, CTaken, CWaits
  <2> QED
    BY <2>1, <2>2, <2>3
<1>11. ASSUME NEW no \in C!Philosophers, C!SignalFirst(no), UNCHANGED cspurious PROVE CInv'
  <2>1. PICK woken \in C!Wakeable(C!conds(C!First(no))) :
          cpc' = [q \in C!Philosophers |-> CASE q = no -> "signal2"
                                         [] q \in woken /\ cpc[q] = "wait1" -> "woken1"
                                         [] q \in woken /\ cpc[q] = "wait2" -> "woken2"
                                         [] OTHER -> cpc[q]]
    BY <1>11 DEF C!SignalFirst, C!Signal
  <2>2. cpc[no] = "signal1" /\ UNCHANGED <<pchops, pmutex>>
    BY <1>11 DEF C!SignalFirst
  <2>3. /\ woken \subseteq {Left(no)} /\ \A q \in woken : cpc[q] = "wait2"
        /\ cpc[Left(no)] = "wait2" => Left(no) \in woken
    BY <2>2 DEF C!Wakeable, C!conds
  <2>4. cpc' = [q \in C!Philosophers |-> IF q = no THEN "signal2"
                                        ELSE IF q \in woken THEN "woken2" ELSE cpc[q]]
    BY <2>1, <2>3
  <2>5. C!TypeOK'
    BY <1>11, <2>2, <2>3, <2>4 DEF C!TypeOK, C!Labels
  <2>6. CTaken'
    BY <2>2, <2>3, <2>4 DEF CTaken
  <2>7. CWaits'
    BY <2>2, <2>3, <2>4 DEF CWaits
  <2> QED
    BY <2>5, <2>6, <2>7
<1>12. ASSUME NEW no \in C!Philosophers, C!SignalSecond(no), UNCHANGED cspurious PROVE CInv'
  <2>1. PICK woken \in C!Wakeable(C!conds(C!Second(no))) :
          cpc' = [q \in C!Philosophers |-> CASE q = no -> "think"
                                         [] q \in woken /\ cpc[q] = "wait1" -> "woken1"
                                         [] q \in woken /\ cpc[q] = "wait2" -> "woken2"
                                         [] OTHER -> cpc[q]]
    BY <1>12 DEF C!SignalSecond, C!Signal
  <2>2. cpc[no] = "signal2" /\ UNCHANGED <<pchops, pmutex>>
    BY <1>12 DEF C!SignalSecond
  <2>3. /\ woken \subseteq {Right(no)} /\ \A q \in woken : cpc[q] = "wait1"
        /\ cpc[Right(no)] = "wait1" => Right(no) \in woken
    BY <2>2 DEF C!Wakeable, C!conds
  <2>4. cpc' = [q \in C!Philosophers |-> IF q = no THEN "think"
                                        ELSE IF q \in woken THEN "woken1" ELSE cpc[q]]
    BY <2>1, <2>3
  <2>5. C!TypeOK'
    BY <1>12, <2>2, <2>3, <2>4 DEF C!TypeOK, C!Labels
  <2>6. CTaken'
    BY <2>2, <2>3, <2>4 DEF CTaken
  <2>7. CWaits'
    BY <2>2, <2>3, <2>4 DEF CWaits
  <2> QED
    BY <2>5, <2>6, <2>7
<1>13. ASSUME NEW no \in C!Philosophers, C!SpuriousWakeup(no) PROVE CInv'
  <2>1. PICK w \in {"woken1", "woken2"} :
          /\ cpc' = [cpc EXCEPT ![no] = w]
          /\ cpc[no] = IF w = "woken1" THEN "wait1" ELSE "wait2"
    BY <1>13 DEF C!SpuriousWakeup, C!Step
  <2>2. UNCHANGED <<pchops, pmutex>> /\ cspurious \in 0..MaxSpurious /\ cspurious < MaxSpurious
        /\ cspurious' = cspurious + 1
    BY <1>13 DEF C!SpuriousWakeup, C!TypeOK
  <2>3. C!TypeOK'
    <3>1. cspurious' \in 0..MaxSpurious
      BY <2>2
    <3>2. cpc' \in [C!Philosophers -> C!Labels]
      BY <2>1 DEF C!TypeOK, C!Labels
    <3> QED
      BY <2>1, <2>2, <3>1, <3>2 DEF C!TypeOK
  <2>4. CTaken'
    BY <2>1, <2>2 DEF C!TypeOK, CTaken
  <2>5. CWaits'
    BY <2>1, <2>2 DEF C!TypeOK, CWaits
  <2> QED
    BY <2>3, <2>4, <2>5
<1> QED
  BY <1>1, <1>2, <1>3, <1>4, <1>5, <1>6, <1>7, <1>8, <1>9, <1>10, <1>11, <1>12, <1>13
     DEF C!Next, C!philosopher, C!Create

(* What is taken is in a hand, and a sleeper's neighbour is its waker.     *)
LEMMA CWaker == CInv => C!NoneLeftTaken /\ C!SleeperHasWaker
<1> SUFFICES ASSUME CInv PROVE C!NoneLeftTaken /\ C!SleeperHasWaker
  OBVIOUS
<1>1. C!NoneLeftTaken
  <2> SUFFICES ASSUME NEW s \in C!Chopsticks, pchops[s] = 0
               PROVE  \E no \in C!Philosophers : s \in C!Has(no)
    BY DEF C!NoneLeftTaken
  <2>1. PICK no \in C!Philosophers : C!First(no) = s
    BY CSeats
  <2>2. s \in C!Has(no) \/ s \in C!Has(Left(no))
    BY <2>1, CSeats DEF CInv, CTaken, C!Has
  <2> QED
    BY <2>2, CSeats
<1>2. C!SleeperHasWaker
  BY CSeats DEF CInv, CWaits, C!SleeperHasWaker, C!conds, C!Has
<1> QED
  BY <1>1, <1>2

(* The last to fall asleep: at its first chopstick its left neighbour is   *)
(* awake; at its second one that neighbour is not asleep at its own second *)
(* one, so it is awake or its left neighbour is, which is then a third.    *)
LEMMA CAwake == CInv /\ C!NeverAllAsleep /\ [C!Next]_cvars => C!NeverAllAsleep'
<1> SUFFICES ASSUME CInv, C!NeverAllAsleep, [C!Next]_cvars PROVE C!NeverAllAsleep'
  OBVIOUS
<1> USE CSeats DEF CInv, C!TypeOK
<1>1. CASE UNCHANGED cvars
  BY <1>1 DEF cvars, C!NeverAllAsleep
<1>2. ASSUME NEW no \in C!Philosophers, C!WaitFirst(no) PROVE C!NeverAllAsleep'
  <2>1. cpc'[Left(no)] = "eat"
    BY <1>2 DEF C!WaitFirst, C!Step, CTaken
  <2> QED
    BY <2>1 DEF C!NeverAllAsleep
<1>3. ASSUME NEW no \in C!Philosophers, C!WaitSecond(no) PROVE C!NeverAllAsleep'
  <2>1. cpc[no] = "second" /\ cpc' = [cpc EXCEPT ![no] = "wait2"]
    BY <1>3 DEF C!WaitSecond, C!Step
  <2>2. cpc[Left(no)] # "wait2"
    BY <2>1 DEF CWaits
  <2>3. CASE cpc[Left(no)] # "wait1"
    BY <2>1, <2>2, <2>3 DEF C!NeverAllAsleep
  <2>4. CASE cpc[Left(no)] = "wait1"
    <3>1. cpc[Left(Left(no))] \in {"eat", "signal1", "signal2"}
      BY <2>4 DEF CWaits
    <3>2. cpc'[Left(Left(no))] \in {"eat", "signal1", "signal2"} /\ Left(Left(no)) \in C!Philosophers
      BY <2>1, <3>1
    <3> QED
      BY <3>2 DEF C!NeverAllAsleep
  <2> QED
    BY <2>3, <2>4
<1>4. ASSUME NEW no \in C!Philosophers,
             cpc'[no] \notin {"wait1", "wait2"}
      PROVE  C!NeverAllAsleep'
  BY <1>4 DEF C!NeverAllAsleep
<1>5. ASSUME NEW no \in C!Philosophers,
             C!Create(no) \/ C!philosopher(no) \/ C!SpuriousWakeup(no),
             ~C!WaitFirst(no), ~C!WaitSecond(no)
      PROVE  cpc'[no] \notin {"wait1", "wait2"}
  BY <1>5 DEF C!Create, C!philosopher, C!Lock, C!TakeFirst, C!ResumeFirst, C!TakeSecond,
       C!ResumeSecond, C!Release, C!SignalFirst, C!SignalSecond, C!Signal,
       C!SpuriousWakeup, C!Step
<1> QED
  BY <1>1, <1>2, <1>3, <1>4, <1>5 DEF C!Next

-----------------------------------------------------------------------------
(* cond.c                                                                  *)

GInv == G!TypeOK /\ G!NoLostWakeup

LEMMA GTypes ==
  /\ Nobody \notin G!Threads /\ Gourmets \cap Chiefs = {} /\ MaxSpurious \in Nat
  /\ Gourmets \subseteq G!Threads /\ Chiefs \subseteq G!Threads
BY ThreadProgramsAssumption DEF G!Threads

LEMMA GInit == G!Init => GInv
BY GTypes DEF G!Init, GInv, G!TypeOK, G!NoLostWakeup, G!cond_gourmet, G!cond_cheif

LEMMA GNext == GInv /\ [G!Next]_gvars => GInv'
<1> SUFFICES ASSUME G!TypeOK, G!NoLostWakeup, [G!Next]_gvars PROVE GInv'
  BY DEF GInv
<1> USE GTypes
<1>1. CASE UNCHANGED gvars
  BY <1>1 DEF gvars, GInv, G!TypeOK, G!NoLostWakeup, G!cond_gourmet, G!cond_cheif, G!Coming,
              G!Signalling
<1>2. ASSUME NEW t \in G!Threads, G!Create(t), UNCHANGED gspurious PROVE GInv'
  <2>1. G!TypeOK'
    BY <1>2 DEF G!Create, G!Step, G!TypeOK
  <2>2. G!NoLostWakeup'
    BY <1>2 DEF G!Create, G!Step, G!TypeOK, G!NoLostWakeup, G!cond_gourmet, G!cond_cheif,
                G!Coming, G!Signalling
  <2> QED
    BY <2>1, <2>2 DEF GInv
<1>3. CASE G!CreateFails /\ UNCHANGED gspurious
  BY <1>3 DEF G!CreateFails, GInv, G!TypeOK, G!NoLostWakeup, G!cond_gourmet, G!cond_cheif,
              G!Coming, G!Signalling
<1>4. ASSUME NEW t \in G!Threads, G!Lock(t) \/ G!Unlock(t), UNCHANGED gspurious PROVE GInv'
  <2>1. G!TypeOK'
    BY <1>4 DEF G!Lock, G!Unlock, G!Step, G!TypeOK
  <2>2. G!NoLostWakeup'
    BY <1>4 DEF G!Lock, G!Unlock, G!Step, G!TypeOK, G!NoLostWakeup, G!cond_gourmet,
                G!cond_cheif, G!Coming, G!Signalling
  <2> QED
    BY <2>1, <2>2 DEF GInv
<1>5. ASSUME NEW g \in Gourmets, G!WaitForDish(g) \/ G!Eat(g), UNCHANGED gspurious PROVE GInv'
  <2>1. G!TypeOK'
    BY <1>5 DEF G!WaitForDish, G!Eat, G!Step, G!TypeOK
  <2>2. G!NoLostWakeup'
    BY <1>5 DEF G!WaitForDish, G!Eat, G!Step, G!TypeOK, G!NoLostWakeup, G!cond_gourmet,
                G!cond_cheif, G!Coming, G!Signalling
  <2> QED
    BY <2>1, <2>2 DEF GInv
<1>6. ASSUME NEW h \in Chiefs, G!WaitForEater(h) \/ G!Cook(h), UNCHANGED gspurious PROVE GInv'
  <2>1. G!TypeOK'
    BY <1>6 DEF G!WaitForEater, G!Cook, G!Step, G!TypeOK
  <2>2. G!NoLostWakeup'
    BY <1>6 DEF G!WaitForEater, G!Cook, G!Step, G!TypeOK, G!NoLostWakeup, G!cond_gourmet,
                G!cond_cheif, G!Coming, G!Signalling
  <2> QED
    BY <2>1, <2>2 DEF GInv
<1>7. ASSUME NEW g \in Gourmets, G!SignalCheif(g), UNCHANGED gspurious PROVE GInv'
  <2>1. PICK woken \in G!Wakeable(G!cond_cheif) : gpc' = G!AfterSignal(gpc, g, "lock", woken, "lock")
    BY <1>7 DEF G!SignalCheif
  <2>2. woken \subseteq G!cond_cheif /\ (G!cond_cheif # {} => woken # {})
    BY DEF G!Wakeable
  <2>3. gpc' = [u \in G!Threads |-> IF u = g \/ u \in woken THEN "lock" ELSE gpc[u]]
    BY <2>1 DEF G!AfterSignal, G!TypeOK
  <2>4. gpc[g] = "signal" /\ UNCHANGED <<have_delicacy, mutex, running>>
    BY <1>7 DEF G!SignalCheif
  <2>5. G!TypeOK'
    BY <1>7, <2>2, <2>3, <2>4 DEF G!TypeOK, G!cond_cheif
  <2>6. G!NoLostWakeup'
    BY <2>2, <2>3, <2>4 DEF G!NoLostWakeup, G!cond_gourmet, G!cond_cheif, G!Coming, G!Signalling
  <2> QED
    BY <2>5, <2>6 DEF GInv
<1>8. ASSUME NEW h \in Chiefs, G!SignalGourmet(h), UNCHANGED gspurious PROVE GInv'
  <2>1. PICK woken \in G!Wakeable(G!cond_gourmet) : gpc' = G!AfterSignal(gpc, h, "lock", woken, "lock")
    BY <1>8 DEF G!SignalGourmet
  <2>2. woken \subseteq G!cond_gourmet /\ (G!cond_gourmet # {} => woken # {})
    BY DEF G!Wakeable
  <2>3. gpc' = [u \in G!Threads |-> IF u = h \/ u \in woken THEN "lock" ELSE gpc[u]]
    BY <2>1 DEF G!AfterSignal, G!TypeOK
  <2>4. gpc[h] = "signal" /\ UNCHANGED <<have_delicacy, mutex, running>>
    BY <1>8 DEF G!SignalGourmet
  <2>5. G!TypeOK'
    BY <1>8, <2>2, <2>3, <2>4 DEF G!TypeOK, G!cond_gourmet
  <2>6. G!NoLostWakeup'
    BY <2>2, <2>3, <2>4 DEF G!NoLostWakeup, G!cond_gourmet, G!cond_cheif, G!Coming, G!Signalling
  <2> QED
    BY <2>5, <2>6 DEF GInv
<1>9. ASSUME NEW t \in G!Threads, G!SpuriousWakeup(t) PROVE GInv'
  <2>1. G!TypeOK'
    BY <1>9 DEF G!SpuriousWakeup, G!Step, G!TypeOK
  <2>2. G!NoLostWakeup'
    BY <1>9 DEF G!SpuriousWakeup, G!Step, G!TypeOK, G!NoLostWakeup, G!cond_gourmet,
                G!cond_cheif, G!Coming, G!Signalling
  <2> QED
    BY <2>1, <2>2 DEF GInv
<1>10. CASE G!Stopped
  BY <1>1, <1>10 DEF G!Stopped, G!vars, gvars
<1> QED
  BY <1>1, <1>2, <1>3, <1>4, <1>5, <1>6, <1>7, <1>8, <1>9, <1>10
     DEF G!Next, G!main, G!gourmet, G!chief

-----------------------------------------------------------------------------
(* threadPool.cpp                                                          *)

(* Each task that has left the queue is with one worker or done; main has  *)
(* a task left when it is about to insert one.                             *)
TOnce == \A k \in T!Numbers :
  Cardinality(T!WithWorker(k)) + runs[k] = IF k <= pushed - Len(m_queue) THEN 1 ELSE 0
TInserts == tpc[Pusher] = "insert" => pushed < Tasks
TTasks == T!OldestFirst /\ TOnce
TInv == T!TypeOK /\ TInserts /\ TTasks /\ T!NoLostWakeup

(* threadPool.cpp's counts are the counts of FiniteSets.                   *)
LEMMA TCounts == \A s : (T!IsFiniteSet(s) <=> IsFiniteSet(s)) /\ T!Cardinality(s) = Cardinality(s)
<1>1. \A s : T!IsFiniteSet(s) <=> IsFiniteSet(s)
  BY DEF T!IsFiniteSet, IsFiniteSet
<1>2. \A s : T!Cardinality(s) = Cardinality(s)
  BY DEF T!Cardinality, Cardinality
<1> QED
  BY <1>1, <1>2

LEMMA TTypes == /\ Pusher \notin Workers /\ Nobody \notin Workers \cup {Pusher}
                /\ IsFiniteSet(Workers) /\ Tasks \in Nat /\ MaxSpurious \in Nat
BY ThreadProgramsAssumption, TCounts DEF T!ThreadPoolAssumption

(* Where a task is in a queue that holds the last numbers up to m.         *)
LEMMA Waiting ==
  ASSUME NEW q \in Seq(Nat), NEW m \in Nat, NEW k \in Nat \ {0},
         \A j \in 1..Len(q) : q[j] = m - Len(q) + j
  PROVE  Cardinality({j \in 1..Len(q) : q[j] = k})
           = IF k > m - Len(q) /\ k <= m THEN 1 ELSE 0
<1>1. Len(q) \in Nat
  BY LenProperties
<1>2. CASE k > m - Len(q) /\ k <= m
  <2>1. k - m + Len(q) \in 1..Len(q) /\ q[k - m + Len(q)] = k
    BY <1>1, <1>2
  <2>2. ASSUME NEW j \in 1..Len(q), q[j] = k PROVE j = k - m + Len(q)
    <3>1. q[j] = m - Len(q) + j
      OBVIOUS
    <3>2. k = m - Len(q) + j /\ j \in Int
      BY <2>2, <3>1, <1>1
    <3> QED
      BY <1>1, <3>2
  <2>3. {j \in 1..Len(q) : q[j] = k} = {k - m + Len(q)}
    BY <2>1, <2>2
  <2> QED
    BY <1>2, <2>3, FS_Singleton
<1>3. CASE ~(k > m - Len(q) /\ k <= m)
  <2>1. {j \in 1..Len(q) : q[j] = k} = {}
    BY <1>1, <1>3
  <2> QED
    BY <1>3, <2>1, FS_EmptySet
<1> QED
  BY <1>2, <1>3

LEMMA TOnceInOnePlace == T!TypeOK /\ TTasks => T!EachTaskOnce
<1> SUFFICES ASSUME T!TypeOK, TTasks, NEW k \in T!Numbers
             PROVE  Cardinality(T!InQueue(k)) + Cardinality(T!WithWorker(k)) + runs[k]
                      = IF k <= pushed THEN 1 ELSE 0
  BY TCounts DEF T!EachTaskOnce, TTasks
<1>1. /\ m_queue \in Seq(Nat) /\ pushed \in Nat /\ k \in Nat \ {0} /\ Len(m_queue) \in Nat
      /\ runs[k] \in Nat
  BY TTypes, LenProperties DEF T!TypeOK, T!Numbers
<1>2. Cardinality(T!InQueue(k)) = IF k > pushed - Len(m_queue) /\ k <= pushed THEN 1 ELSE 0
  BY <1>1, Waiting DEF TTasks, T!OldestFirst, T!InQueue
<1>3. Cardinality(T!WithWorker(k)) \in Nat
  BY TTypes, FS_Subset, FS_CardinalityType DEF T!WithWorker
<1> QED
  BY <1>1, <1>2, <1>3 DEF TTasks, TOnce

LEMMA TInit == T!Init => TInv
<1> SUFFICES ASSUME T!Init PROVE TInv
  OBVIOUS
<1>1. m_queue = <<>> /\ Len(m_queue) = 0 /\ m_queue \in Seq(T!Numbers)
  BY EmptySeq DEF T!Init
<1>2. T!TypeOK
  BY <1>1, TTypes DEF T!Init, T!TypeOK, T!MainLabels, T!WorkerLabels, T!NoTask
<1>3. TTasks
  <2>1. \A k : T!WithWorker(k) = {}
    BY TTypes DEF T!Init, T!WithWorker
  <2>2. TOnce
    <3> SUFFICES ASSUME NEW k \in T!Numbers
                 PROVE  /\ Cardinality(T!WithWorker(k)) = 0 /\ runs[k] = 0
                        /\ ~(k <= pushed - Len(m_queue))
      BY DEF TOnce
    <3>1. Cardinality(T!WithWorker(k)) = 0
      BY <2>1, FS_EmptySet
    <3>2. runs[k] = 0 /\ ~(k <= 0)
      BY TTypes DEF T!Init, T!Numbers
    <3>3. pushed = 0 /\ Len(m_queue) = 0
      BY <1>1 DEF T!Init
    <3>4. pushed - Len(m_queue) = 0
      BY <3>3
    <3> QED
      BY <3>1, <3>2, <3>4
  <2> QED
    BY <1>1, <2>2 DEF TTasks, T!OldestFirst
<1>4. T!NoLostWakeup /\ TInserts
  BY TTypes DEF T!Init, T!NoLostWakeup, T!m_cond, TInserts
<1> QED
  BY <1>2, <1>3, <1>4 DEF TInv

LEMMA TNextTypeOK == T!TypeOK /\ TInserts /\ [T!Next]_tvars => T!TypeOK' /\ TInserts'
<1> SUFFICES ASSUME T!TypeOK, TInserts, [T!Next]_tvars PROVE T!TypeOK' /\ TInserts'
  OBVIOUS
<1> USE TTypes DEF T!TypeOK, T!MainLabels, T!WorkerLabels, T!Goto, T!Step, TInserts
<1>1. CASE UNCHANGED tvars
  BY <1>1 DEF tvars
<1>2. CASE T!CreateWorker /\ UNCHANGED tspurious
  BY <1>2 DEF T!CreateWorker
<1>3. CASE T!CreateFails /\ UNCHANGED tspurious
  BY <1>3 DEF T!CreateFails
<1>4. CASE (T!PushLock \/ T!PushUnlock) /\ UNCHANGED tspurious
  BY <1>4 DEF T!PushLock, T!PushUnlock
<1>5. CASE T!PushInsert /\ UNCHANGED tspurious
  <2>1. pushed + 1 \in T!Numbers
    BY <1>5 DEF T!PushInsert, T!Numbers
  <2>2. m_queue' \in Seq(T!Numbers)
    BY <1>5, <2>1, AppendProperties DEF T!PushInsert
  <2>3. pushed' \in 0..Tasks
    BY <1>5, <2>1 DEF T!PushInsert, T!Numbers
  <2> QED
    BY <1>5, <2>2, <2>3 DEF T!PushInsert
<1>6. CASE T!PushSignal /\ UNCHANGED tspurious
  BY <1>6 DEF T!PushSignal, T!AfterSignal, T!Wakeable, T!m_cond
<1>7. ASSUME NEW w \in Workers, T!Lock(w) \/ T!Wait(w) \/ T!Unlock(w), UNCHANGED tspurious
      PROVE  T!TypeOK' /\ TInserts'
  BY <1>7 DEF T!Lock, T!Wait, T!Unlock
<1>8. ASSUME NEW w \in Workers, T!Take(w), UNCHANGED tspurious PROVE T!TypeOK' /\ TInserts'
  <2>1. Head(m_queue) \in T!Numbers /\ m_queue' \in Seq(T!Numbers)
    BY <1>8, HeadTailProperties DEF T!Take
  <2> QED
    BY <1>8, <2>1 DEF T!Take
<1>9. ASSUME NEW w \in Workers, T!Run(w), UNCHANGED tspurious PROVE T!TypeOK' /\ TInserts'
  <2>1. \A k \in T!Numbers : runs[k] + 1 \in Nat
    OBVIOUS
  <2>2. runs' \in [T!Numbers -> Nat]
    BY <1>9, <2>1 DEF T!Run
  <2> QED
    BY <1>9, <2>2 DEF T!Run
<1>10. ASSUME NEW w \in Workers, T!SpuriousWakeup(w) PROVE T!TypeOK' /\ TInserts'
  BY <1>10 DEF T!SpuriousWakeup
<1>11. CASE T!Rest
  BY <1>1, <1>11 DEF T!Rest, T!vars, tvars
<1> QED
  BY <1>1, <1>2, <1>3, <1>4, <1>5, <1>6, <1>7, <1>8, <1>9, <1>10, <1>11
     DEF T!Next, T!main, T!PushTask, T!thr_start

(* Only PushInsert, Take and Run move a task, each one task by one place.  *)
LEMMA TNextTasks == T!TypeOK /\ TTasks /\ [T!Next]_tvars => TTasks'
<1> SUFFICES ASSUME T!TypeOK, TTasks, [T!Next]_tvars PROVE TTasks'
  OBVIOUS
<1> DEFINE Busy(w) == tpc[w] \in {"unlock", "run"}
<1>1. /\ DOMAIN tpc = Workers \cup {Pusher} /\ Pusher \notin Workers
      /\ task \in [Workers -> T!Numbers \cup {0}] /\ runs \in [T!Numbers -> Nat]
      /\ m_queue \in Seq(T!Numbers) /\ Len(m_queue) \in Nat /\ pushed \in Nat
  BY TTypes, LenProperties DEF T!TypeOK, T!NoTask
<1>2. ASSUME UNCHANGED <<m_queue, pushed, runs, task>>, \A w \in Workers : Busy(w)' <=> Busy(w)
      PROVE  TTasks'
  <2>1. \A k : T!WithWorker(k)' = T!WithWorker(k)
    BY <1>2 DEF T!WithWorker
  <2> QED
    BY <1>2, <2>1 DEF TTasks, TOnce, T!OldestFirst
<1>3. CASE UNCHANGED tvars
  BY <1>2, <1>3 DEF tvars
<1>4. CASE T!CreateWorker
  BY <1>1, <1>2, <1>4 DEF T!CreateWorker
<1>5. CASE T!CreateFails
  BY <1>2, <1>5 DEF T!CreateFails
<1>6. CASE T!PushLock \/ T!PushUnlock
  BY <1>1, <1>2, <1>6 DEF T!PushLock, T!PushUnlock, T!Step, T!Goto
<1>7. CASE T!PushInsert
  <2>1. /\ m_queue' = Append(m_queue, pushed + 1) /\ pushed' = pushed + 1
        /\ UNCHANGED <<task, runs>> /\ \A w \in Workers : tpc'[w] = tpc[w]
    BY <1>1, <1>7 DEF T!PushInsert, T!Step, T!Goto
  <2>2. /\ Len(m_queue') = Len(m_queue) + 1 /\ m_queue'[Len(m_queue) + 1] = pushed + 1
        /\ \A j \in 1..Len(m_queue) : m_queue'[j] = m_queue[j]
    BY <1>1, <2>1, AppendProperties
  <2>3. T!OldestFirst'
    BY <1>1, <2>1, <2>2 DEF TTasks, T!OldestFirst
  <2>4. pushed' - Len(m_queue') = pushed - Len(m_queue)
    BY <1>1, <2>1, <2>2
  <2>5. \A k : T!WithWorker(k)' = T!WithWorker(k)
    BY <2>1 DEF T!WithWorker
  <2> QED
    BY <2>1, <2>3, <2>4, <2>5 DEF TTasks, TOnce
<1>8. CASE T!PushSignal
  BY <1>1, <1>2, <1>8 DEF T!PushSignal, T!AfterSignal, T!Wakeable, T!m_cond
<1>9. ASSUME NEW w \in Workers, T!Lock(w) \/ T!Wait(w) \/ T!Unlock(w) \/ T!SpuriousWakeup(w)
      PROVE  TTasks'
  BY <1>1, <1>2, <1>9 DEF T!Lock, T!Wait, T!Unlock, T!SpuriousWakeup, T!Step, T!Goto
<1>10. ASSUME NEW w \in Workers, T!Take(w) PROVE TTasks'
  <2>1. /\ m_queue # <<>> /\ m_queue' = Tail(m_queue) /\ task'[w] = Head(m_queue)
        /\ UNCHANGED <<pushed, runs>> /\ tpc[w] = "test" /\ tpc'[w] = "unlock"
        /\ \A q \in Workers \ {w} : tpc'[q] = tpc[q] /\ task'[q] = task[q]
    BY <1>1, <1>10 DEF T!Take, T!Step, T!Goto
  <2>2. /\ Len(m_queue') = Len(m_queue) - 1 /\ Len(m_queue') \in Nat /\ Head(m_queue) = m_queue[1]
        /\ \A j \in 1..Len(m_queue') : m_queue'[j] = m_queue[j + 1]
    BY <1>1, <2>1, HeadTailProperties, LenProperties
  <2>3. T!OldestFirst'
    BY <1>1, <2>1, <2>2 DEF TTasks, T!OldestFirst
  <2>4. task'[w] = pushed - Len(m_queue) + 1 /\ pushed' - Len(m_queue') = pushed - Len(m_queue) + 1
    BY <1>1, <2>1, <2>2 DEF TTasks, T!OldestFirst
  <2>5. ASSUME NEW k \in T!Numbers
        PROVE  Cardinality(T!WithWorker(k)') + runs'[k]
                 = IF k <= pushed' - Len(m_queue') THEN 1 ELSE 0
    <3>1. T!WithWorker(k) \ {w} = T!WithWorker(k)' \ {w} /\ w \notin T!WithWorker(k)
          /\ (w \in T!WithWorker(k)' <=> k = task'[w])
      BY <2>1 DEF T!WithWorker
    <3>2. IsFiniteSet(T!WithWorker(k))
      BY TTypes, FS_Subset DEF T!WithWorker
    <3>3. Cardinality(T!WithWorker(k)) + runs[k] = IF k <= pushed - Len(m_queue) THEN 1 ELSE 0
      BY DEF TTasks, TOnce
    <3>4. /\ Cardinality(T!WithWorker(k)) \in Nat
          /\ Cardinality(T!WithWorker(k)') = IF k = task'[w] THEN Cardinality(T!WithWorker(k)) + 1
                                             ELSE Cardinality(T!WithWorker(k))
      BY <3>1, <3>2, Moved
    <3>5. k \in Nat /\ runs[k] \in Nat /\ runs'[k] = runs[k]
      BY <1>1, <2>1, TTypes DEF T!Numbers
    <3> QED
      BY <1>1, <2>2, <2>4, <3>3, <3>4, <3>5
  <2> QED
    BY <2>3, <2>5 DEF TTasks, TOnce
<1>11. ASSUME NEW w \in Workers, T!Run(w) PROVE TTasks'
  <2>1. /\ runs' = [runs EXCEPT ![task[w]] = @ + 1] /\ UNCHANGED <<m_queue, pushed, task>>
        /\ tpc[w] = "run" /\ tpc'[w] = "lock" /\ \A q \in Workers \ {w} : tpc'[q] = tpc[q]
    BY <1>1, <1>11 DEF T!Run, T!Step, T!Goto
  <2>2. ASSUME NEW k \in T!Numbers
        PROVE  Cardinality(T!WithWorker(k)') + runs'[k] = Cardinality(T!WithWorker(k)) + runs[k]
    <3>1. T!WithWorker(k) \ {w} = T!WithWorker(k)' \ {w} /\ w \notin T!WithWorker(k)'
          /\ (w \in T!WithWorker(k) <=> k = task[w])
      BY <2>1 DEF T!WithWorker
    <3>2. IsFiniteSet(T!WithWorker(k))
      BY TTypes, FS_Subset DEF T!WithWorker
    <3>3. /\ Cardinality(T!WithWorker(k)) \in Nat
          /\ Cardinality(T!WithWorker(k)') = IF k = task[w] THEN Cardinality(T!WithWorker(k)) - 1
                                             ELSE Cardinality(T!WithWorker(k))
      BY <3>1, <3>2, Moved
    <3>4. runs[k] \in Nat /\ runs'[k] = IF k = task[w] THEN runs[k] + 1 ELSE runs[k]
      BY <1>1, <2>1
    <3> QED
      BY <3>3, <3>4
  <2> QED
    BY <2>1, <2>2 DEF TTasks, TOnce, T!OldestFirst
<1>12. CASE T!Rest
  BY <1>3, <1>12 DEF T!Rest, T!vars, tvars
<1> QED
  BY <1>3, <1>4, <1>5, <1>6, <1>7, <1>8, <1>9, <1>10, <1>11, <1>12
     DEF T!Next, T!main, T!PushTask, T!thr_start

(* A signal that meets no sleeper leaves no sleeper; otherwise it adds a   *)
(* worker to those on their way to the test.                               *)
LEMMA TNextNoLostWakeup ==
  T!TypeOK /\ T!NoLostWakeup /\ [T!Next]_tvars => T!NoLostWakeup'
<1> SUFFICES ASSUME T!TypeOK, T!NoLostWakeup, [T!Next]_tvars PROVE T!NoLostWakeup'
  OBVIOUS
<1> DEFINE Coming == T!At({"lock", "test"})
           Due == IF tpc[Pusher] \in {"unlock", "signal"} THEN 1 ELSE 0
<1>1. /\ DOMAIN tpc = Workers \cup {Pusher} /\ Pusher \notin Workers
      /\ m_queue \in Seq(T!Numbers) /\ Len(m_queue) \in Nat
  BY TTypes, LenProperties DEF T!TypeOK
<1>2. /\ IsFiniteSet(Coming) /\ IsFiniteSet(Coming')
      /\ Cardinality(Coming) \in Nat /\ Cardinality(Coming') \in Nat
  BY TTypes, FS_Subset, FS_CardinalityType DEF T!At
<1>3. T!m_cond # {} => Len(m_queue) <= Due + Cardinality(Coming)
  BY TCounts DEF T!NoLostWakeup
<1>4. ASSUME T!m_cond' # {} => Len(m_queue') <= Due' + Cardinality(Coming')
      PROVE  T!NoLostWakeup'
  BY <1>4, TCounts DEF T!NoLostWakeup
<1> HIDE DEF Due
<1>5. ASSUME UNCHANGED m_queue, Due' = Due, T!m_cond' \subseteq T!m_cond,
             NEW w, Coming' = Coming \/ Coming' = Coming \cup {w}
      PROVE  T!NoLostWakeup'
  <2>1. Cardinality(Coming') >= Cardinality(Coming)
    BY <1>2, <1>5, FS_AddElement
  <2> QED
    BY <1>1, <1>2, <1>3, <1>4, <1>5, <2>1 DEF Due
<1>6. CASE UNCHANGED tvars
  BY <1>6, <1>5 DEF tvars, T!m_cond, T!At, Due
<1>7. CASE T!CreateWorker
  <2>1. PICK w \in Workers : /\ tpc[w] = "new" /\ tpc'[w] = "lock"
                             /\ \A q \in Workers \ {w} : tpc'[q] = tpc[q]
                             /\ tpc[Pusher] = "create" /\ tpc'[Pusher] \in {"push", "create"}
                             /\ UNCHANGED m_queue
    BY <1>1, <1>7 DEF T!CreateWorker
  <2> QED
    BY <1>5, <2>1 DEF T!m_cond, T!At, Due
<1>8. CASE T!CreateFails
  BY <1>5, <1>8 DEF T!CreateFails, T!m_cond, T!At, Due
<1>9. CASE T!PushLock \/ T!PushUnlock
  BY <1>1, <1>5, <1>9 DEF T!PushLock, T!PushUnlock, T!Step, T!Goto, T!m_cond, T!At, Due
<1>10. CASE T!PushInsert
  <2>1. /\ tpc[Pusher] = "insert" /\ tpc'[Pusher] = "unlock" /\ \A w \in Workers : tpc'[w] = tpc[w]
        /\ m_queue' = Append(m_queue, pushed + 1) /\ pushed + 1 \in Int
    BY <1>1, <1>10, TTypes DEF T!PushInsert, T!Step, T!Goto, T!TypeOK
  <2>2. Len(m_queue') = Len(m_queue) + 1
    BY <1>1, <2>1
  <2>3. Due = 0 /\ Due' = 1 /\ Coming' = Coming /\ T!m_cond' = T!m_cond
    BY <2>1 DEF Due, T!At, T!m_cond
  <2> QED
    BY <1>1, <1>2, <1>3, <1>4, <2>2, <2>3
<1>11. CASE T!PushSignal
  <2>1. PICK woken \in T!Wakeable(T!m_cond) :
          /\ tpc' = T!AfterSignal(tpc, Pusher, "push", woken, "lock")
          /\ tpc[Pusher] = "signal" /\ UNCHANGED m_queue
    BY <1>11 DEF T!PushSignal
  <2>2. woken \subseteq T!m_cond /\ (T!m_cond # {} => woken # {})
    BY DEF T!Wakeable
  <2>3. /\ tpc'[Pusher] = "push"
        /\ \A w \in Workers : tpc'[w] = IF w \in woken THEN "lock" ELSE tpc[w]
    BY <1>1, <2>1 DEF T!AfterSignal
  <2>4. /\ Due = 1 /\ Due' = 0 /\ Coming \subseteq Coming' /\ woken \subseteq Coming'
        /\ woken \cap Coming = {} /\ T!m_cond' \subseteq T!m_cond
    BY <2>1, <2>2, <2>3 DEF Due, T!At, T!m_cond
  <2>5. T!m_cond' # {} => Cardinality(Coming') >= Cardinality(Coming) + 1
    BY <1>2, <2>2, <2>4, Grown
  <2> QED
    BY <1>1, <1>2, <1>3, <1>4, <2>1, <2>4, <2>5
<1>12. ASSUME NEW w \in Workers, T!Wait(w) PROVE T!NoLostWakeup'
  <2>1. Len(m_queue') = 0
    BY <1>12, EmptySeq DEF T!Wait
  <2> QED
    BY <1>2, <1>4, <2>1 DEF Due
<1>13. ASSUME NEW w \in Workers, T!Take(w) PROVE T!NoLostWakeup'
  <2>1. /\ tpc[w] = "test" /\ tpc'[w] = "unlock" /\ tpc'[Pusher] = tpc[Pusher]
        /\ \A q \in Workers \ {w} : tpc'[q] = tpc[q]
    BY <1>1, <1>13 DEF T!Take, T!Step, T!Goto
  <2>2. Len(m_queue') = Len(m_queue) - 1
    BY <1>1, <1>13, HeadTailProperties DEF T!Take
  <2>3. /\ Due' = Due /\ T!m_cond' = T!m_cond
        /\ Coming \ {w} = Coming' \ {w} /\ w \in Coming /\ w \notin Coming'
    BY <2>1 DEF Due, T!At, T!m_cond
  <2>4. Cardinality(Coming') = Cardinality(Coming) - 1
    BY <1>2, <2>3, Moved
  <2> QED
    BY <1>1, <1>2, <1>3, <1>4, <2>2, <2>3, <2>4 DEF Due
<1>14. ASSUME NEW w \in Workers, T!Lock(w) \/ T!Unlock(w) \/ T!Run(w) \/ T!SpuriousWakeup(w)
      PROVE  T!NoLostWakeup'
  <2>1. /\ tpc[w] \in {"lock", "unlock", "run", "wait"} /\ tpc'[w] \in {"lock", "test", "run"}
        /\ (tpc[w] = "lock" => tpc'[w] = "test") /\ tpc'[Pusher] = tpc[Pusher]
        /\ \A q \in Workers \ {w} : tpc'[q] = tpc[q]
        /\ UNCHANGED m_queue
    BY <1>1, <1>14 DEF T!Lock, T!Unlock, T!Run, T!SpuriousWakeup, T!Step, T!Goto
  <2> QED
    BY <1>5, <2>1 DEF T!m_cond, T!At, Due
<1>15. CASE T!Rest
  BY <1>6, <1>15 DEF T!Rest, T!vars, tvars
<1> QED
  BY <1>6, <1>7, <1>8, <1>9, <1>10, <1>11, <1>12, <1>13, <1>14, <1>15
     DEF T!Next, T!main, T!PushTask, T!thr_start

-----------------------------------------------------------------------------
(* con_pro.cpp                                                             *)

RInv == R!TypeOK /\ R!SlotsAccountedFor

LEMMA RCounts == \A s : R!Cardinality(s) = Cardinality(s)
BY DEF R!Cardinality, Cardinality

LEMMA RTypes == /\ Producers \cap Consumers = {} /\ Producers \subseteq R!Threads
                /\ Consumers \subseteq R!Threads /\ IsFiniteSet(R!Threads)
                /\ Capacity \in Nat \ {0} /\ MaxInt \in Nat \ {0}
BY ThreadProgramsAssumption, FS_Union DEF R!Threads

LEMMA RInit == R!Init => RInv
<1> SUFFICES ASSUME R!Init PROVE RInv
  OBVIOUS
<1> USE RTypes DEF R!Init
<1>1. R!TypeOK
  BY DEF R!TypeOK, R!Labels, R!Slots
<1>2. R!At(R!Threads, R!Holding) = {} /\ R!At(R!Threads, R!CriticalSection) = {}
  BY DEF R!At, R!Holding, R!CriticalSection
<1>3. R!SlotsAccountedFor
  BY <1>2, RCounts, FS_EmptySet DEF R!SlotsAccountedFor
<1> QED
  BY <1>1, <1>3 DEF RInv

(* What each statement does to the counts: thread t alone moves on.        *)
LEMMA RNextSlots == RInv /\ [R!Next]_rvars => R!SlotsAccountedFor'
<1> SUFFICES ASSUME R!TypeOK, R!SlotsAccountedFor, [R!Next]_rvars
             PROVE  R!SlotsAccountedFor'
  BY DEF RInv
<1> DEFINE Held == R!At(R!Threads, R!Holding)
           Inside == R!At(R!Threads, R!CriticalSection)
<1> USE RTypes
<1>1. IsFiniteSet(Held) /\ IsFiniteSet(Inside)
  BY FS_Subset DEF R!At
<1>2. /\ sem_space + sem_data + Cardinality(Held) = Capacity
      /\ sem_lock + Cardinality(Inside) = 1
      /\ Cardinality(Held) \in Nat /\ Cardinality(Inside) \in Nat
      /\ sem_space \in Nat /\ sem_data \in Nat /\ sem_lock \in Nat
  BY <1>1, RCounts, FS_CardinalityType DEF R!SlotsAccountedFor, R!TypeOK
<1>3. ASSUME /\ sem_space' + sem_data' + Cardinality(Held') = Capacity
             /\ sem_lock' + Cardinality(Inside') = 1
      PROVE  R!SlotsAccountedFor'
  BY <1>3, RCounts DEF R!SlotsAccountedFor
<1>4. CASE UNCHANGED rvars \/ R!CreateFails \/ R!Stopped
  BY <1>2, <1>3, <1>4 DEF rvars, R!CreateFails, R!Stopped, R!vars, R!sems, R!At
<1>5. ASSUME NEW t \in R!Threads, NEW from, NEW to, R!Step(t, from, to)
      PROVE  /\ Held \ {t} = Held' \ {t} /\ Inside \ {t} = Inside' \ {t}
             /\ t \in Held <=> from \in R!Holding
             /\ t \in Held' <=> to \in R!Holding
             /\ t \in Inside <=> from \in R!CriticalSection
             /\ t \in Inside' <=> to \in R!CriticalSection
  BY <1>5 DEF R!Step, R!Goto, R!TypeOK, R!At
<1>6. ASSUME NEW t \in R!Threads, R!Create(t) PROVE R!SlotsAccountedFor'
  <2>1. R!Step(t, "new", "wait") /\ UNCHANGED <<sem_space, sem_data, sem_lock>>
    BY <1>6 DEF R!Create, R!sems
  <2>2. Cardinality(Held') = Cardinality(Held) /\ Cardinality(Inside') = Cardinality(Inside)
    BY <1>1, <1>5, <2>1, Moved DEF R!Holding, R!CriticalSection
  <2> QED
    BY <1>2, <1>3, <2>1, <2>2
<1>7. ASSUME NEW t \in R!Threads, R!WaitSpace(t) \/ R!WaitData(t) PROVE R!SlotsAccountedFor'
  <2>1. /\ R!Step(t, "wait", "lock") /\ sem_lock' = sem_lock
        /\ \/ sem_space' = sem_space - 1 /\ sem_data' = sem_data
           \/ sem_data' = sem_data - 1 /\ sem_space' = sem_space
    BY <1>7 DEF R!WaitSpace, R!WaitData
  <2>2. Cardinality(Held') = Cardinality(Held) + 1 /\ Cardinality(Inside') = Cardinality(Inside)
    BY <1>1, <1>5, <2>1, Moved DEF R!Holding, R!CriticalSection
  <2> QED
    BY <1>2, <1>3, <2>1, <2>2
<1>8. ASSUME NEW t \in R!Threads, R!Lock(t) PROVE R!SlotsAccountedFor'
  <2>1. /\ R!Step(t, "lock", "copy") /\ sem_lock' = sem_lock - 1
        /\ UNCHANGED <<sem_space, sem_data>>
    BY <1>8 DEF R!Lock
  <2>2. Cardinality(Held') = Cardinality(Held) /\ Cardinality(Inside') = Cardinality(Inside) + 1
    BY <1>1, <1>5, <2>1, Moved DEF R!Holding, R!CriticalSection
  <2> QED
    BY <1>2, <1>3, <2>1, <2>2
<1>9. ASSUME NEW t \in R!Threads,
             R!Write(t) \/ R!Read(t) \/ R!AdvanceWrite(t) \/ R!AdvanceRead(t)
      PROVE  R!SlotsAccountedFor'
  <2>1. /\ R!Step(t, "copy", "advance") \/ R!Step(t, "advance", "unlock")
        /\ UNCHANGED <<sem_space, sem_data, sem_lock>>
    BY <1>9 DEF R!Write, R!Read, R!AdvanceWrite, R!AdvanceRead, R!sems
  <2>2. Cardinality(Held') = Cardinality(Held) /\ Cardinality(Inside') = Cardinality(Inside)
    BY <1>1, <1>5, <2>1, Moved DEF R!Holding, R!CriticalSection
  <2> QED
    BY <1>2, <1>3, <2>1, <2>2
<1>10. ASSUME NEW t \in R!Threads, R!Unlock(t) PROVE R!SlotsAccountedFor'
  <2>1. /\ R!Step(t, "unlock", "post") /\ sem_lock' = sem_lock + 1
        /\ UNCHANGED <<sem_space, sem_data>>
    BY <1>10 DEF R!Unlock
  <2>2. Cardinality(Held') = Cardinality(Held) /\ Cardinality(Inside') = Cardinality(Inside) - 1
    BY <1>1, <1>5, <2>1, Moved DEF R!Holding, R!CriticalSection
  <2> QED
    BY <1>2, <1>3, <2>1, <2>2
<1>11. ASSUME NEW t \in R!Threads, R!PostData(t) \/ R!PostSpace(t) PROVE R!SlotsAccountedFor'
  <2>1. /\ R!Step(t, "post", "wait") /\ sem_lock' = sem_lock
        /\ \/ sem_space' = sem_space + 1 /\ sem_data' = sem_data
           \/ sem_data' = sem_data + 1 /\ sem_space' = sem_space
    BY <1>11 DEF R!PostData, R!PostSpace
  <2>2. Cardinality(Held') = Cardinality(Held) - 1 /\ Cardinality(Inside') = Cardinality(Inside)
    BY <1>1, <1>5, <2>1, Moved DEF R!Holding, R!CriticalSection
  <2> QED
    BY <1>2, <1>3, <2>1, <2>2
<1> QED
  BY <1>4, <1>6, <1>7, <1>8, <1>9, <1>10, <1>11 DEF R!Next, R!Main, R!Push, R!Pop

(* No semaphore is posted beyond its bound, as the counts do not allow it. *)
LEMMA RNextTypeOK == RInv /\ R!SlotsAccountedFor' /\ [R!Next]_rvars => R!TypeOK'
<1> SUFFICES ASSUME R!TypeOK, R!SlotsAccountedFor', [R!Next]_rvars PROVE R!TypeOK'
  BY DEF RInv
<1> USE RTypes
<1>1. sem_space \in Nat /\ sem_data \in Nat /\ sem_lock \in Nat
  BY DEF R!TypeOK
<1>2. ASSUME sem_space' \in Nat, sem_data' \in Nat, sem_lock' \in Nat
      PROVE  sem_space' \in 0..Capacity /\ sem_data' \in 0..Capacity /\ sem_lock' \in 0..1
  <2>1. /\ Cardinality(R!At(R!Threads, R!Holding)') \in Nat
        /\ Cardinality(R!At(R!Threads, R!CriticalSection)') \in Nat
    BY FS_Subset, FS_CardinalityType DEF R!At
  <2>2. /\ sem_space' + sem_data' + Cardinality(R!At(R!Threads, R!Holding)') = Capacity
        /\ sem_lock' + Cardinality(R!At(R!Threads, R!CriticalSection)') = 1
    BY RCounts DEF R!SlotsAccountedFor
  <2> QED
    BY <1>2, <2>1, <2>2
<1>3. \A t \in R!Threads : t \in Producers \/ t \in Consumers
  BY DEF R!Threads
<1>4. CASE UNCHANGED rvars \/ R!CreateFails \/ R!Stopped
  BY <1>4 DEF rvars, R!CreateFails, R!Stopped, R!vars, R!sems, R!ring, R!TypeOK
<1>5. ASSUME NEW t \in R!Threads, NEW from, NEW to \in R!Labels, R!Step(t, from, to)
      PROVE  rpc' \in [R!Threads -> R!Labels] /\ rrunning' \in BOOLEAN
  BY <1>5 DEF R!Step, R!Goto, R!TypeOK
<1>6. ASSUME NEW t \in R!Threads, R!Create(t) PROVE R!TypeOK'
  BY <1>5, <1>6 DEF R!Create, R!sems, R!ring, R!TypeOK, R!Labels
<1>7. ASSUME NEW t \in R!Threads, \/ R!WaitSpace(t) \/ R!WaitData(t) \/ R!Lock(t) \/ R!Unlock(t)
                                  \/ R!PostSpace(t)
      PROVE  R!TypeOK'
  <2>1. sem_space' \in Nat /\ sem_data' \in Nat /\ sem_lock' \in Nat
    BY <1>1, <1>7 DEF R!WaitSpace, R!WaitData, R!Lock, R!Unlock, R!PostSpace
  <2>2. UNCHANGED <<array, pos_write, pos_read, i, data>>
    BY <1>7 DEF R!WaitSpace, R!WaitData, R!Lock, R!Unlock, R!PostSpace, R!ring
  <2>3. rpc' \in [R!Threads -> R!Labels] /\ rrunning' \in BOOLEAN
    BY <1>5, <1>7 DEF R!WaitSpace, R!WaitData, R!Lock, R!Unlock, R!PostSpace, R!Labels, R!Holding,
                      R!CriticalSection
  <2> QED
    BY <1>2, <2>1, <2>2, <2>3 DEF R!TypeOK
<1>8. ASSUME NEW q \in Producers, R!Write(q) PROVE R!TypeOK'
  <2>1. R!Step(q, "copy", "advance") /\ "advance" \in R!Labels
    BY <1>8 DEF R!Write, R!Labels, R!Holding, R!CriticalSection
  <2>2. <<q, i[q]>> \in R!Items
    BY DEF R!TypeOK, R!Items
  <2>3. array' \in [R!Slots -> R!Items \cup {R!NoItem}]
    BY <1>8, <2>2 DEF R!Write, R!TypeOK
  <2> QED
    BY <1>5, <1>8, <2>1, <2>3 DEF R!Write, R!sems, R!TypeOK
<1>9. ASSUME NEW q \in Consumers, R!Read(q) PROVE R!TypeOK'
  <2>1. R!Step(q, "copy", "advance") /\ "advance" \in R!Labels
    BY <1>9 DEF R!Read, R!Labels, R!Holding, R!CriticalSection
  <2>2. data' \in [Consumers -> R!Items \cup {R!NoItem}]
    BY <1>9 DEF R!Read, R!TypeOK
  <2> QED
    BY <1>5, <1>9, <2>1, <2>2 DEF R!Read, R!sems, R!ring, R!TypeOK
<1>10. ASSUME NEW t \in R!Threads, R!AdvanceWrite(t) \/ R!AdvanceRead(t) PROVE R!TypeOK'
  <2>1. R!Step(t, "advance", "unlock") /\ "unlock" \in R!Labels
    BY <1>10 DEF R!AdvanceWrite, R!AdvanceRead, R!Labels, R!Holding, R!CriticalSection
  <2>2. pos_write + 1 \in Nat /\ pos_read + 1 \in Nat
    BY DEF R!TypeOK, R!Slots
  <2>3. (pos_write + 1) % Capacity \in R!Slots /\ (pos_read + 1) % Capacity \in R!Slots
    BY <2>2, Remainder DEF R!Slots
  <2> QED
    BY <1>5, <1>10, <2>1, <2>3 DEF R!AdvanceWrite, R!AdvanceRead, R!sems, R!TypeOK
<1>11. ASSUME NEW q \in Producers, R!PostData(q) PROVE R!TypeOK'
  <2>1. R!Step(q, "post", "wait") /\ "wait" \in R!Labels
    BY <1>11 DEF R!PostData, R!Labels
  <2>2. sem_data' \in Nat /\ sem_space' \in Nat /\ sem_lock' \in Nat
    BY <1>1, <1>11 DEF R!PostData
  <2>3. i[q] + 1 \in Nat
    BY DEF R!TypeOK
  <2>4. (i[q] + 1) % MaxInt \in 0..MaxInt-1
    BY <2>3, Remainder
  <2>5. i' \in [Producers -> 0..MaxInt-1]
    BY <1>11, <2>4 DEF R!PostData, R!TypeOK
  <2>6. UNCHANGED <<array, pos_write, pos_read, data>>
    BY <1>11 DEF R!PostData, R!ring
  <2> QED
    BY <1>2, <1>5, <2>1, <2>2, <2>5, <2>6 DEF R!TypeOK
<1> QED
  BY <1>3, <1>4, <1>6, <1>7, <1>8, <1>9, <1>10, <1>11 DEF R!Next, R!Main, R!Push, R!Pop

(* The threads that have written their slot, or are to move _pos_write;    *)
(* those that have a filled slot and are to read it, or to move _pos_read. *)
RWritten == R!At(Producers, {"advance", "unlock", "post"})
RWriting == R!At(Producers, {"advance"})
RWaited == R!At(Consumers, {"lock", "copy"})
RReading == R!At(Consumers, {"advance"})

RFilled == sem_data + Cardinality(RWritten) + Cardinality(RWaited)
RFirst == pos_read + Cardinality(RReading)
RIndex(a) == IF a < Capacity THEN a ELSE a - Capacity

(* _pos_write is one past the last filled slot, once it has been moved.    *)
RPositions == \/ pos_write + Cardinality(RWriting) = RFirst + RFilled
              \/ pos_write + Cardinality(RWriting) + Capacity = RFirst + RFilled

(* The filled slots and the one being left are no more than there are.     *)
RBound == /\ IsFiniteSet(RWritten) /\ IsFiniteSet(RWriting)
          /\ IsFiniteSet(RWaited) /\ IsFiniteSet(RReading)
          /\ Cardinality(RWritten) \in Nat /\ Cardinality(RWriting) \in Nat
          /\ Cardinality(RWaited) \in Nat /\ Cardinality(RReading) \in Nat
          /\ RFilled + Cardinality(RReading) <= Capacity
          /\ Cardinality(RWriting) + Cardinality(RReading) <= 1

(* A position that advances by one.                                        *)
LEMMA RAdvance == ASSUME NEW x \in 0..Capacity-1
                  PROVE  (x + 1) % Capacity = IF x + 1 < Capacity THEN x + 1 ELSE x + 1 - Capacity
  BY RTypes

LEMMA RInvBound == RInv => RBound
<1> SUFFICES ASSUME R!TypeOK, R!SlotsAccountedFor PROVE RBound
  BY DEF RInv
<1> USE RTypes
<1> DEFINE Held == R!At(R!Threads, R!Holding)
           Inside == R!At(R!Threads, R!CriticalSection)
<1>1. /\ RWritten \cup RWaited \cup RReading \subseteq Held
      /\ RWritten \cap RWaited = {} /\ (RWritten \cup RWaited) \cap RReading = {}
      /\ RWriting \cup RReading \subseteq Inside /\ RWriting \cap RReading = {}
  BY DEF RWritten, RWriting, RWaited, RReading, R!At, R!Holding, R!CriticalSection
<1>2. IsFiniteSet(Held) /\ IsFiniteSet(Inside)
  BY FS_Subset DEF R!At
<1>3. /\ IsFiniteSet(RWritten) /\ IsFiniteSet(RWriting)
      /\ IsFiniteSet(RWaited) /\ IsFiniteSet(RReading)
  BY <1>1, <1>2, FS_Subset
<1>4. /\ Cardinality(RWritten) \in Nat /\ Cardinality(RWriting) \in Nat
      /\ Cardinality(RWaited) \in Nat /\ Cardinality(RReading) \in Nat
      /\ Cardinality(Held) \in Nat /\ Cardinality(Inside) \in Nat
  BY <1>2, <1>3, FS_CardinalityType
<1>5. Cardinality(RWritten) + Cardinality(RWaited) + Cardinality(RReading) <= Cardinality(Held)
  <2>1. /\ IsFiniteSet(RWritten \cup RWaited)
        /\ Cardinality(RWritten \cup RWaited) = Cardinality(RWritten) + Cardinality(RWaited)
    BY <1>1, <1>3, Apart
  <2>2. Cardinality(RWritten \cup RWaited \cup RReading)
          = Cardinality(RWritten \cup RWaited) + Cardinality(RReading)
    BY <1>1, <1>3, <2>1, Apart
  <2> QED
    BY <1>1, <1>2, <2>1, <2>2, FS_Subset
<1>6. Cardinality(RWriting) + Cardinality(RReading) <= Cardinality(Inside)
  <2>1. Cardinality(RWriting \cup RReading) = Cardinality(RWriting) + Cardinality(RReading)
    BY <1>1, <1>3, Apart
  <2> QED
    BY <1>1, <1>2, <2>1, FS_Subset
<1>7. /\ sem_space + sem_data + Cardinality(Held) = Capacity
      /\ sem_lock + Cardinality(Inside) = 1
      /\ sem_space \in Nat /\ sem_data \in Nat /\ sem_lock \in Nat
  BY RCounts DEF R!SlotsAccountedFor, R!TypeOK
<1> QED
  BY <1>3, <1>4, <1>5, <1>6, <1>7 DEF RBound, RFilled

(* The contents, with the wrap around the end of the array spelled out.    *)
RContents == [k \in 1..RFilled |-> array[RIndex(RFirst + k - 1)]]

LEMMA RInvContents == RInv => R!contents = RContents
<1> SUFFICES ASSUME RInv PROVE R!contents = RContents
  OBVIOUS
<1> USE RTypes
<1>1. RBound /\ pos_read \in 0..Capacity-1 /\ sem_data \in Nat
  BY RInvBound DEF RInv, R!TypeOK, R!Slots
<1>2. R!filled = RFilled /\ R!first = RFirst
  BY RCounts DEF R!filled, R!first, RFilled, RFirst, RWritten, RWaited, RReading
<1>3. RFilled \in Nat /\ RFirst \in 0..Capacity /\ RFilled <= Capacity
  BY <1>1 DEF RBound, RFilled, RFirst
<1>4. ASSUME NEW k \in 1..RFilled PROVE (RFirst + k - 1) % Capacity = RIndex(RFirst + k - 1)
  <2>1. RFirst + k - 1 \in Nat /\ RFirst + k - 1 < Capacity + Capacity
    BY <1>3
  <2> QED
    BY <2>1, Wrap DEF RIndex
<1> QED
  BY <1>2, <1>4 DEF R!contents, RContents

(* Every step of the ring is a Put, a Take or nothing to BoundedFifo: Push *)
(* puts its item when it writes the slot, Pop takes it when it reads it.   *)
LEMMA RNextFifo ==
  /\ RInv /\ RBound /\ RBound' /\ RPositions /\ [R!Next]_rvars
  /\ R!contents = RContents /\ R!contents' = RContents'
  => RPositions' /\ [R!Fifo!Next]_(R!Fifo!vars)
<1> SUFFICES ASSUME R!TypeOK, RBound, RBound', RPositions, [R!Next]_rvars,
                    R!contents = RContents, R!contents' = RContents'
             PROVE  RPositions' /\ [R!Fifo!Next]_(R!Fifo!vars)
  BY DEF RInv
<1> USE RTypes
<1> DEFINE Goal == RPositions' /\ [R!Fifo!Next]_(R!Fifo!vars)
<1>1. /\ sem_data \in Nat /\ pos_read \in 0..Capacity-1 /\ pos_write \in 0..Capacity-1
      /\ array \in [0..Capacity-1 -> R!Items \cup {R!NoItem}] /\ i \in [Producers -> 0..MaxInt-1]
      /\ data \in [Consumers -> R!Items \cup {R!NoItem}] /\ rpc \in [R!Threads -> R!Labels]
  BY DEF R!TypeOK, R!Slots
<1>b. /\ Cardinality(RWritten) \in Nat /\ Cardinality(RWriting) \in Nat
      /\ Cardinality(RWaited) \in Nat /\ Cardinality(RReading) \in Nat
      /\ RFilled + Cardinality(RReading) <= Capacity
      /\ Cardinality(RWriting) + Cardinality(RReading) <= 1
      /\ RFilled' + Cardinality(RReading') <= Capacity
      /\ Cardinality(RWriting') + Cardinality(RReading') <= 1
  BY DEF RBound
<1>c. RFilled \in 0..Capacity /\ RFirst \in 0..Capacity
  BY <1>1, <1>b DEF RFilled, RFirst
<1>2. ASSUME UNCHANGED <<array, data, R!pushed>>, RPositions', RFilled' = RFilled,
             RFirst' = RFirst \/ (RFirst = Capacity /\ RFirst' = 0)
      PROVE  Goal
  <2>1. ASSUME NEW k \in 1..RFilled PROVE RIndex(RFirst' + k - 1) = RIndex(RFirst + k - 1)
    BY <1>1, <1>c, <1>2 DEF RIndex
  <2>2. RContents' = RContents
    BY <1>2, <2>1 DEF RContents, RIndex
  <2> QED
    BY <1>2, <2>2 DEF R!Fifo!vars
<1>3. ASSUME UNCHANGED <<array, data, pos_read, pos_write, sem_data, RWritten, RWriting, RWaited,
                         RReading, R!pushed>>
      PROVE  Goal
  BY <1>2, <1>3 DEF RPositions, RFilled, RFirst
<1>4. CASE UNCHANGED rvars \/ R!CreateFails \/ R!Stopped
  BY <1>3, <1>4 DEF rvars, R!CreateFails, R!Stopped, R!vars, R!ring, R!sems, R!At, R!pushed,
                    RWritten, RWriting, RWaited, RReading
<1>5. ASSUME NEW t \in R!Threads,
             \/ R!Create(t) \/ R!Lock(t) \/ R!Unlock(t)
             \/ t \in Producers /\ R!WaitSpace(t)
             \/ t \in Consumers /\ R!PostSpace(t)
      PROVE  Goal
  <2>1. UNCHANGED <<array, data, pos_read, pos_write, sem_data, i>>
    BY <1>5 DEF R!Create, R!WaitSpace, R!Lock, R!Unlock, R!PostSpace, R!ring, R!sems
  <2>2. /\ t \in Producers \/ t \in Consumers
        /\ \A q \in R!Threads \ {t} : rpc'[q] = rpc[q]
        /\ \/ rpc[t] = "new" /\ rpc'[t] = "wait"
           \/ rpc[t] = "wait" /\ rpc'[t] = "lock" /\ t \in Producers
           \/ rpc[t] = "lock" /\ rpc'[t] = "copy"
           \/ rpc[t] = "unlock" /\ rpc'[t] = "post"
           \/ rpc[t] = "post" /\ rpc'[t] = "wait" /\ t \in Consumers
    BY <1>1, <1>5 DEF R!Create, R!WaitSpace, R!Lock, R!Unlock, R!PostSpace, R!Step, R!Goto, R!Threads
  <2>3. UNCHANGED <<RWritten, RWriting, RWaited, RReading>>
    BY <2>2 DEF R!At, RWritten, RWriting, RWaited, RReading
  <2>4. UNCHANGED R!pushed
    BY <2>1, <2>2 DEF R!pushed
  <2> QED
    BY <1>3, <2>1, <2>3, <2>4
<1>6. ASSUME NEW q \in Consumers, R!WaitData(q) PROVE Goal
  <2>1. /\ UNCHANGED <<array, data, pos_read, pos_write, i>> /\ sem_data' = sem_data - 1
        /\ rpc[q] = "wait" /\ rpc'[q] = "lock" /\ \A t \in R!Threads \ {q} : rpc'[t] = rpc[t]
    BY <1>1, <1>6 DEF R!WaitData, R!ring, R!Step, R!Goto
  <2>2. /\ UNCHANGED <<RWritten, RWriting, RReading>>
        /\ RWaited \ {q} = RWaited' \ {q} /\ q \in RWaited' /\ q \notin RWaited
    BY <2>1 DEF R!At, RWritten, RWriting, RWaited, RReading
  <2>3. Cardinality(RWaited') = Cardinality(RWaited) + 1
    BY <2>2, Moved DEF RBound
  <2>4. UNCHANGED R!pushed
    BY <2>1 DEF R!pushed
  <2>5. RFilled' = RFilled /\ RFirst' = RFirst
    BY <1>1, <1>b, <2>1, <2>2, <2>3 DEF RFilled, RFirst
  <2>6. RPositions'
    BY <2>1, <2>2, <2>5 DEF RPositions
  <2> QED
    BY <1>2, <2>1, <2>4, <2>5, <2>6
<1>7. ASSUME NEW q \in Producers, R!Write(q) PROVE Goal
  <2>1. /\ UNCHANGED <<data, pos_read, pos_write, i, sem_data>>
        /\ array' = [array EXCEPT ![pos_write] = <<q, i[q]>>]
        /\ rpc[q] = "copy" /\ rpc'[q] = "advance" /\ \A t \in R!Threads \ {q} : rpc'[t] = rpc[t]
    BY <1>1, <1>7 DEF R!Write, R!sems, R!Step, R!Goto
  <2>2. /\ UNCHANGED <<RWaited, RReading>>
        /\ RWritten \ {q} = RWritten' \ {q} /\ q \in RWritten' /\ q \notin RWritten
        /\ RWriting \ {q} = RWriting' \ {q} /\ q \in RWriting' /\ q \notin RWriting
    BY <2>1 DEF R!At, RWritten, RWriting, RWaited, RReading
  <2>3. /\ Cardinality(RWritten') = Cardinality(RWritten) + 1
        /\ Cardinality(RWriting') = Cardinality(RWriting) + 1
    BY <2>2, Moved DEF RBound
  <2>4. /\ Cardinality(RReading) = 0 /\ Cardinality(RWriting) = 0
        /\ RFirst = pos_read /\ RFirst' = RFirst /\ RFilled' = RFilled + 1 /\ RFilled' <= Capacity
    <3>1. Cardinality(RReading) = 0 /\ Cardinality(RWriting) = 0
      BY <1>b, <2>2, <2>3
    <3>2. RFirst = pos_read /\ RFirst' = RFirst /\ RFilled' = RFilled + 1
      BY <1>1, <1>b, <2>1, <2>2, <2>3, <3>1 DEF RFilled, RFirst
    <3> QED
      BY <1>b, <1>c, <2>2, <3>1, <3>2
  <2>5. /\ RIndex(RFirst + RFilled) = pos_write
        /\ \A k \in 1..RFilled : RIndex(RFirst + k - 1) \in (0..Capacity-1) \ {pos_write}
    BY <1>1, <1>c, <2>4 DEF RPositions, RIndex
  <2>6. RPositions'
    <3>1. Cardinality(RWriting') = 1 /\ pos_write' = pos_write
      BY <2>1, <2>3, <2>4
    <3> QED
      BY <1>1, <1>c, <2>4, <3>1 DEF RPositions
  <2>7. /\ R!pushed[q] = i[q] /\ R!pushed' = [R!pushed EXCEPT ![q] = (@ + 1) % MaxInt]
    BY <2>1 DEF R!pushed
  <2>8. <<q, i[q]>> \in R!Items
    BY <1>1 DEF R!Items
  <2>9. /\ RContents' = Append(RContents, <<q, i[q]>>) /\ Len(RContents) = RFilled
    <3>1. RContents \in [1..RFilled -> R!Items \cup {R!NoItem}]
      BY <1>1, <1>c, <2>5 DEF RContents
    <3>2. /\ DOMAIN RContents' = 1..RFilled + 1 /\ RContents'[RFilled + 1] = <<q, i[q]>>
      <4>1. RFilled + 1 \in 1..RFilled' /\ RFirst' + (RFilled + 1) - 1 = RFirst + RFilled
        BY <1>1, <1>c, <2>4
      <4> QED
        BY <1>1, <2>1, <2>4, <2>5, <4>1 DEF RContents, RIndex
    <3>3. \A k \in 1..RFilled : RContents'[k] = RContents[k]
      BY <1>1, <1>c, <2>1, <2>4, <2>5 DEF RContents, RIndex
    <3>4. RContents' \in [1..RFilled + 1 -> R!Items \cup {R!NoItem}]
      <4>1. RContents' = [k \in DOMAIN RContents' |-> RContents'[k]]
        BY DEF RContents
      <4>2. ASSUME NEW k \in 1..RFilled + 1 PROVE RContents'[k] \in R!Items \cup {R!NoItem}
        <5>1. k \in 1..RFilled \/ k = RFilled + 1
          BY <1>c
        <5> QED
          BY <2>8, <3>1, <3>2, <3>3, <5>1
      <4> QED
        BY <3>2, <4>1, <4>2
    <3> QED
      BY <1>c, <2>8, <3>1, <3>2, <3>3, <3>4, Appended
  <2>10. R!Fifo!Put(q)
    BY <1>1, <1>c, <2>1, <2>4, <2>7, <2>9 DEF R!Fifo!Put
  <2> QED
    BY <2>6, <2>10 DEF R!Fifo!Next
<1>8. ASSUME NEW q \in Consumers, R!Read(q) PROVE Goal
  <2>1. /\ UNCHANGED <<array, pos_read, pos_write, i, sem_data>>
        /\ data' = [data EXCEPT ![q] = array[pos_read]]
        /\ rpc[q] = "copy" /\ rpc'[q] = "advance" /\ \A t \in R!Threads \ {q} : rpc'[t] = rpc[t]
    BY <1>1, <1>8 DEF R!Read, R!ring, R!sems, R!Step, R!Goto
  <2>2. /\ UNCHANGED <<RWritten, RWriting>>
        /\ RWaited \ {q} = RWaited' \ {q} /\ q \notin RWaited' /\ q \in RWaited
        /\ RReading \ {q} = RReading' \ {q} /\ q \in RReading' /\ q \notin RReading
    BY <2>1 DEF R!At, RWritten, RWriting, RWaited, RReading
  <2>3. /\ Cardinality(RWaited') = Cardinality(RWaited) - 1
        /\ Cardinality(RReading') = Cardinality(RReading) + 1
    BY <2>2, Moved DEF RBound
  <2>4. Cardinality(RReading) = 0 /\ Cardinality(RWaited') \in Nat
    BY <1>b, <2>3, RTypes DEF RBound
  <2>5. RFirst = pos_read /\ RFirst' = RFirst + 1 /\ RFilled' = RFilled - 1 /\ RFilled' \in Nat
    BY <1>1, <1>b, <2>1, <2>2, <2>3, <2>4 DEF RFilled, RFirst
  <2>6. RPositions'
    BY <1>1, <1>c, <2>1, <2>2, <2>5 DEF RPositions
  <2>7. UNCHANGED R!pushed
    BY <2>1 DEF R!pushed
  <2>8. /\ RContents # <<>> /\ Head(RContents) = array[pos_read] /\ RContents' = Tail(RContents)
    <3>1. RFilled \in Nat \ {0}
      BY <1>c, <2>5
    <3>2. \A k \in 1..RFilled : RIndex(RFirst + k - 1) \in 0..Capacity-1
      BY <1>1, <1>c, <2>5 DEF RIndex
    <3>3. RContents \in [1..RFilled -> R!Items \cup {R!NoItem}]
      BY <1>1, <3>2 DEF RContents
    <3>4. \A k \in 1..RFilled - 1 : RFirst' + k - 1 = RFirst + (k + 1) - 1
      BY <1>c, <2>5
    <3>5. /\ RContents' = [k \in 1..RFilled - 1 |-> array[RIndex(RFirst + (k + 1) - 1)]]
          /\ \A k \in 1..RFilled - 1 : k + 1 \in 1..RFilled
      BY <1>c, <2>1, <2>5, <3>4 DEF RContents, RIndex
    <3>6. /\ RContents' \in [1..RFilled - 1 -> R!Items \cup {R!NoItem}]
          /\ \A k \in 1..RFilled - 1 : RContents'[k] = RContents[k + 1]
      BY <3>3, <3>5 DEF RContents
    <3>7. RContents[1] = array[pos_read]
      BY <1>1, <1>c, <2>5, <3>1 DEF RContents, RIndex
    <3> QED
      BY <3>1, <3>3, <3>6, <3>7, HeadTaken
  <2>9. R!Fifo!Take(q)
    BY <2>1, <2>7, <2>8 DEF R!Fifo!Take
  <2> QED
    BY <2>6, <2>9 DEF R!Fifo!Next
<1>9. ASSUME NEW q \in Producers, R!AdvanceWrite(q) PROVE Goal
  <2>1. /\ UNCHANGED <<array, data, pos_read, i, sem_data>>
        /\ pos_write' = (pos_write + 1) % Capacity
        /\ rpc[q] = "advance" /\ rpc'[q] = "unlock" /\ \A t \in R!Threads \ {q} : rpc'[t] = rpc[t]
    BY <1>1, <1>9 DEF R!AdvanceWrite, R!sems, R!Step, R!Goto
  <2>2. /\ UNCHANGED <<RWritten, RWaited, RReading>>
        /\ RWriting \ {q} = RWriting' \ {q} /\ q \notin RWriting' /\ q \in RWriting
    BY <2>1 DEF R!At, RWritten, RWriting, RWaited, RReading
  <2>3. Cardinality(RWriting') = Cardinality(RWriting) - 1 /\ Cardinality(RWriting') \in Nat
    BY <2>2, Moved DEF RBound
  <2>4. /\ Cardinality(RWriting) = 1 /\ Cardinality(RWriting') = 0 /\ Cardinality(RReading) = 0
        /\ RFirst' = RFirst /\ RFirst = pos_read /\ RFilled' = RFilled
    <3>1. Cardinality(RWriting) = 1 /\ Cardinality(RWriting') = 0 /\ Cardinality(RReading) = 0
      BY <1>b, <2>3
    <3> QED
      BY <1>1, <1>b, <2>1, <2>2, <3>1 DEF RFilled, RFirst
  <2>5. pos_write' = IF pos_write + 1 < Capacity THEN pos_write + 1 ELSE pos_write + 1 - Capacity
    <3>1. pos_write \in 0..Capacity-1
      BY <1>1
    <3>2. (pos_write + 1) % Capacity
            = IF pos_write + 1 < Capacity THEN pos_write + 1 ELSE pos_write + 1 - Capacity
      BY <3>1, RAdvance
    <3> QED
      BY <2>1, <3>2
  <2>6. RPositions'
    BY <1>1, <1>c, <2>4, <2>5 DEF RPositions
  <2>7. UNCHANGED R!pushed
    BY <2>1 DEF R!pushed
  <2> QED
    BY <1>2, <2>1, <2>4, <2>6, <2>7
<1>10. ASSUME NEW q \in Consumers, R!AdvanceRead(q) PROVE Goal
  <2>1. /\ UNCHANGED <<array, data, pos_write, i, sem_data>>
        /\ pos_read' = (pos_read + 1) % Capacity
        /\ rpc[q] = "advance" /\ rpc'[q] = "unlock" /\ \A t \in R!Threads \ {q} : rpc'[t] = rpc[t]
    BY <1>1, <1>10 DEF R!AdvanceRead, R!sems, R!Step, R!Goto
  <2>2. /\ UNCHANGED <<RWritten, RWaited, RWriting>>
        /\ RReading \ {q} = RReading' \ {q} /\ q \notin RReading' /\ q \in RReading
    BY <2>1 DEF R!At, RWritten, RWriting, RWaited, RReading
  <2>3. Cardinality(RReading') = Cardinality(RReading) - 1 /\ Cardinality(RReading') \in Nat
    BY <2>2, Moved DEF RBound
  <2>4. pos_read' = IF pos_read + 1 < Capacity THEN pos_read + 1 ELSE pos_read + 1 - Capacity
    <3>1. pos_read \in 0..Capacity-1
      BY <1>1
    <3>2. (pos_read + 1) % Capacity
            = IF pos_read + 1 < Capacity THEN pos_read + 1 ELSE pos_read + 1 - Capacity
      BY <3>1, RAdvance
    <3> QED
      BY <2>1, <3>2
  <2>5. /\ Cardinality(RReading) = 1 /\ Cardinality(RReading') = 0 /\ Cardinality(RWriting) = 0
        /\ RFirst = pos_read + 1 /\ RFirst' = pos_read' /\ RFilled' = RFilled
    <3>1. Cardinality(RReading) = 1 /\ Cardinality(RReading') = 0 /\ Cardinality(RWriting) = 0
      BY <1>b, <2>3
    <3>2. pos_read' \in Nat
      BY <1>1, <2>4
    <3> QED
      BY <1>1, <1>b, <2>1, <2>2, <3>1, <3>2 DEF RFilled, RFirst
  <2>6. RPositions'
    BY <1>1, <1>b, <1>c, <2>1, <2>2, <2>4, <2>5 DEF RPositions
  <2>7. UNCHANGED R!pushed
    BY <2>1 DEF R!pushed
  <2>8. RFirst' = RFirst \/ (RFirst = Capacity /\ RFirst' = 0)
    BY <1>1, <2>4, <2>5
  <2> QED
    BY <1>2, <2>1, <2>5, <2>6, <2>7, <2>8
<1>11. ASSUME NEW q \in Producers, R!PostData(q) PROVE Goal
  <2>1. /\ UNCHANGED <<array, data, pos_read, pos_write>>
        /\ sem_data' = sem_data + 1 /\ i' = [i EXCEPT ![q] = (@ + 1) % MaxInt]
        /\ rpc[q] = "post" /\ rpc'[q] = "wait" /\ \A t \in R!Threads \ {q} : rpc'[t] = rpc[t]
    BY <1>1, <1>11 DEF R!PostData, R!ring, R!Step, R!Goto
  <2>2. /\ UNCHANGED <<RWriting, RWaited, RReading>>
        /\ RWritten \ {q} = RWritten' \ {q} /\ q \notin RWritten' /\ q \in RWritten
    BY <2>1 DEF R!At, RWritten, RWriting, RWaited, RReading
  <2>3. Cardinality(RWritten') = Cardinality(RWritten) - 1
    BY <2>2, Moved DEF RBound
  <2>4. UNCHANGED R!pushed
    BY <1>1, <2>1 DEF R!pushed
  <2>5. RFilled' = RFilled /\ RFirst' = RFirst
    BY <1>1, <1>b, <2>1, <2>2, <2>3 DEF RFilled, RFirst
  <2>6. RPositions'
    BY <2>1, <2>2, <2>5 DEF RPositions
  <2> QED
    BY <1>2, <2>1, <2>4, <2>5, <2>6
<1>12. ASSUME NEW q \in Producers, R!Push(q) PROVE Goal
  BY <1>5, <1>7, <1>9, <1>11, <1>12 DEF R!Push
<1>13. ASSUME NEW q \in Consumers, R!Pop(q) PROVE Goal
  BY <1>5, <1>6, <1>8, <1>10, <1>13 DEF R!Pop
<1>14. CASE R!Main
  <2>1. CASE R!CreateFails
    BY <1>4, <2>1
  <2>2. CASE \E t \in R!Threads : R!Create(t)
    BY <1>5, <2>2
  <2> QED
    BY <1>14, <2>1, <2>2 DEF R!Main
<1> QED
  BY <1>4, <1>12, <1>13, <1>14 DEF R!Next

LEMMA RFifoInit == R!Init => RPositions /\ R!Fifo!Init
<1> SUFFICES ASSUME R!Init PROVE RPositions /\ R!Fifo!Init
  OBVIOUS
<1> USE RTypes DEF R!Init
<1>1. RWritten = {} /\ RWriting = {} /\ RWaited = {} /\ RReading = {}
  BY DEF R!At, RWritten, RWriting, RWaited, RReading
<1>2. RFilled = 0 /\ RFirst = 0 /\ Cardinality(RWriting) = 0
  BY <1>1, FS_EmptySet DEF RFilled, RFirst
<1>3. R!contents = <<>>
  <2>1. R!filled = 0
    BY <1>1, RCounts, FS_EmptySet DEF R!filled, RWritten, RWaited
  <2> QED
    BY <2>1 DEF R!contents
<1>4. R!pushed = [q \in Producers |-> 0]
  BY DEF R!pushed
<1> QED
  BY <1>2, <1>3, <1>4 DEF RPositions, R!Fifo!Init, R!NoItem, R!Fifo!NoItem

-----------------------------------------------------------------------------
(* pth_sem.c, sem_test.c                                                   *)

(* A unit of either semaphore is free, or held by the thread that took it. *)
SCount == blank + full + (IF spc[Producer] = "write" \/ S!Posting THEN 1 ELSE 0)
                       + (IF spc[Consumer] \in {"read", "zero", "post"} THEN 1 ELSE 0) = NUM

(* The slot after the last one written is as far from the next one to read *)
(* as there are items, around the end of the array.                        *)
SIndex(a) == IF a < NUM THEN a ELSE a - NUM
SWritten == IF spc[Producer] \in {"print", "post", "advance"} THEN p + 1 ELSE p
SPositions == SIndex(SWritten) = SIndex(SIndex(S!first) + S!filled)

(* Until it is posted the item is in its slot; in sem_test.c it is gone    *)
(* then, or still there, when the producer looks.                          *)
SLast == <<Producer, (sn + MaxData - 1) % MaxData>>
SReport == /\ S!Posting => queue[p] = SLast
           /\ spc[Producer] = "print" => \/ queue[p] = SLast
                                         \/ program # "pth_sem.c" /\ queue[p] = S!Zero

SInv == /\ S!TypeOK /\ DOMAIN spc = {Producer, Consumer}
        /\ SCount /\ SPositions /\ SReport

LEMMA STypes == NUM \in Nat \ {0} /\ MaxData \in Nat \ {0} /\ Producer # Consumer
BY ThreadProgramsAssumption

LEMMA SInit == S!Init => SInv /\ S!Fifo!Init
<1> SUFFICES ASSUME S!Init PROVE SInv /\ S!Fifo!Init
  OBVIOUS
<1> USE STypes DEF S!Init
<1>1. S!TypeOK /\ DOMAIN spc = {Producer, Consumer}
  BY DEF S!TypeOK, S!Slots
<1>2. ~S!Posting /\ S!filled = 0 /\ S!first = 0
  BY DEF S!Posting, S!filled, S!first
<1>3. SCount /\ SPositions /\ SReport
  BY <1>2 DEF SCount, SPositions, SReport, SWritten, SIndex
<1>4. S!contents = <<>>
  BY <1>2 DEF S!contents
<1> QED
  BY <1>1, <1>3, <1>4 DEF SInv, S!Fifo!Init, S!Fifo!NoItem, S!Zero

(* The counts bound what is in the ring.                                   *)
LEMMA SBounds ==
  SInv => /\ blank \in Nat /\ full \in Nat /\ p \in 0..NUM-1 /\ c \in 0..NUM-1
          /\ queue \in [0..NUM-1 -> S!Items \cup {S!Zero}] /\ sn \in 0..MaxData-1
          /\ S!filled \in 0..NUM /\ S!first \in 0..NUM
          /\ spc[Producer] = "write" => S!filled < NUM
          /\ spc[Consumer] \in {"zero", "post"} => S!filled < NUM
          /\ spc[Producer] = "write" /\ spc[Consumer] \in {"zero", "post"} => S!filled < NUM - 1
<1> SUFFICES ASSUME SInv
             PROVE  /\ blank \in Nat /\ full \in Nat /\ p \in 0..NUM-1 /\ c \in 0..NUM-1
                    /\ queue \in [0..NUM-1 -> S!Items \cup {S!Zero}] /\ sn \in 0..MaxData-1
                    /\ S!filled \in 0..NUM /\ S!first \in 0..NUM
                    /\ spc[Producer] = "write" => S!filled < NUM
                    /\ spc[Consumer] \in {"zero", "post"} => S!filled < NUM
                    /\ spc[Producer] = "write" /\ spc[Consumer] \in {"zero", "post"}
                         => S!filled < NUM - 1
  OBVIOUS
<1>1. /\ blank \in Nat /\ full \in Nat /\ p \in 0..NUM-1 /\ c \in 0..NUM-1
      /\ queue \in [0..NUM-1 -> S!Items \cup {S!Zero}] /\ sn \in 0..MaxData-1
  BY STypes DEF SInv, S!TypeOK, S!Slots
<1> QED
  BY <1>1, STypes DEF SInv, SCount, S!filled, S!first, S!Posting

(* While the producer has a slot that it has not posted and the consumer   *)
(* one whose place it has not given back, these are two slots.             *)
LEMMA SApart ==
  SInv => /\ S!SlotsApart
          /\ (spc[Producer] = "write" \/ S!Posting) /\ spc[Consumer] \in {"read", "zero"} => p # c
<1> SUFFICES ASSUME SInv, spc[Producer] = "write" \/ S!Posting, spc[Consumer] \in {"read", "zero"}
             PROVE  p # c
  BY DEF S!SlotsApart, S!Posting
<1>1. /\ blank \in Nat /\ full \in Nat /\ p \in 0..NUM-1 /\ c \in 0..NUM-1 /\ NUM \in Nat
      /\ full <= NUM - 2
  BY SBounds, STypes DEF SInv, SCount
<1>2. CASE spc[Consumer] = "read"
  <2>1. S!first = c
    BY <1>2 DEF S!first
  <2>2. CASE spc[Producer] = "write"
    BY <1>1, <1>2, <2>1, <2>2
       DEF SInv, SPositions, SWritten, SIndex, S!filled, S!Posting
  <2>3. CASE S!Posting
    BY <1>1, <1>2, <2>1, <2>3
       DEF SInv, SPositions, SWritten, SIndex, S!filled, S!Posting
  <2> QED
    BY <2>2, <2>3
<1>3. CASE spc[Consumer] = "zero"
  <2>1. S!first = c + 1
    BY <1>3 DEF S!first
  <2>2. CASE spc[Producer] = "write"
    BY <1>1, <1>3, <2>1, <2>2
       DEF SInv, SPositions, SWritten, SIndex, S!filled, S!Posting
  <2>3. CASE S!Posting
    BY <1>1, <1>3, <2>1, <2>3
       DEF SInv, SPositions, SWritten, SIndex, S!filled, S!Posting
  <2> QED
    BY <2>2, <2>3
<1> QED
  BY <1>2, <1>3

(* Each statement moves one thread on and keeps the counts.                *)
LEMMA SNextCount ==
  SInv /\ [S!Next]_svars /\ program' = program
  => S!TypeOK' /\ DOMAIN spc' = {Producer, Consumer} /\ SCount'
<1> SUFFICES ASSUME SInv, [S!Next]_svars, program' = program
             PROVE  S!TypeOK' /\ DOMAIN spc' = {Producer, Consumer} /\ SCount'
  OBVIOUS
<1> USE STypes
<1>1. /\ blank \in Nat /\ full \in Nat /\ p \in 0..NUM-1 /\ c \in 0..NUM-1
      /\ queue \in [0..NUM-1 -> S!Items \cup {S!Zero}] /\ sn \in 0..MaxData-1
  BY SBounds
<1>2. /\ (p + 1) % NUM \in 0..NUM-1 /\ (c + 1) % NUM \in 0..NUM-1
      /\ (sn + 1) % MaxData \in 0..MaxData-1 /\ <<Producer, sn>> \in S!Items
  BY <1>1 DEF S!Items
<1>3. /\ S!TypeOK /\ DOMAIN spc = {Producer, Consumer} /\ SCount
      /\ printed \in S!Items \cup {S!Zero} /\ sconsumed \in S!Items \cup {S!Zero}
  BY DEF SInv, S!TypeOK
<1>s. ASSUME NEW t \in {Producer, Consumer}, NEW q, NEW k, S!Step(t, q, k)
      PROVE  /\ spc[t] = q /\ spc'[t] = k /\ DOMAIN spc' = {Producer, Consumer}
             /\ \A u \in {Producer, Consumer} \ {t} : spc'[u] = spc[u]
  BY <1>3, <1>s DEF S!Step
(* The counts.                                                             *)
<1>4. SCount' /\ DOMAIN spc' = {Producer, Consumer} /\ blank' \in Nat /\ full' \in Nat
  <2>1. CASE UNCHANGED svars
    BY <1>1, <1>3, <2>1 DEF svars, SCount, S!Posting
  <2>2. CASE S!WaitBlank
    <3>1. spc[Producer] = "wait" /\ spc'[Producer] = "write" /\ spc'[Consumer] = spc[Consumer]
          /\ DOMAIN spc' = {Producer, Consumer}
      BY <1>s, <2>2 DEF S!WaitBlank
    <3> QED
      BY <1>1, <1>3, <2>2, <3>1 DEF S!WaitBlank, SCount, S!Posting
  <2>3. CASE S!Write
    <3>1. spc[Producer] = "write" /\ spc'[Producer] = (IF program = "pth_sem.c" THEN "print" ELSE "post")
          /\ spc'[Consumer] = spc[Consumer] /\ DOMAIN spc' = {Producer, Consumer}
      BY <1>s, <2>3 DEF S!Write
    <3> QED
      BY <1>1, <1>3, <2>3, <3>1 DEF S!Write, SCount, S!Posting
  <2>4. CASE S!PrintSlot
    <3>1. spc[Producer] = "print"
          /\ spc'[Producer] = (IF program = "pth_sem.c" THEN "post" ELSE "advance")
          /\ spc'[Consumer] = spc[Consumer] /\ DOMAIN spc' = {Producer, Consumer}
      BY <1>s, <2>4 DEF S!PrintSlot
    <3> QED
      BY <1>1, <1>3, <2>4, <3>1 DEF S!PrintSlot, SCount, S!Posting
  <2>5. CASE S!PostFull
    <3>1. spc[Producer] = "post"
          /\ spc'[Producer] = (IF program = "pth_sem.c" THEN "advance" ELSE "print")
          /\ spc'[Consumer] = spc[Consumer] /\ DOMAIN spc' = {Producer, Consumer}
      BY <1>s, <2>5 DEF S!PostFull
    <3> QED
      BY <1>1, <1>3, <2>5, <3>1 DEF S!PostFull, SCount, S!Posting
  <2>6. CASE S!Advance
    <3>1. spc[Producer] = "advance" /\ spc'[Producer] = "wait"
          /\ spc'[Consumer] = spc[Consumer] /\ DOMAIN spc' = {Producer, Consumer}
      BY <1>s, <2>6 DEF S!Advance
    <3> QED
      BY <1>1, <1>3, <2>6, <3>1 DEF S!Advance, SCount, S!Posting
  <2>7. CASE S!WaitFull
    <3>1. spc[Consumer] = "wait" /\ spc'[Consumer] = "read"
          /\ spc'[Producer] = spc[Producer] /\ DOMAIN spc' = {Producer, Consumer}
      BY <1>s, <2>7 DEF S!WaitFull
    <3> QED
      BY <1>1, <1>3, <2>7, <3>1 DEF S!WaitFull, SCount, S!Posting
  <2>8. CASE S!Read \/ S!ZeroSlot
    <3>1. spc[Consumer] \in {"read", "zero"} /\ spc'[Consumer] \in {"zero", "post"}
          /\ spc'[Producer] = spc[Producer] /\ DOMAIN spc' = {Producer, Consumer}
      BY <1>s, <2>8 DEF S!Read, S!ZeroSlot
    <3> QED
      BY <1>1, <1>3, <2>8, <3>1 DEF S!Read, S!ZeroSlot, SCount, S!Posting
  <2>9. CASE S!PostBlank
    <3>1. spc[Consumer] = "post" /\ spc'[Consumer] = "advance"
          /\ spc'[Producer] = spc[Producer] /\ DOMAIN spc' = {Producer, Consumer}
      BY <1>s, <2>9 DEF S!PostBlank
    <3> QED
      BY <1>1, <1>3, <2>9, <3>1 DEF S!PostBlank, SCount, S!Posting
  <2>10. CASE S!AdvanceC
    <3>1. spc[Consumer] = "advance" /\ spc'[Consumer] = "wait"
          /\ spc'[Producer] = spc[Producer] /\ DOMAIN spc' = {Producer, Consumer}
      BY <1>s, <2>10 DEF S!AdvanceC
    <3> QED
      BY <1>1, <1>3, <2>10, <3>1 DEF S!AdvanceC, SCount, S!Posting
  <2> QED
    BY <2>1, <2>2, <2>3, <2>4, <2>5, <2>6, <2>7, <2>8, <2>9, <2>10
       DEF S!Next, S!producer, S!consumer
(* The rest.                                                               *)
<1>5. blank' \in 0..NUM /\ full' \in 0..NUM
  <2> DEFINE Made == IF spc[Producer] = "write" \/ S!Posting THEN 1 ELSE 0
             Had == IF spc[Consumer] \in {"read", "zero", "post"} THEN 1 ELSE 0
  <2>1. blank' + full' + Made' + Had' = NUM
    BY <1>4 DEF SCount
  <2>2. Made' \in Nat /\ Had' \in Nat
    OBVIOUS
  <2>3. \A g, h, u, w \in Nat : g + h + u + w = NUM => g \in 0..NUM /\ h \in 0..NUM
    OBVIOUS
  <2> HIDE DEF Made, Had
  <2> QED
    BY <1>4, <2>1, <2>2, <2>3
<1>6. /\ queue' \in [0..NUM-1 -> S!Items \cup {S!Zero}]
      /\ p' \in 0..NUM-1 /\ c' \in 0..NUM-1 /\ sn' \in 0..MaxData-1
      /\ printed' \in S!Items \cup {S!Zero} /\ sconsumed' \in S!Items \cup {S!Zero}
  BY <1>1, <1>2, <1>3
     DEF svars, S!Next, S!producer, S!consumer, S!WaitBlank, S!Write, S!PrintSlot, S!PostFull,
         S!Advance, S!WaitFull, S!Read, S!ZeroSlot, S!PostBlank, S!AdvanceC
<1>7. /\ spc'[Producer] \in {"wait", "write", "print", "post", "advance"}
      /\ spc'[Consumer] \in {"wait", "read", "zero", "post", "advance"}
  <2>1. \/ spc' = spc
        \/ \E q, k \in {"wait", "write", "print", "post", "advance"} : S!Step(Producer, q, k)
        \/ \E q, k \in {"wait", "read", "zero", "post", "advance"} : S!Step(Consumer, q, k)
    BY DEF svars, S!Next, S!producer, S!consumer, S!WaitBlank, S!Write, S!PrintSlot, S!PostFull,
           S!Advance, S!WaitFull, S!Read, S!ZeroSlot, S!PostBlank, S!AdvanceC
  <2>2. /\ spc[Producer] \in {"wait", "write", "print", "post", "advance"}
        /\ spc[Consumer] \in {"wait", "read", "zero", "post", "advance"}
    BY <1>3 DEF S!TypeOK
  <2> QED
    BY <1>s, <2>1, <2>2
<1> QED
  BY <1>4, <1>5, <1>6, <1>7 DEF S!TypeOK, S!Slots, S!Items, S!Zero

(* The consumer clears a slot that the producer has written only after the *)
(* producer has posted it.                                                 *)
LEMMA SNextReport ==
  SInv /\ [S!Next]_svars /\ program' = program
  => SReport' /\ (S!PrintSlot => \/ printed' = SLast
                                 \/ program # "pth_sem.c" /\ printed' = S!Zero)
<1> SUFFICES ASSUME SInv, [S!Next]_svars, program' = program
             PROVE  SReport' /\ (S!PrintSlot => \/ printed' = SLast
                                                \/ program # "pth_sem.c" /\ printed' = S!Zero)
  OBVIOUS
<1> USE STypes
<1>1. /\ p \in 0..NUM-1 /\ c \in 0..NUM-1 /\ sn \in 0..MaxData-1
      /\ queue \in [0..NUM-1 -> S!Items \cup {S!Zero}]
      /\ DOMAIN spc = {Producer, Consumer} /\ SReport
  BY SBounds DEF SInv
<1>2. S!PrintSlot => \/ printed' = SLast
                     \/ program # "pth_sem.c" /\ printed' = S!Zero
  <2> HAVE S!PrintSlot
  <2>1. spc[Producer] = "print" /\ printed' = queue[p]
    BY DEF S!PrintSlot, S!Step
  <2> QED
    BY <1>1, <2>1 DEF SReport
<1>3. SReport'
  <2>1. CASE UNCHANGED svars
    BY <1>1, <2>1 DEF svars, SReport, S!Posting, SLast
  <2>2. CASE S!Write
    <3>1. sn' = (sn + 1) % MaxData /\ p' = p /\ queue'[p] = <<Producer, sn>>
          /\ spc'[Producer] \in {"print", "post"}
      BY <1>1, <2>2 DEF S!Write, S!Step
    <3>2. sn + 1 <= MaxData /\ sn \in Nat
      BY <1>1
    <3>3. sn' = IF sn + 1 = MaxData THEN 0 ELSE sn + 1
      BY <3>1, <3>2
    <3>4. (sn' + MaxData - 1) % MaxData = sn
      <4>1. CASE sn + 1 = MaxData
        BY <3>2, <3>3, <4>1
      <4>2. CASE sn + 1 < MaxData
        <5>1. sn' + MaxData - 1 = sn + MaxData /\ sn \in 0..MaxData-1
          BY <3>2, <3>3, <4>2
        <5>2. (sn + MaxData) % MaxData = sn
          BY <3>2, <4>2
        <5> QED
          BY <5>1, <5>2
      <4> QED
        BY <3>2, <4>1, <4>2
    <3> QED
      BY <3>1, <3>4 DEF SReport, SLast
  <2>3. CASE S!WaitBlank \/ S!PrintSlot \/ S!PostFull \/ S!Advance
    BY <1>1, <2>3 DEF S!WaitBlank, S!PrintSlot, S!PostFull, S!Advance, S!Step, SReport, S!Posting, SLast
  <2>4. CASE S!WaitFull \/ S!Read \/ S!PostBlank \/ S!AdvanceC
    BY <1>1, <2>4 DEF S!WaitFull, S!Read, S!PostBlank, S!AdvanceC, S!Step, SReport, S!Posting, SLast
  <2>5. CASE S!ZeroSlot
    <3>1. /\ queue' = [queue EXCEPT ![c] = S!Zero] /\ UNCHANGED <<p, sn>>
          /\ spc'[Producer] = spc[Producer] /\ spc[Consumer] = "zero"
      BY <1>1, <2>5 DEF S!ZeroSlot, S!Step
    <3>2. S!Posting => p # c
      BY <3>1, SApart
    <3>3. spc[Producer] = "print" /\ program = "pth_sem.c" => S!Posting
      BY DEF S!Posting
    <3> QED
      BY <1>1, <3>1, <3>2, <3>3 DEF SReport, S!Posting, SLast
  <2> QED
    BY <2>1, <2>2, <2>3, <2>4, <2>5 DEF S!Next, S!producer, S!consumer
<1> QED
  BY <1>2, <1>3

(* The items in the ring from the next one to read on, with the wrap       *)
(* around the end of the array spelled out.                                *)
SFirst == SIndex(S!first)
SContents == [k \in 1..S!filled |-> queue[SIndex(SFirst + k - 1)]]

LEMMA SInvContents == SInv => S!contents = SContents
<1> SUFFICES ASSUME SInv PROVE S!contents = SContents
  OBVIOUS
<1>1. S!filled \in 0..NUM /\ S!first \in 0..NUM /\ NUM \in Nat \ {0}
  BY SBounds, STypes
<1>2. ASSUME NEW k \in 1..S!filled PROVE (S!first + k - 1) % NUM = SIndex(SFirst + k - 1)
  <2>1. S!first + k - 1 \in Nat /\ S!first + k - 1 < NUM + NUM
    BY <1>1
  <2>2. (S!first + k - 1) % NUM = SIndex(S!first + k - 1)
    BY <1>1, <2>1, Wrap DEF SIndex
  <2> QED
    BY <1>1, <2>2 DEF SIndex, SFirst
<1> QED
  BY <1>2 DEF S!contents, SContents

(* Write adds to the items in the ring and Read takes from them; all other *)
(* statements leave them where they are, and the slot that is cleared is   *)
(* none of theirs.                                                         *)
LEMMA SNextMoves ==
  SInv /\ [S!Next]_svars /\ program' = program
  => \/ /\ S!Write /\ S!filled' = S!filled + 1 /\ S!first' = S!first
        /\ SWritten = p /\ SWritten' = p + 1
     \/ /\ S!Read /\ S!filled > 0 /\ S!filled' = S!filled - 1 /\ S!first = c /\ S!first' = c + 1
        /\ SWritten' = SWritten
     \/ /\ UNCHANGED <<S!filled, SFirst, SIndex(SWritten), sn, sconsumed>>
        /\ \/ queue' = queue
           \/ /\ queue' = [queue EXCEPT ![c] = S!Zero]
              /\ S!first = c + 1 /\ S!filled < NUM
<1> SUFFICES ASSUME SInv, [S!Next]_svars, program' = program
             PROVE  \/ /\ S!Write /\ S!filled' = S!filled + 1 /\ S!first' = S!first
                       /\ SWritten = p /\ SWritten' = p + 1
                    \/ /\ S!Read /\ S!filled > 0 /\ S!filled' = S!filled - 1 /\ S!first = c /\ S!first' = c + 1
                       /\ SWritten' = SWritten
                    \/ /\ UNCHANGED <<S!filled, SFirst, SIndex(SWritten), sn, sconsumed>>
                       /\ \/ queue' = queue
                          \/ /\ queue' = [queue EXCEPT ![c] = S!Zero]
                             /\ S!first = c + 1 /\ S!filled < NUM
  OBVIOUS
<1> USE STypes
<1>1. /\ full \in Nat /\ p \in 0..NUM-1 /\ c \in 0..NUM-1 /\ S!filled \in 0..NUM
      /\ spc[Consumer] = "zero" => S!filled < NUM
  BY SBounds
<1>2. ASSUME NEW t \in {Producer, Consumer}, NEW q, NEW k, S!Step(t, q, k)
      PROVE  /\ spc[t] = q /\ spc'[t] = k
             /\ \A u \in {Producer, Consumer} \ {t} : spc'[u] = spc[u]
  BY <1>2 DEF S!Step, SInv
<1>3. CASE UNCHANGED svars
  BY <1>3 DEF svars, S!filled, SFirst, S!first, S!Posting, SWritten, SIndex
<1>4. CASE S!WaitBlank
  <2>1. spc[Producer] = "wait" /\ spc'[Producer] = "write" /\ spc'[Consumer] = spc[Consumer]
    BY <1>2, <1>4 DEF S!WaitBlank
  <2> QED
    BY <1>4, <2>1 DEF S!WaitBlank, S!filled, SFirst, S!first, S!Posting, SWritten, SIndex
<1>5. CASE S!Write
  <2>1. /\ spc[Producer] = "write" /\ spc'[Consumer] = spc[Consumer]
        /\ spc'[Producer] = (IF program = "pth_sem.c" THEN "print" ELSE "post")
    BY <1>2, <1>5 DEF S!Write
  <2>2. full' = full /\ p' = p /\ c' = c
    BY <1>5 DEF S!Write
  <2>3. ~S!Posting /\ S!Posting'
    BY <2>1 DEF S!Posting
  <2>4. S!filled' = S!filled + 1
    BY <1>1, <2>1, <2>2, <2>3 DEF S!filled
  <2> QED
    BY <1>5, <2>1, <2>2, <2>4 DEF S!first, SWritten
<1>6. CASE S!PrintSlot
  <2>1. /\ spc[Producer] = "print" /\ spc'[Consumer] = spc[Consumer]
        /\ spc'[Producer] = (IF program = "pth_sem.c" THEN "post" ELSE "advance")
    BY <1>2, <1>6 DEF S!PrintSlot
  <2> QED
    BY <1>6, <2>1 DEF S!PrintSlot, S!filled, SFirst, S!first, S!Posting, SWritten, SIndex
<1>7. CASE S!PostFull
  <2>1. /\ spc[Producer] = "post" /\ spc'[Consumer] = spc[Consumer]
        /\ spc'[Producer] = (IF program = "pth_sem.c" THEN "advance" ELSE "print")
    BY <1>2, <1>7 DEF S!PostFull
  <2>2. S!Posting /\ ~S!Posting' /\ full' = full + 1
    BY <1>7, <2>1 DEF S!PostFull, S!Posting
  <2>3. S!filled' = S!filled
    BY <1>1, <2>1, <2>2 DEF S!filled
  <2> QED
    BY <1>7, <2>1, <2>3 DEF S!PostFull, SFirst, S!first, SWritten, SIndex
<1>8. CASE S!Advance
  <2>1. spc[Producer] = "advance" /\ spc'[Producer] = "wait" /\ spc'[Consumer] = spc[Consumer]
    BY <1>2, <1>8 DEF S!Advance
  <2>2. p' = (p + 1) % NUM /\ p \in Nat /\ p < NUM
    BY <1>1, <1>8 DEF S!Advance
  <2>3. p' = SIndex(p + 1)
    BY <2>2 DEF SIndex
  <2>4. SIndex(SWritten)' = SIndex(SWritten)
    BY <1>1, <2>1, <2>3 DEF SWritten, SIndex
  <2> QED
    BY <1>8, <2>1, <2>4 DEF S!Advance, S!filled, SFirst, S!first, S!Posting, SIndex
<1>9. CASE S!WaitFull
  <2>1. spc[Consumer] = "wait" /\ spc'[Consumer] = "read" /\ spc'[Producer] = spc[Producer]
    BY <1>2, <1>9 DEF S!WaitFull
  <2>2. full' = full - 1
    BY <1>9 DEF S!WaitFull
  <2>3. S!filled' = S!filled
    BY <1>1, <2>1, <2>2 DEF S!filled, S!Posting
  <2> QED
    BY <1>9, <2>1, <2>3 DEF S!WaitFull, SFirst, S!first, SWritten, SIndex
<1>10. CASE S!Read
  <2>1. spc[Consumer] = "read" /\ spc'[Consumer] = "zero" /\ spc'[Producer] = spc[Producer]
    BY <1>2, <1>10 DEF S!Read
  <2>2. full' = full /\ p' = p /\ c' = c
    BY <1>10 DEF S!Read
  <2>3. S!filled' = S!filled - 1 /\ S!filled > 0
    BY <1>1, <2>1, <2>2 DEF S!filled, S!Posting
  <2> QED
    BY <1>10, <2>1, <2>2, <2>3 DEF S!first, SWritten
<1>11. CASE S!ZeroSlot
  <2>1. spc[Consumer] = "zero" /\ spc'[Consumer] = "post" /\ spc'[Producer] = spc[Producer]
    BY <1>2, <1>11 DEF S!ZeroSlot
  <2>2. S!first = c + 1 /\ S!filled < NUM
    BY <1>1, <2>1 DEF S!first
  <2> QED
    BY <1>11, <2>1, <2>2 DEF S!ZeroSlot, S!filled, SFirst, S!first, S!Posting, SWritten, SIndex
<1>12. CASE S!PostBlank
  <2>1. spc[Consumer] = "post" /\ spc'[Consumer] = "advance" /\ spc'[Producer] = spc[Producer]
    BY <1>2, <1>12 DEF S!PostBlank
  <2> QED
    BY <1>12, <2>1 DEF S!PostBlank, S!filled, SFirst, S!first, S!Posting, SWritten, SIndex
<1>13. CASE S!AdvanceC
  <2>1. spc[Consumer] = "advance" /\ spc'[Consumer] = "wait" /\ spc'[Producer] = spc[Producer]
    BY <1>2, <1>13 DEF S!AdvanceC
  <2>2. c' = (c + 1) % NUM /\ c \in Nat /\ c < NUM
    BY <1>1, <1>13 DEF S!AdvanceC
  <2>3. c' = SIndex(c + 1)
    BY <2>2 DEF SIndex
  <2>4. SFirst' = SFirst
    BY <1>1, <2>1, <2>3 DEF SFirst, S!first, SIndex
  <2> QED
    BY <1>13, <2>1, <2>4 DEF S!AdvanceC, S!filled, S!Posting, SWritten, SIndex
<1> QED
  BY <1>3, <1>4, <1>5, <1>6, <1>7, <1>8, <1>9, <1>10, <1>11, <1>12, <1>13
     DEF S!Next, S!producer, S!consumer

LEMMA SNext == SInv /\ [S!Next]_svars /\ program' = program => SInv'
<1> SUFFICES ASSUME SInv, [S!Next]_svars, program' = program PROVE SInv'
  OBVIOUS
<1>1. S!TypeOK' /\ DOMAIN spc' = {Producer, Consumer} /\ SCount' /\ SReport'
  BY SNextCount, SNextReport
<1>2. /\ p \in 0..NUM-1 /\ c \in 0..NUM-1 /\ S!filled \in 0..NUM /\ S!first \in 0..NUM
      /\ SWritten \in 0..NUM /\ SPositions /\ NUM \in Nat \ {0}
      /\ S!Write => S!filled < NUM
  BY SBounds, STypes DEF SInv, SWritten, S!Write, S!Step
<1>3. SPositions'
  <2>1. CASE /\ S!filled' = S!filled + 1 /\ S!first' = S!first /\ S!filled < NUM
             /\ SWritten = p /\ SWritten' = p + 1
    BY <1>2, <2>1 DEF SPositions, SIndex
  <2>2. CASE /\ S!filled > 0 /\ S!filled' = S!filled - 1 /\ S!first = c /\ S!first' = c + 1
             /\ SWritten' = SWritten
    BY <1>2, <2>2 DEF SPositions, SIndex
  <2>3. CASE UNCHANGED <<S!filled, SFirst, SIndex(SWritten)>>
    BY <1>2, <2>3 DEF SPositions, SFirst, SIndex
  <2> QED
    BY <1>2, <2>1, <2>2, <2>3, SNextMoves
<1> QED
  BY <1>1, <1>3 DEF SInv

(* Every step is a Put, a Take or nothing to BoundedFifo.                  *)
LEMMA SNextFifo ==
  /\ SInv /\ SInv' /\ [S!Next]_svars /\ program' = program
  /\ S!contents = SContents /\ S!contents' = SContents'
  => [S!Fifo!Next]_(S!Fifo!vars)
<1> SUFFICES ASSUME SInv, SInv', [S!Next]_svars, program' = program,
                    S!contents = SContents, S!contents' = SContents'
             PROVE  [S!Fifo!Next]_(S!Fifo!vars)
  OBVIOUS
<1> USE STypes
<1>1. /\ p \in 0..NUM-1 /\ c \in 0..NUM-1 /\ S!filled \in 0..NUM /\ S!first \in 0..NUM
      /\ queue \in [0..NUM-1 -> S!Items \cup {S!Zero}] /\ sn \in 0..MaxData-1
      /\ spc[Producer] = "write" => S!filled < NUM
  BY SBounds
<1>2. SFirst \in 0..NUM-1
  BY <1>1 DEF SFirst, SIndex
<1>3. \A k \in 1..S!filled : SIndex(SFirst + k - 1) \in 0..NUM-1
  BY <1>1, <1>2 DEF SIndex
<1>4. SContents \in [1..S!filled -> S!Items \cup {S!Zero}]
  BY <1>1, <1>3 DEF SContents
<1>5. ASSUME S!Write, S!filled' = S!filled + 1, S!first' = S!first, SWritten = p PROVE S!Fifo!Put(Producer)
  <2>1. /\ queue' = [queue EXCEPT ![p] = <<Producer, sn>>] /\ sn' = (sn + 1) % MaxData
        /\ sconsumed' = sconsumed /\ S!filled < NUM
    BY <1>1, <1>5 DEF S!Write, S!Step
  <2>2. SFirst' = SFirst /\ p = SIndex(SFirst + S!filled)
    BY <1>1, <1>5 DEF SInv, SPositions, SFirst, SIndex
  <2>3. \A k \in 1..S!filled : SIndex(SFirst + k - 1) # p
    BY <1>1, <1>2, <2>1, <2>2 DEF SIndex
  <2>4. <<Producer, sn>> \in S!Items
    BY <1>1 DEF S!Items
  <2>5. SContents' = Append(SContents, <<Producer, sn>>) /\ Len(SContents) = S!filled
    <3>1. \A k \in 1..S!filled : SContents'[k] = SContents[k]
      <4> SUFFICES ASSUME NEW k \in 1..S!filled PROVE SContents'[k] = SContents[k]
        OBVIOUS
      <4>1. k \in 1..S!filled + 1
        BY <1>1
      <4> QED
        BY <1>1, <1>3, <1>5, <2>1, <2>2, <2>3, <4>1 DEF SContents, SIndex
    <3>2. SContents'[S!filled + 1] = <<Producer, sn>>
      <4>1. S!filled + 1 \in 1..S!filled + 1 /\ SFirst + (S!filled + 1) - 1 = SFirst + S!filled
        BY <1>1, <1>2
      <4> QED
        BY <1>1, <1>5, <2>1, <2>2, <4>1 DEF SContents, SIndex
    <3>3. SContents' \in [1..S!filled + 1 -> S!Items \cup {S!Zero}]
      <4>1. SContents' = [k \in 1..S!filled + 1 |-> SContents'[k]]
        BY <1>5 DEF SContents
      <4>2. ASSUME NEW k \in 1..S!filled + 1 PROVE SContents'[k] \in S!Items \cup {S!Zero}
        <5>1. k \in 1..S!filled \/ k = S!filled + 1
          BY <1>1
        <5> QED
          BY <1>4, <2>4, <3>1, <3>2, <5>1
      <4> QED
        BY <4>1, <4>2
    <3> QED
      BY <1>1, <1>4, <2>4, <3>1, <3>2, <3>3, Appended
  <2>6. Len(S!contents) < NUM
    BY <2>1, <2>5
  <2> QED
    BY <2>1, <2>5, <2>6 DEF S!Fifo!Put
<1>6. ASSUME S!Read, S!filled > 0, S!filled' = S!filled - 1, S!first = c, S!first' = c + 1
      PROVE  S!Fifo!Take(Consumer)
  <2>1. queue' = queue /\ sn' = sn /\ sconsumed' = queue[c]
    BY <1>6 DEF S!Read
  <2>2. SFirst = c /\ SFirst' = SIndex(c + 1)
    BY <1>1, <1>6 DEF SFirst, SIndex
  <2>3. S!filled \in Nat \ {0}
    BY <1>1, <1>6
  <2>4. \A k \in 1..S!filled - 1 : SIndex(SFirst' + k - 1) = SIndex(SFirst + (k + 1) - 1)
    BY <1>1, <2>2 DEF SIndex
  <2>5. /\ SContents' = [k \in 1..S!filled - 1 |-> queue[SIndex(SFirst + (k + 1) - 1)]]
        /\ \A k \in 1..S!filled - 1 : k + 1 \in 1..S!filled
    BY <1>1, <1>6, <2>1, <2>4 DEF SContents, SIndex
  <2>6. /\ SContents' \in [1..S!filled - 1 -> S!Items \cup {S!Zero}]
        /\ \A k \in 1..S!filled - 1 : SContents'[k] = SContents[k + 1]
    BY <1>4, <2>5 DEF SContents
  <2>7. SContents[1] = queue[c]
    BY <1>1, <2>2, <2>3 DEF SContents, SIndex
  <2>8. SContents # <<>> /\ Head(SContents) = queue[c] /\ SContents' = Tail(SContents)
    BY <1>4, <2>3, <2>6, <2>7, HeadTaken
  <2> QED
    BY <2>1, <2>8 DEF S!Fifo!Take
<1>7. ASSUME UNCHANGED <<S!filled, SFirst, SIndex(SWritten), sn, sconsumed>>,
             \/ queue' = queue
             \/ queue' = [queue EXCEPT ![c] = S!Zero] /\ S!first = c + 1 /\ S!filled < NUM
      PROVE  UNCHANGED S!Fifo!vars
  <2>1. ASSUME NEW k \in 1..S!filled PROVE queue'[SIndex(SFirst + k - 1)] = queue[SIndex(SFirst + k - 1)]
    <3>1. CASE queue' = queue
      BY <3>1
    <3>2. CASE queue' = [queue EXCEPT ![c] = S!Zero] /\ S!first = c + 1 /\ S!filled < NUM
      <4>1. SIndex(SFirst + k - 1) # c
        BY <1>1, <3>2 DEF SFirst, SIndex
      <4> QED
        BY <1>1, <3>2, <4>1
    <3> QED
      BY <1>7, <3>1, <3>2
  <2>2. SContents' = SContents
    BY <1>7, <2>1 DEF SContents, SIndex
  <2> QED
    BY <1>7, <2>2 DEF S!Fifo!vars
<1> QED
  BY <1>5, <1>6, <1>7, SNextMoves DEF S!Fifo!Next

-----------------------------------------------------------------------------
(* pth_cond.c, pth_cond_test.c                                             *)

(* The nodes of the list, in order: each in one place, each linked to the  *)
(* next one, the last one to none.                                         *)
LList(m, s) ==
  /\ m \in 0..MaxNodes /\ s \in [1..m -> L!Cells]
  /\ \A j, k \in 1..m : s[j] = s[k] => j = k
  /\ IF m = 0 THEN head = L!NULL ELSE head = s[1] /\ next[s[m]] = L!NULL
  /\ \A k \in 1..m-1 : next[s[k]] = s[k+1]

LEMMA LTypes == /\ MaxNodes \in Nat \ {0} /\ MaxData \in Nat \ {0}
                /\ Producer # Consumer /\ Nobody # Producer /\ Nobody # Consumer
BY ThreadProgramsAssumption

(* Following the links from head visits these nodes and ends.              *)
LEMMA LNode == \A m, s : LList(m, s) =>
  L!node = [k \in 0..MaxNodes |-> IF k < m THEN s[k+1] ELSE L!NULL]
<1> SUFFICES ASSUME NEW m, NEW s, LList(m, s)
             PROVE  L!node = [k \in 0..MaxNodes |-> IF k < m THEN s[k+1] ELSE L!NULL]
  OBVIOUS
<1> DEFINE Walk(f) == f = [k \in 0..MaxNodes |-> IF k = 0 THEN head
                                      ELSE IF f[k-1] = L!NULL THEN L!NULL ELSE next[f[k-1]]]
           g == [k \in 0..MaxNodes |-> IF k < m THEN s[k+1] ELSE L!NULL]
<1>1. /\ m \in 0..MaxNodes /\ MaxNodes \in Nat /\ s \in [1..m -> 1..MaxNodes] /\ L!NULL = 0
      /\ IF m = 0 THEN head = L!NULL ELSE head = s[1] /\ next[s[m]] = L!NULL
      /\ \A k \in 1..m-1 : next[s[k]] = s[k+1]
  BY LTypes DEF LList, L!Cells, L!NULL
<1>2. ASSUME NEW k \in 0..MaxNodes
      PROVE  g[k] = IF k = 0 THEN head ELSE IF g[k-1] = L!NULL THEN L!NULL ELSE next[g[k-1]]
  <2>1. CASE k = 0
    BY <1>1, <2>1
  <2>2. CASE 0 < k /\ k < m
    BY <1>1, <2>2
  <2>3. CASE 0 < k /\ k = m
    BY <1>1, <2>3
  <2>4. CASE 0 < k /\ k > m
    BY <1>1, <2>4
  <2> QED
    BY <1>1, <2>1, <2>2, <2>3, <2>4
<1>3. Walk(g)
  BY <1>2
<1> HIDE DEF g
<1>4. Walk(L!node)
  BY <1>3 DEF L!node
<1>5. L!node = g
  <2> DEFINE Differ == {k \in 0..MaxNodes : L!node[k] # g[k]}
  <2>1. L!node = [k \in 0..MaxNodes |-> L!node[k]] /\ g = [k \in 0..MaxNodes |-> g[k]]
    BY <1>3, <1>4
  <2>2. SUFFICES ASSUME Differ # {} PROVE FALSE
    BY <2>1
  <2>3. PICK k \in Differ : \A j \in Differ : k <= j
    <3>1. Differ \in SUBSET Nat
      BY <1>1
    <3> HIDE DEF Differ
    <3> QED
      BY <2>2, <3>1, Least
  <2>4. k \in 0..MaxNodes /\ L!node[k] # g[k]
    BY <2>3
  <2>5. k # 0
    BY <1>1, <1>3, <1>4, <2>4
  <2>6. k - 1 \in 0..MaxNodes /\ k - 1 \notin Differ
    BY <1>1, <2>3, <2>4, <2>5
  <2>7. L!node[k-1] = g[k-1]
    BY <2>6
  <2> QED
    BY <1>1, <1>3, <1>4, <2>4, <2>5, <2>7
<1> QED
  BY <1>5 DEF g

LItem(k) == <<Producer, num[k]>>
LLinked(m, s) == [k \in 1..m |-> LItem(s[k])]

LListed == \A m, s : LList(m, s) => /\ L!OnList = {s[k] : k \in 1..m}
                                    /\ L!linked = LLinked(m, s)
                                    /\ L!node[MaxNodes] = L!NULL

LEMMA LListIsListed == LListed
<1> SUFFICES ASSUME NEW m, NEW s, LList(m, s)
             PROVE  /\ L!OnList = {s[k] : k \in 1..m}
                    /\ L!linked = LLinked(m, s)
                    /\ L!node[MaxNodes] = L!NULL
  BY DEF LListed
<1>1. /\ m \in 0..MaxNodes /\ MaxNodes \in Nat /\ s \in [1..m -> 1..MaxNodes] /\ L!NULL = 0
      /\ \A j, k \in 1..m : s[j] = s[k] => j = k
  BY LTypes DEF LList, L!Cells, L!NULL
<1>2. L!node = [k \in 0..MaxNodes |-> IF k < m THEN s[k+1] ELSE 0]
  BY <1>1, LNode
<1>3. L!OnList = {s[k] : k \in 1..m}
  <2>1. ASSUME NEW k \in 0..MaxNodes, L!node[k] # 0 PROVE k + 1 \in 1..m /\ L!node[k] = s[k+1]
    BY <1>1, <1>2, <2>1
  <2>2. ASSUME NEW k \in 1..m PROVE s[k] # 0 /\ k - 1 \in 0..MaxNodes /\ L!node[k-1] = s[k]
    BY <1>1, <1>2
  <2>3. ASSUME NEW x \in L!OnList PROVE \E k \in 1..m : s[k] = x
    BY <1>1, <2>1 DEF L!OnList
  <2>4. ASSUME NEW k \in 1..m PROVE s[k] \in L!OnList
    BY <1>1, <2>2 DEF L!OnList
  <2> QED
    BY <2>3, <2>4
<1>4. L!Cardinality(L!OnList) = m
  <2>1. Cardinality(L!OnList) = m
    <3>1. m \in Nat /\ s \in [1..m -> 1..MaxNodes]
      BY <1>1
    <3>2. \A j, k \in 1..m : s[j] = s[k] => j = k
      BY <1>1
    <3>3. \A x : x \in L!OnList <=> \E k \in 1..m : s[k] = x
      BY <1>3
    <3> QED
      BY <3>1, <3>2, <3>3, Distinct
  <2>2. L!Cardinality(L!OnList) = Cardinality(L!OnList)
    BY DEF L!Cardinality, Cardinality
  <2> QED
    BY <2>1, <2>2
<1>5. L!linked = LLinked(m, s)
  <2>1. \A k \in 1..m : k - 1 \in 0..MaxNodes /\ L!node[k-1] = s[k]
    BY <1>1, <1>2
  <2> QED
    BY <1>4, <2>1 DEF L!linked, LLinked, LItem
<1> QED
  BY <1>1, <1>2, <1>3, <1>5

(* Every cell in use is on the list or belongs to one thread, and to one   *)
(* place only; the new node of pth_cond_test.c ends the list to be.        *)
LHeap(m, s) ==
  /\ heap = {s[k] : k \in 1..m} \cup L!ProducerOwns \cup L!ConsumerOwns
  /\ \A k \in 1..m : s[k] \notin L!ProducerOwns \cup L!ConsumerOwns
  /\ L!ProducerOwns \cap L!ConsumerOwns = {}
  /\ lpc[Producer] = "walk" => program = "pth_cond_test.c" /\ \E k \in 1..m : cur = s[k]
  /\ program = "pth_cond_test.c" /\ lpc[Producer] \in {"lock", "link", "walk"}
       => next[mp] = L!NULL

LPlaces == /\ DOMAIN lpc = {Producer, Consumer}
           /\ lpc[Producer] \in {"malloc", "lock", "link", "walk", "unlock", "signal"}
           /\ lpc[Consumer] \in {"lock", "test", "wait", "unlock", "print", "free"}

LInv == /\ L!TypeOK /\ LPlaces /\ L!NoLostWakeup
        /\ \E m, s : LList(m, s) /\ LHeap(m, s)

LEMMA LInit == L!Init => LInv
<1> SUFFICES ASSUME L!Init PROVE LInv
  OBVIOUS
<1> USE LTypes DEF L!Init, L!NULL
<1>1. L!TypeOK /\ LPlaces /\ L!NoLostWakeup
  BY DEF L!TypeOK, L!Cells, LPlaces, L!NoLostWakeup, L!Nothing
<1>2. LList(0, <<>>)
  BY DEF LList, L!Cells
<1>3. LHeap(0, <<>>)
  BY DEF LHeap, L!ProducerOwns, L!ConsumerOwns
<1> QED
  BY <1>1, <1>2, <1>3 DEF LInv

(* What is on the list and what the threads own are cells.                 *)
LEMMA LOwned ==
  LInv => /\ lpc[Producer] \in {"lock", "link", "walk"} => mp \in L!Cells
          /\ lpc[Consumer] \in {"unlock", "print", "free"} => cmp \in L!Cells
          /\ lpc[Producer] = "walk" => cur \in L!Cells
<1> SUFFICES ASSUME LInv
             PROVE  /\ lpc[Producer] \in {"lock", "link", "walk"} => mp \in L!Cells
                    /\ lpc[Consumer] \in {"unlock", "print", "free"} => cmp \in L!Cells
                    /\ lpc[Producer] = "walk" => cur \in L!Cells
  OBVIOUS
<1>1. PICK m, s : LList(m, s) /\ LHeap(m, s)
  BY DEF LInv
<1>2. heap \subseteq L!Cells /\ s \in [1..m -> L!Cells]
  BY <1>1 DEF LInv, L!TypeOK, LList
<1> QED
  BY <1>1, <1>2 DEF LHeap, L!ProducerOwns, L!ConsumerOwns

(* The lock is free or held by one thread; a signal follows each node.     *)
LEMMA LNextTypeOK ==
  LInv /\ [L!Next]_lvars /\ program' = program => L!TypeOK' /\ LPlaces' /\ L!NoLostWakeup'
<1> SUFFICES ASSUME LInv, [L!Next]_lvars, program' = program
             PROVE  L!TypeOK' /\ LPlaces' /\ L!NoLostWakeup'
  OBVIOUS
<1> USE LTypes
<1>1. L!TypeOK /\ LPlaces /\ L!NoLostWakeup
  BY DEF LInv
<1>2. /\ lpc[Producer] \in {"lock", "link", "walk"} => mp \in L!Cells
      /\ lpc[Consumer] \in {"unlock", "print", "free"} => cmp \in L!Cells
      /\ lpc[Producer] = "walk" => cur \in L!Cells
  BY LOwned
<1>3. (ln + 1) % MaxData \in 0..MaxData-1
  BY <1>1, Remainder DEF L!TypeOK
<1>s. ASSUME NEW t \in {Producer, Consumer}, NEW q, NEW k, L!Step(t, q, k)
      PROVE  /\ lpc[t] = q /\ lpc'[t] = k /\ DOMAIN lpc' = {Producer, Consumer}
             /\ \A u \in {Producer, Consumer} \ {t} : lpc'[u] = lpc[u]
  BY <1>1, <1>s DEF L!Step, LPlaces
<1>4. CASE UNCHANGED lvars
  BY <1>1, <1>4 DEF lvars, L!TypeOK, LPlaces, L!NoLostWakeup
<1>5. CASE L!Malloc
  <2>1. /\ lpc[Producer] = "malloc" /\ lpc'[Producer] = "lock" /\ DOMAIN lpc' = {Producer, Consumer}
        /\ lpc'[Consumer] = lpc[Consumer]
    BY <1>s, <1>5 DEF L!Malloc
  <2>2. PICK x \in L!Cells : \E garbage \in {L!NULL, x} :
          /\ next' = [next EXCEPT ![x] = garbage] /\ num' = [num EXCEPT ![x] = ln]
          /\ mp' = x /\ heap' = heap \cup {x}
    BY <1>5 DEF L!Malloc
  <2> QED
    BY <1>1, <1>3, <1>5, <2>1, <2>2 DEF L!Malloc, L!TypeOK, LPlaces, L!NoLostWakeup
<1>6. CASE L!ProducerLock
  <2>1. /\ lpc[Producer] = "lock" /\ lpc'[Producer] = "link" /\ DOMAIN lpc' = {Producer, Consumer}
        /\ lpc'[Consumer] = lpc[Consumer]
    BY <1>s, <1>6 DEF L!ProducerLock
  <2> QED
    BY <1>1, <1>6, <2>1 DEF L!ProducerLock, L!TypeOK, LPlaces, L!NoLostWakeup
<1>7. CASE L!LinkAtHead \/ L!LinkFirst
  <2>1. /\ lpc[Producer] = "link" /\ lpc'[Producer] = "unlock" /\ DOMAIN lpc' = {Producer, Consumer}
        /\ lpc'[Consumer] = lpc[Consumer]
    BY <1>s, <1>7 DEF L!LinkAtHead, L!LinkFirst
  <2> QED
    BY <1>1, <1>2, <1>7, <2>1 DEF L!LinkAtHead, L!LinkFirst, L!TypeOK, LPlaces, L!NoLostWakeup
<1>8. CASE L!StartWalk
  <2>1. /\ lpc[Producer] = "link" /\ lpc'[Producer] = "walk" /\ DOMAIN lpc' = {Producer, Consumer}
        /\ lpc'[Consumer] = lpc[Consumer]
    BY <1>s, <1>8 DEF L!StartWalk
  <2> QED
    BY <1>1, <1>8, <2>1 DEF L!StartWalk, L!TypeOK, LPlaces, L!NoLostWakeup
<1>9. CASE L!Walk
  BY <1>1, <1>2, <1>9 DEF L!Walk, L!TypeOK, LPlaces, L!NoLostWakeup
<1>10. CASE L!LinkLast
  <2>1. /\ lpc[Producer] = "walk" /\ lpc'[Producer] = "unlock" /\ DOMAIN lpc' = {Producer, Consumer}
        /\ lpc'[Consumer] = lpc[Consumer]
    BY <1>s, <1>10 DEF L!LinkLast
  <2> QED
    BY <1>1, <1>2, <1>10, <2>1 DEF L!LinkLast, L!TypeOK, LPlaces, L!NoLostWakeup
<1>11. CASE L!ProducerUnlock
  <2>1. /\ lpc[Producer] = "unlock" /\ lpc'[Producer] = "signal"
        /\ DOMAIN lpc' = {Producer, Consumer}
        /\ lpc'[Consumer] = lpc[Consumer]
    BY <1>s, <1>11 DEF L!ProducerUnlock
  <2> QED
    BY <1>1, <1>11, <2>1 DEF L!ProducerUnlock, L!TypeOK, LPlaces, L!NoLostWakeup
<1>12. CASE L!Signal
  BY <1>1, <1>12 DEF L!Signal, L!TypeOK, LPlaces, L!NoLostWakeup
<1>13. CASE L!ConsumerLock
  <2>1. /\ lpc[Consumer] = "lock" /\ lpc'[Consumer] = "test" /\ DOMAIN lpc' = {Producer, Consumer}
        /\ lpc'[Producer] = lpc[Producer]
    BY <1>s, <1>13 DEF L!ConsumerLock
  <2> QED
    BY <1>1, <1>13, <2>1 DEF L!ConsumerLock, L!TypeOK, LPlaces, L!NoLostWakeup
<1>14. CASE L!Wait
  <2>1. /\ lpc[Consumer] = "test" /\ lpc'[Consumer] = "wait" /\ DOMAIN lpc' = {Producer, Consumer}
        /\ lpc'[Producer] = lpc[Producer]
    BY <1>s, <1>14 DEF L!Wait
  <2> QED
    BY <1>1, <1>14, <2>1 DEF L!Wait, L!TypeOK, LPlaces, L!NoLostWakeup
<1>15. CASE L!Unlink
  <2>1. /\ lpc[Consumer] = "test" /\ lpc'[Consumer] = "unlock" /\ DOMAIN lpc' = {Producer, Consumer}
        /\ lpc'[Producer] = lpc[Producer]
    BY <1>s, <1>15 DEF L!Unlink
  <2> QED
    BY <1>1, <1>15, <2>1 DEF L!Unlink, L!TypeOK, LPlaces, L!NoLostWakeup
<1>16. CASE L!ConsumerUnlock
  <2>1. /\ lpc[Consumer] = "unlock" /\ lpc'[Consumer] = "print"
        /\ DOMAIN lpc' = {Producer, Consumer}
        /\ lpc'[Producer] = lpc[Producer]
    BY <1>s, <1>16 DEF L!ConsumerUnlock
  <2> QED
    BY <1>1, <1>16, <2>1 DEF L!ConsumerUnlock, L!TypeOK, LPlaces, L!NoLostWakeup
<1>17. CASE L!PrintNode
  <2>1. /\ lpc[Consumer] = "print" /\ lpc'[Consumer] = "free" /\ DOMAIN lpc' = {Producer, Consumer}
        /\ lpc'[Producer] = lpc[Producer]
    BY <1>s, <1>17 DEF L!PrintNode
  <2> QED
    BY <1>1, <1>2, <1>17, <2>1 DEF L!PrintNode, L!TypeOK, LPlaces, L!NoLostWakeup
<1>18. CASE L!Free
  <2>1. /\ lpc[Consumer] = "free" /\ lpc'[Consumer] = "lock" /\ DOMAIN lpc' = {Producer, Consumer}
        /\ lpc'[Producer] = lpc[Producer]
    BY <1>s, <1>18 DEF L!Free
  <2> QED
    <3>1. 0 \in 0..MaxData-1
      OBVIOUS
    <3>2. /\ next' \in [L!Cells -> L!Cells \cup {L!NULL}] /\ num' \in [L!Cells -> 0..MaxData-1]
          /\ heap' \subseteq L!Cells /\ cmp' = L!NULL
          /\ UNCHANGED <<head, lock, mp, cur, ln, lconsumed>>
      BY <1>1, <1>18, <3>1 DEF L!Free, L!TypeOK
    <3> QED
      BY <1>1, <2>1, <3>2 DEF L!TypeOK, LPlaces, L!NoLostWakeup
<1>19. CASE L!SpuriousWakeup
  <2>1. /\ lpc[Consumer] = "wait" /\ lpc'[Consumer] = "lock" /\ DOMAIN lpc' = {Producer, Consumer}
        /\ lpc'[Producer] = lpc[Producer]
    BY <1>s, <1>19 DEF L!SpuriousWakeup
  <2> QED
    BY <1>1, <1>19, <2>1 DEF L!SpuriousWakeup, L!TypeOK, LPlaces, L!NoLostWakeup
<1> QED
  BY <1>4, <1>5, <1>6, <1>7, <1>8, <1>9, <1>10, <1>11, <1>12, <1>13, <1>14, <1>15, <1>16, <1>17,
     <1>18, <1>19 DEF L!Next, L!producer, L!consumer

(* A new node on a list of m leaves it within the heap.                    *)
LEMMA LRoom == \A m, s, e : LList(m, s) /\ e \in L!Cells /\ (\A k \in 1..m : s[k] # e)
                             => m + 1 \in 0..MaxNodes
<1> SUFFICES ASSUME NEW m, NEW s, NEW e, LList(m, s), e \in L!Cells, \A k \in 1..m : s[k] # e
             PROVE  m + 1 \in 0..MaxNodes
  OBVIOUS
<1>1. /\ m \in Nat /\ MaxNodes \in Nat /\ s \in [1..m -> 1..MaxNodes] /\ e \in 1..MaxNodes
      /\ \A j, k \in 1..m : s[j] = s[k] => j = k
  BY LTypes DEF LList, L!Cells
<1> DEFINE Chain == {s[k] : k \in 1..m}
<1>2. Chain \in SUBSET (1..MaxNodes) /\ e \notin Chain
  BY <1>1
<1>3. \A x : x \in Chain <=> \E k \in 1..m : s[k] = x
  OBVIOUS
<1> HIDE DEF Chain
<1>4. Cardinality(Chain) = m
  <2>1. m \in Nat /\ s \in [1..m -> 1..MaxNodes]
    BY <1>1
  <2>2. \A j, k \in 1..m : s[j] = s[k] => j = k
    BY <1>1
  <2> QED
    BY <1>3, <2>1, <2>2, Distinct
<1>5. IsFiniteSet(1..MaxNodes) /\ Cardinality(1..MaxNodes) = MaxNodes
  BY <1>1, FS_Interval
<1>6. MaxNodes >= m + 1
  <2> DEFINE U == 1..MaxNodes
  <2>1. IsFiniteSet(U) /\ Chain \in SUBSET U /\ e \in U /\ e \notin Chain /\ Cardinality(U) = MaxNodes
    BY <1>1, <1>2, <1>5
  <2> HIDE DEF U
  <2> QED
    BY <1>4, <2>1, Grown
<1> QED
  BY <1>1, <1>6

(* A list with a node more at its end, or at its front, or one less.       *)
LLonger(m, s, e) == [k \in 1..m+1 |-> IF k <= m THEN s[k] ELSE e]
LAhead(m, s, e) == [k \in 1..m+1 |-> IF k = 1 THEN e ELSE s[k-1]]
LRest(m, s) == [k \in 1..m-1 |-> s[k+1]]

(* How the list goes on, and the items with it.                            *)
LMoved(m, s) ==
  \/ /\ L!LinkAtHead
     /\ \E w : w = LAhead(m, s, mp) /\ LList(m + 1, w)' /\ LHeap(m + 1, w)'
  \/ /\ L!LinkFirst \/ L!LinkLast
     /\ \E w : w = LLonger(m, s, mp) /\ LList(m + 1, w)' /\ LHeap(m + 1, w)'
  \/ /\ L!Unlink /\ m > 0 /\ head = s[1]
     /\ \E w : w = LRest(m, s) /\ LList(m - 1, w)' /\ LHeap(m - 1, w)'
  \/ /\ \/ L!Malloc \/ L!PrintNode \/ L!Free
        \/ UNCHANGED <<num, ln, lconsumed, L!pending, L!unlinkedNew>>
     /\ LList(m, s)' /\ LHeap(m, s)'

LEMMA LNextList ==
  LInv /\ [L!Next]_lvars /\ program' = program =>
    \A m, s : LList(m, s) /\ LHeap(m, s) => LMoved(m, s)
<1> SUFFICES ASSUME L!TypeOK, LPlaces, [L!Next]_lvars, program' = program,
                    NEW m, NEW s, LList(m, s), LHeap(m, s)
             PROVE  LMoved(m, s)
  BY DEF LInv
<1> USE LTypes DEF L!NULL
<1>1. /\ m \in 0..MaxNodes /\ s \in [1..m -> L!Cells] /\ L!Cells = 1..MaxNodes
      /\ \A j, k \in 1..m : s[j] = s[k] => j = k
      /\ m = 0 => head = 0
      /\ m > 0 => head = s[1] /\ next[s[m]] = 0
      /\ \A k \in 1..m-1 : next[s[k]] = s[k+1]
      /\ next \in [L!Cells -> L!Cells \cup {0}] /\ heap \subseteq L!Cells
  BY DEF LList, L!Cells, L!TypeOK
<1>2. /\ heap = {s[k] : k \in 1..m} \cup L!ProducerOwns \cup L!ConsumerOwns
      /\ \A k \in 1..m : s[k] \in heap /\ s[k] \notin L!ProducerOwns \cup L!ConsumerOwns
      /\ L!ProducerOwns \cap L!ConsumerOwns = {}
      /\ lpc[Producer] = "walk" => program = "pth_cond_test.c" /\ \E k \in 1..m : cur = s[k]
      /\ program = "pth_cond_test.c" /\ lpc[Producer] \in {"lock", "link", "walk"} => next[mp] = 0
  BY DEF LHeap
<1>3. /\ L!ProducerOwns = IF lpc[Producer] \in {"lock", "link", "walk"} THEN {mp} ELSE {}
      /\ L!ConsumerOwns = IF lpc[Consumer] \in {"unlock", "print", "free"} THEN {cmp} ELSE {}
      /\ L!ProducerOwns' = IF lpc'[Producer] \in {"lock", "link", "walk"} THEN {mp'} ELSE {}
      /\ L!ConsumerOwns' = IF lpc'[Consumer] \in {"unlock", "print", "free"} THEN {cmp'} ELSE {}
  BY DEF L!ProducerOwns, L!ConsumerOwns
<1>s. ASSUME NEW t \in {Producer, Consumer}, NEW q, NEW k, L!Step(t, q, k)
      PROVE  /\ lpc[t] = q /\ lpc'[t] = k
             /\ \A u \in {Producer, Consumer} \ {t} : lpc'[u] = lpc[u]
  BY <1>s DEF L!Step, LPlaces
<1>p. LPlaces
  OBVIOUS
(* The list stays as it is.                                                *)
<1>l. ASSUME head' = head, \A k \in 1..m : next'[s[k]] = next[s[k]] PROVE LList(m, s)'
  BY <1>1, <1>l DEF LList
<1>h. ASSUME UNCHANGED <<head, next, heap, mp>>, UNCHANGED <<L!ProducerOwns, L!ConsumerOwns>>,
             lpc'[Producer] \in {"lock", "link", "walk"} =>
                lpc[Producer] \in {"lock", "link", "walk"},
             lpc'[Producer] = "walk" => program = "pth_cond_test.c" /\ \E k \in 1..m : cur' = s[k]
      PROVE  LList(m, s)' /\ LHeap(m, s)'
  <2>1. LList(m, s)'
    BY <1>h, <1>l
  <2>2. LHeap(m, s)'
    BY <1>2, <1>h DEF LHeap
  <2> QED
    BY <2>1, <2>2
<1>g. ASSUME UNCHANGED <<num, ln, lconsumed, mp, cmp>>,
             \/ lpc'[Producer] = lpc[Producer]
             \/ /\ lpc[Producer] \in {"lock", "link", "walk"}
                /\ lpc'[Producer] \in {"lock", "link", "walk"}
             \/ /\ lpc[Producer] \in {"unlock", "signal"}
                /\ lpc'[Producer] \in {"signal", "malloc"},
             \/ lpc'[Consumer] = lpc[Consumer]
             \/ /\ lpc[Consumer] \in {"lock", "test", "wait"}
                /\ lpc'[Consumer] \in {"lock", "test", "wait"}
             \/ lpc[Consumer] = "unlock" /\ lpc'[Consumer] = "print"
      PROVE  UNCHANGED <<num, ln, lconsumed, L!pending, L!unlinkedNew>>
  BY <1>g DEF L!pending, L!unlinkedNew
<1>4. CASE UNCHANGED lvars
  <2>1. LList(m, s)' /\ LHeap(m, s)'
    BY <1>2, <1>3, <1>4, <1>h DEF lvars
  <2> QED
    BY <1>4, <1>g, <2>1 DEF lvars, LMoved
<1>5. CASE L!Malloc
  <2>1. /\ lpc[Producer] = "malloc" /\ lpc'[Producer] = "lock" /\ lpc'[Consumer] = lpc[Consumer]
        /\ head' = head /\ cmp' = cmp
    BY <1>s, <1>5 DEF L!Malloc
  <2>2. PICK x \in L!Cells \ heap :
                 \E garbage \in IF program = "pth_cond_test.c" THEN {0} ELSE {0, x} :
          next' = [next EXCEPT ![x] = garbage] /\ mp' = x /\ heap' = heap \cup {x}
    BY <1>5 DEF L!Malloc
  <2>3. \A k \in 1..m : next'[s[k]] = next[s[k]] /\ s[k] # x
    BY <1>1, <1>2, <2>2
  <2>4. L!ProducerOwns = {} /\ L!ProducerOwns' = {x} /\ L!ConsumerOwns' = L!ConsumerOwns
    BY <1>3, <2>1, <2>2
  <2>5. x \notin L!ConsumerOwns
    BY <1>2, <2>2
  <2>6. program = "pth_cond_test.c" => next'[mp'] = 0
    BY <1>1, <2>2
  <2>7. LList(m, s)'
    BY <1>l, <2>1, <2>3
  <2>8. LHeap(m, s)'
    BY <1>2, <2>1, <2>2, <2>3, <2>4, <2>5, <2>6 DEF LHeap
  <2> QED
    BY <1>5, <2>7, <2>8 DEF LMoved
<1>6. CASE L!ProducerLock
  <2>1. lpc[Producer] = "lock" /\ lpc'[Producer] = "link" /\ lpc'[Consumer] = lpc[Consumer]
    BY <1>s, <1>6 DEF L!ProducerLock
  <2>2. LList(m, s)' /\ LHeap(m, s)'
    BY <1>3, <1>6, <1>h, <2>1 DEF L!ProducerLock
  <2> QED
    BY <1>6, <1>g, <2>1, <2>2 DEF L!ProducerLock, LMoved
<1>7. CASE L!StartWalk
  <2>1. /\ lpc[Producer] = "link" /\ lpc'[Producer] = "walk" /\ lpc'[Consumer] = lpc[Consumer]
        /\ program = "pth_cond_test.c" /\ head # 0 /\ cur' = head
    BY <1>s, <1>7 DEF L!StartWalk
  <2>2. 1 \in 1..m /\ cur' = s[1]
    BY <1>1, <2>1
  <2>3. LList(m, s)' /\ LHeap(m, s)'
    BY <1>3, <1>7, <1>h, <2>1, <2>2 DEF L!StartWalk
  <2> QED
    BY <1>7, <1>g, <2>1, <2>3 DEF L!StartWalk, LMoved
<1>8. CASE L!Walk
  <2>1. lpc[Producer] = "walk" /\ lpc' = lpc /\ next[cur] # 0 /\ cur' = next[cur]
    BY <1>8 DEF L!Walk
  <2>2. PICK k \in 1..m : cur = s[k]
    BY <1>2, <2>1
  <2>3. k \in 1..m-1 /\ k + 1 \in 1..m
    BY <1>1, <2>1, <2>2
  <2>4. cur' = s[k+1]
    BY <1>1, <2>1, <2>2, <2>3
  <2>5. LList(m, s)' /\ LHeap(m, s)'
    BY <1>2, <1>3, <1>8, <1>h, <2>1, <2>3, <2>4 DEF L!Walk
  <2> QED
    BY <1>8, <1>g, <2>1, <2>5 DEF L!Walk, LMoved
<1>9. CASE L!ProducerUnlock \/ L!Signal
  <2>1. /\ lpc[Producer] \in {"unlock", "signal"} /\ lpc'[Producer] \in {"signal", "malloc"}
        /\ \/ lpc'[Consumer] = lpc[Consumer]
           \/ lpc[Consumer] = "wait" /\ lpc'[Consumer] = "lock"
        /\ UNCHANGED <<head, next, heap, mp, cmp, num, ln, lconsumed>>
    <3>1. CASE L!ProducerUnlock
      BY <1>s, <3>1 DEF L!ProducerUnlock
    <3>2. CASE L!Signal
      BY <1>p, <3>2 DEF L!Signal, LPlaces
    <3> QED
      BY <1>9, <3>1, <3>2
  <2>2. LList(m, s)' /\ LHeap(m, s)'
    BY <1>3, <1>h, <2>1
  <2> QED
    BY <1>g, <2>1, <2>2 DEF LMoved
<1>10. CASE L!ConsumerLock \/ L!Wait \/ L!SpuriousWakeup \/ L!ConsumerUnlock \/ L!PrintNode
  <2>1. /\ lpc'[Producer] = lpc[Producer] /\ UNCHANGED <<head, next, heap, mp, cmp, cur>>
        /\ \/ /\ lpc[Consumer] \in {"lock", "test", "wait"}
              /\ lpc'[Consumer] \in {"test", "wait", "lock"}
           \/ lpc[Consumer] \in {"unlock", "print"} /\ lpc'[Consumer] \in {"print", "free"}
    BY <1>s, <1>10 DEF L!ConsumerLock, L!Wait, L!SpuriousWakeup, L!ConsumerUnlock, L!PrintNode
  <2>2. LList(m, s)' /\ LHeap(m, s)'
    BY <1>2, <1>3, <1>h, <2>1
  <2>3. \/ L!PrintNode
        \/ /\ UNCHANGED <<num, ln, lconsumed>>
           /\ \/ /\ lpc[Consumer] \in {"lock", "test", "wait"}
                 /\ lpc'[Consumer] \in {"lock", "test", "wait"}
              \/ lpc[Consumer] = "unlock" /\ lpc'[Consumer] = "print"
    BY <1>s, <1>10 DEF L!ConsumerLock, L!Wait, L!SpuriousWakeup, L!ConsumerUnlock
  <2> QED
    BY <1>g, <2>1, <2>2, <2>3 DEF LMoved
<1>11. CASE L!Free
  <2>1. /\ lpc[Consumer] = "free" /\ lpc'[Consumer] = "lock" /\ lpc'[Producer] = lpc[Producer]
        /\ heap' = heap \ {cmp} /\ next' = [next EXCEPT ![cmp] = 0]
        /\ UNCHANGED <<head, mp, cur>>
    BY <1>s, <1>11 DEF L!Free
  <2>2. /\ L!ConsumerOwns = {cmp} /\ L!ConsumerOwns' = {} /\ L!ProducerOwns' = L!ProducerOwns
    BY <1>3, <2>1
  <2>3. \A k \in 1..m : next'[s[k]] = next[s[k]] /\ s[k] # cmp
    BY <1>1, <1>2, <2>1, <2>2
  <2>4. lpc[Producer] \in {"lock", "link", "walk"} => mp # cmp /\ next'[mp] = next[mp]
    BY <1>1, <1>2, <1>3, <2>1, <2>2
  <2>5. LList(m, s)'
    BY <1>l, <2>1, <2>3
  <2>6. LHeap(m, s)'
    BY <1>2, <2>1, <2>2, <2>3, <2>4 DEF LHeap
  <2> QED
    BY <1>11, <2>5, <2>6 DEF LMoved
<1>12. CASE L!LinkAtHead
  <2>1. /\ lpc[Producer] = "link" /\ lpc'[Producer] = "unlock" /\ lpc'[Consumer] = lpc[Consumer]
        /\ next' = [next EXCEPT ![mp] = head] /\ head' = mp
        /\ UNCHANGED <<heap, mp, cmp>>
    BY <1>s, <1>12 DEF L!LinkAtHead
  <2>2. /\ L!ProducerOwns = {mp} /\ L!ProducerOwns' = {} /\ L!ConsumerOwns' = L!ConsumerOwns
        /\ mp \in L!Cells /\ \A k \in 1..m : s[k] # mp
    BY <1>1, <1>2, <1>3, <2>1
  <2>3. m + 1 \in 0..MaxNodes /\ m \in Nat
    <3>1. m + 1 \in 0..MaxNodes
      BY <2>2, LRoom
    <3> QED
      BY <1>1, <3>1
  <2>w. PICK w : w = LAhead(m, s, mp)
    OBVIOUS
  <2>4. /\ w \in [1..m+1 -> L!Cells] /\ w[1] = mp
        /\ \A k \in 2..m+1 : w[k] = s[k-1] /\ k - 1 \in 1..m
        /\ \A k \in 1..m+1 : k = 1 \/ k \in 2..m+1
    BY <1>1, <2>w, <2>1, <2>2, <2>3 DEF LAhead
  <2>5. \A j, k \in 1..m+1 : w[j] = w[k] => j = k
    <3> SUFFICES ASSUME NEW j \in 1..m+1, NEW k \in 1..m+1, w[j] = w[k] PROVE j = k
      OBVIOUS
    <3>1. CASE j = 1 /\ k \in 2..m+1
      BY <2>2, <2>4, <3>1
    <3>2. CASE k = 1 /\ j \in 2..m+1
      BY <2>2, <2>4, <3>2
    <3>3. CASE j \in 2..m+1 /\ k \in 2..m+1
      <4>1. s[j-1] = s[k-1] /\ j - 1 \in 1..m /\ k - 1 \in 1..m
        BY <2>4, <3>3
      <4>2. j - 1 = k - 1
        BY <1>1, <4>1
      <4> QED
        BY <3>3, <4>2
    <3> QED
      BY <2>4, <3>1, <3>2, <3>3
  <2>6. next'[w[m+1]] = 0
    <3>1. CASE m = 0
      BY <1>1, <2>1, <2>2, <2>4, <3>1
    <3>2. CASE m > 0
      <4>1. w[m+1] = s[m] /\ m \in 1..m /\ s[m] # mp
        BY <2>2, <2>3, <2>4, <3>2
      <4> QED
        BY <1>1, <2>1, <3>2, <4>1
    <3> QED
      BY <2>3, <3>1, <3>2
  <2>7. \A k \in 1..m : next'[w[k]] = w[k+1]
    <3> SUFFICES ASSUME NEW k \in 1..m PROVE next'[w[k]] = w[k+1]
      OBVIOUS
    <3>1. k + 1 \in 2..m+1 /\ w[k+1] = s[k]
      BY <2>3, <2>4
    <3>2. CASE k = 1
      BY <1>1, <2>1, <2>2, <2>4, <3>1, <3>2
    <3>3. CASE k \in 2..m+1
      <4>1. k - 1 \in 1..m-1 /\ w[k] = s[k-1] /\ s[k-1] # mp /\ s[k-1] \in L!Cells
        BY <1>1, <2>2, <2>3, <2>4, <3>3
      <4>2. next[s[k-1]] = s[k]
        BY <1>1, <4>1
      <4> QED
        BY <1>1, <2>1, <3>1, <4>1, <4>2
    <3>4. k = 1 \/ k \in 2..m+1
      BY <2>3
    <3> QED
      BY <3>2, <3>3, <3>4
  <2>8. LList(m + 1, w)'
    <3>1. m + 1 # 0 /\ (m + 1) - 1 = m
      BY <2>3
    <3> QED
      BY <2>1, <2>3, <2>4, <2>5, <2>6, <2>7, <3>1 DEF LList
  <2>9. {w[k] : k \in 1..m+1} = {s[k] : k \in 1..m} \cup {mp}
    <3>1. \A k \in 1..m : k + 1 \in 2..m+1 /\ w[k+1] = s[k]
      BY <2>3, <2>4
    <3> QED
      BY <2>3, <2>4, <3>1
  <2>10. \A k \in 1..m+1 : w[k] \notin L!ConsumerOwns
    BY <1>2, <2>2, <2>4
  <2>11. LHeap(m + 1, w)'
    BY <1>2, <2>1, <2>2, <2>4, <2>9, <2>10 DEF LHeap
  <2> QED
    BY <1>12, <2>w, <2>8, <2>11 DEF LMoved
<1>13. CASE L!LinkFirst \/ L!LinkLast
  <2>1. /\ lpc[Producer] \in {"link", "walk"} /\ lpc'[Producer] = "unlock"
        /\ lpc'[Consumer] = lpc[Consumer] /\ UNCHANGED <<heap, mp, cmp>>
        /\ \/ head = 0 /\ head' = mp /\ next' = next /\ program = "pth_cond_test.c"
           \/ /\ lpc[Producer] = "walk" /\ next[cur] = 0 /\ head' = head
              /\ next' = [next EXCEPT ![cur] = mp]
    BY <1>s, <1>13 DEF L!LinkFirst, L!LinkLast
  <2>2. /\ L!ProducerOwns = {mp} /\ L!ProducerOwns' = {} /\ L!ConsumerOwns' = L!ConsumerOwns
        /\ mp \in L!Cells /\ next[mp] = 0 /\ \A k \in 1..m : s[k] # mp
    BY <1>1, <1>2, <1>3, <2>1
  <2>3. m + 1 \in 0..MaxNodes /\ m \in Nat
    <3>1. m + 1 \in 0..MaxNodes
      BY <2>2, LRoom
    <3> QED
      BY <1>1, <3>1
  <2>w. PICK w : w = LLonger(m, s, mp)
    OBVIOUS
  <2>4. /\ w \in [1..m+1 -> L!Cells] /\ w[m+1] = mp /\ m + 1 \in 1..m+1
        /\ \A k \in 1..m : w[k] = s[k] /\ k \in 1..m+1
        /\ \A k \in 1..m+1 : k = m + 1 \/ k \in 1..m
    BY <1>1, <2>w, <2>1, <2>2, <2>3 DEF LLonger
  <2>5. \A j, k \in 1..m+1 : w[j] = w[k] => j = k
    <3> SUFFICES ASSUME NEW j \in 1..m+1, NEW k \in 1..m+1, w[j] = w[k] PROVE j = k
      OBVIOUS
    <3>1. CASE j \in 1..m /\ k \in 1..m
      <4>1. s[j] = s[k]
        BY <2>4, <3>1
      <4> QED
        BY <1>1, <3>1, <4>1
    <3>2. CASE j = m + 1 /\ k \in 1..m
      BY <2>2, <2>4, <3>2
    <3>3. CASE k = m + 1 /\ j \in 1..m
      BY <2>2, <2>4, <3>3
    <3> QED
      BY <2>4, <3>1, <3>2, <3>3
  <2>m. m + 1 # 0 /\ (m + 1) - 1 = m
    BY <2>3
  <2>6. ASSUME head = 0, head' = mp, next' = next PROVE LList(m + 1, w)'
    <3>1. m = 0
      <4>1. m > 0 => 1 \in 1..m /\ s[1] # 0
        BY <1>1
      <4> QED
        BY <1>1, <2>6, <4>1
    <3>2. w[1] = mp /\ \A k \in 1..m : FALSE
      BY <2>4, <3>1
    <3>3. next'[w[m+1]] = 0 /\ head' = w[1]
      BY <2>2, <2>4, <2>6, <3>2
    <3> QED
      BY <2>3, <2>4, <2>5, <2>m, <3>2, <3>3 DEF LList
  <2>7. ASSUME lpc[Producer] = "walk", next[cur] = 0, head' = head,
               next' = [next EXCEPT ![cur] = mp]
        PROVE  LList(m + 1, w)'
    <3>1. PICK k \in 1..m : cur = s[k]
      BY <1>2, <2>7
    <3>2. k = m /\ m > 0
      <4>1. k \notin 1..m-1
        <5>1. \A j \in 1..m : s[j] # 0
          BY <1>1
        <5>2. ASSUME k \in 1..m-1 PROVE FALSE
          <6>1. k + 1 \in 1..m /\ next[s[k]] = s[k+1]
            BY <1>1, <5>2
          <6> QED
            BY <2>7, <3>1, <5>1, <6>1
        <5> QED
          BY <5>2
      <4> QED
        BY <2>3, <4>1
    <3>3. /\ next' = [next EXCEPT ![s[m]] = mp] /\ s[m] \in L!Cells /\ s[m] # mp
          /\ head' = w[1]
      BY <1>1, <2>2, <2>3, <2>4, <2>7, <3>1, <3>2
    <3>4. \A j \in 1..m : next'[w[j]] = w[j+1]
      <4> SUFFICES ASSUME NEW j \in 1..m PROVE next'[w[j]] = w[j+1]
        OBVIOUS
      <4>1. CASE j = m
        BY <1>1, <2>4, <3>3, <4>1
      <4>2. CASE j \in 1..m-1
        <5>1. /\ next[s[j]] = s[j+1] /\ j + 1 \in 1..m /\ s[j] # s[m] /\ s[j] \in L!Cells
              /\ w[j] = s[j]
          BY <1>1, <2>3, <2>4, <3>2, <4>2
        <5> QED
          BY <1>1, <2>4, <3>3, <5>1
      <4> QED
        BY <2>3, <4>1, <4>2
    <3>5. next'[w[m+1]] = 0
      BY <1>1, <2>2, <2>4, <3>3
    <3> QED
      BY <2>3, <2>4, <2>5, <2>m, <3>3, <3>4, <3>5 DEF LList
  <2>8. LList(m + 1, w)'
    <3>1. \/ head = 0 /\ head' = mp /\ next' = next
          \/ /\ lpc[Producer] = "walk" /\ next[cur] = 0 /\ head' = head
             /\ next' = [next EXCEPT ![cur] = mp]
      BY <2>1
    <3> QED
      BY <2>6, <2>7, <3>1
  <2>9. {w[k] : k \in 1..m+1} = {s[k] : k \in 1..m} \cup {mp}
    BY <2>3, <2>4
  <2>10. \A k \in 1..m+1 : w[k] \notin L!ConsumerOwns
    BY <1>2, <2>2, <2>4
  <2>11. LHeap(m + 1, w)'
    BY <1>2, <2>1, <2>2, <2>4, <2>9, <2>10 DEF LHeap
  <2> QED
    BY <1>13, <2>w, <2>8, <2>11 DEF LMoved
<1>14. CASE L!Unlink
  <2>1. /\ lpc[Consumer] = "test" /\ lpc'[Consumer] = "unlock" /\ lpc'[Producer] = lpc[Producer]
        /\ head # 0 /\ cmp' = head /\ head' = next[head] /\ UNCHANGED <<heap, mp, cur, next>>
    BY <1>s, <1>14 DEF L!Unlink
  <2>2. /\ m > 0 /\ m \in Nat /\ m - 1 \in 0..MaxNodes /\ head = s[1] /\ 1 \in 1..m
    BY <1>1, <2>1
  <2>3. /\ L!ConsumerOwns = {} /\ L!ConsumerOwns' = {s[1]} /\ L!ProducerOwns' = L!ProducerOwns
    BY <1>3, <2>1, <2>2
  <2>w. PICK w : w = LRest(m, s)
    OBVIOUS
  <2>4. /\ w \in [1..m-1 -> L!Cells]
        /\ \A k \in 1..m-1 : w[k] = s[k+1] /\ k + 1 \in 1..m
        /\ \A k \in 1..m : k # 1 => k - 1 \in 1..m-1 /\ w[k-1] = s[k]
    <3>1. \A k \in 1..m-1 : w[k] = s[k+1] /\ k + 1 \in 1..m
      BY <2>w, <2>2 DEF LRest
    <3>2. ASSUME NEW k \in 1..m, k # 1 PROVE k - 1 \in 1..m-1 /\ w[k-1] = s[k]
      <4>1. k - 1 \in 1..m-1 /\ (k - 1) + 1 = k
        BY <2>2, <3>2
      <4> QED
        BY <3>1, <4>1
    <3>3. w \in [1..m-1 -> L!Cells]
      BY <1>1, <2>w, <3>1 DEF LRest
    <3> QED
      BY <3>1, <3>2, <3>3
  <2>5. \A j, k \in 1..m-1 : w[j] = w[k] => j = k
    <3> SUFFICES ASSUME NEW j \in 1..m-1, NEW k \in 1..m-1, w[j] = w[k] PROVE j = k
      OBVIOUS
    <3>1. s[j+1] = s[k+1] /\ j + 1 \in 1..m /\ k + 1 \in 1..m
      BY <2>4
    <3>2. j + 1 = k + 1
      BY <1>1, <3>1
    <3> QED
      BY <3>2
  <2>6. ASSUME m = 1 PROVE LList(m - 1, w)'
    <3>1. head' = 0 /\ m - 1 = 0 /\ \A k \in 1..(m-1)-1 : FALSE
      BY <1>1, <2>1, <2>2, <2>6
    <3> QED
      BY <2>2, <2>4, <2>5, <3>1 DEF LList
  <2>7. ASSUME m > 1 PROVE LList(m - 1, w)'
    <3>1. 1 \in 1..m-1 /\ m - 1 \in 1..m-1 /\ (m - 1) + 1 = m
      BY <2>2, <2>7
    <3>2. head' = w[1] /\ next'[w[m-1]] = 0
      BY <1>1, <2>1, <2>2, <2>4, <3>1
    <3>3. \A k \in 1..(m-1)-1 : next'[w[k]] = w[k+1]
      <4> SUFFICES ASSUME NEW k \in 1..(m-1)-1 PROVE next'[w[k]] = w[k+1]
        OBVIOUS
      <4>1. k \in 1..m-1 /\ k + 1 \in 1..m-1 /\ next[s[k+1]] = s[(k+1)+1]
        BY <1>1, <2>2
      <4> QED
        BY <2>1, <2>4, <4>1
    <3> QED
      BY <2>2, <2>4, <2>5, <3>1, <3>2, <3>3 DEF LList
  <2>8. LList(m - 1, w)'
    <3>1. m = 1 \/ m > 1
      BY <2>2
    <3> QED
      BY <2>6, <2>7, <3>1
  <2>9. {s[k] : k \in 1..m} = {w[k] : k \in 1..m-1} \cup {s[1]}
    BY <2>2, <2>4
  <2>10. \A k \in 1..m-1 : w[k] # s[1] /\ w[k] \notin L!ProducerOwns
    <3> SUFFICES ASSUME NEW k \in 1..m-1 PROVE w[k] # s[1] /\ w[k] \notin L!ProducerOwns
      OBVIOUS
    <3>1. w[k] = s[k+1] /\ k + 1 \in 1..m /\ k + 1 # 1
      BY <2>4
    <3> QED
      BY <1>1, <1>2, <2>2, <3>1
  <2>11. lpc[Producer] # "walk"
    BY <2>1 DEF L!TypeOK
  <2>12. LHeap(m - 1, w)'
    <3>1. s[1] \notin L!ProducerOwns
      BY <1>2, <2>2
    <3>2. heap' = {w[k] : k \in 1..m-1} \cup L!ProducerOwns' \cup L!ConsumerOwns'
      BY <1>2, <2>1, <2>3, <2>9
    <3>3. program = "pth_cond_test.c" /\ lpc'[Producer] \in {"lock", "link", "walk"}
            => next'[mp'] = 0
      BY <1>2, <2>1
    <3> QED
      BY <2>1, <2>3, <2>10, <2>11, <3>1, <3>2, <3>3 DEF LHeap
  <2> QED
    BY <1>14, <2>w, <2>2, <2>8, <2>12 DEF LMoved
<1> QED
  BY <1>4, <1>5, <1>6, <1>7, <1>8, <1>9, <1>10, <1>11, <1>12, <1>13, <1>14
     DEF L!Next, L!producer, L!consumer

LEMMA LNext ==
  LInv /\ [L!Next]_lvars /\ program' = program => LInv'
<1> SUFFICES ASSUME LInv, [L!Next]_lvars, program' = program PROVE LInv'
  OBVIOUS
<1>1. L!TypeOK' /\ LPlaces' /\ L!NoLostWakeup'
  BY LNextTypeOK
<1>2. PICK m, s : LList(m, s) /\ LHeap(m, s)
  BY DEF LInv
<1>3. LMoved(m, s)
  BY <1>2, LNextList
<1>4. \E u, w : LList(u, w)' /\ LHeap(u, w)'
  BY <1>3 DEF LMoved
<1> QED
  BY <1>1, <1>4 DEF LInv

LEMMA LInOrder == LInv => L!HeapInOrder
<1> SUFFICES ASSUME LInv PROVE L!HeapInOrder
  OBVIOUS
<1>1. PICK m, s : LList(m, s) /\ LHeap(m, s)
  BY DEF LInv
<1>2. L!OnList = {s[k] : k \in 1..m} /\ L!node[MaxNodes] = L!NULL
  BY <1>1, LListIsListed DEF LListed
<1> QED
  BY <1>1, <1>2 DEF LHeap, L!HeapInOrder

(* The items from the unlinked one to the one not yet linked.              *)
LQueued(a, b, g) == a \o b \o g

LEMMA LItemTypes ==
  LInv => \A m, s : LList(m, s) /\ LHeap(m, s) =>
            /\ LLinked(m, s) \in Seq(L!Fifo!Items) /\ Len(LLinked(m, s)) = m
            /\ L!pending \in Seq(L!Fifo!Items) /\ L!unlinkedNew \in Seq(L!Fifo!Items)
<1> SUFFICES ASSUME LInv, NEW m, NEW s, LList(m, s), LHeap(m, s)
             PROVE  /\ LLinked(m, s) \in Seq(L!Fifo!Items) /\ Len(LLinked(m, s)) = m
                    /\ L!pending \in Seq(L!Fifo!Items) /\ L!unlinkedNew \in Seq(L!Fifo!Items)
  OBVIOUS
<1>1. /\ m \in 0..MaxNodes /\ MaxNodes \in Nat /\ s \in [1..m -> L!Cells]
      /\ num \in [L!Cells -> 0..MaxData-1]
  BY LTypes DEF LInv, LList, L!TypeOK
<1>2. \A k \in L!Cells : <<Producer, num[k]>> \in L!Fifo!Items
  BY <1>1 DEF L!Fifo!Items
<1>3. LLinked(m, s) \in [1..m -> L!Fifo!Items] /\ m \in Nat
  BY <1>1, <1>2 DEF LLinked, LItem
<1>4. LLinked(m, s) \in Seq(L!Fifo!Items) /\ Len(LLinked(m, s)) = m
  BY <1>3, FunctionIsSeq
<1>5. /\ lpc[Producer] \in {"lock", "link", "walk"} => mp \in L!Cells
      /\ lpc[Consumer] \in {"unlock", "print", "free"} => cmp \in L!Cells
  BY LOwned
<1>6. L!pending \in Seq(L!Fifo!Items) /\ L!unlinkedNew \in Seq(L!Fifo!Items)
  BY <1>2, <1>5 DEF L!pending, L!unlinkedNew
<1> QED
  BY <1>4, <1>6

(* Whenever malloc finds a cell, the nodes in use are fewer than the cells.*)
LEMMA LMallocRoom ==
  LInv => \A m, s : LList(m, s) /\ LHeap(m, s) /\ (\E x \in L!Cells : x \notin heap)
                    => Len(L!pending) + m < MaxNodes
<1> SUFFICES ASSUME LInv, NEW m, NEW s, LList(m, s), LHeap(m, s),
                    NEW x \in L!Cells, x \notin heap
             PROVE  Len(L!pending) + m < MaxNodes
  OBVIOUS
<1>1. /\ m \in Nat /\ MaxNodes \in Nat /\ s \in [1..m -> 1..MaxNodes] /\ x \in 1..MaxNodes
      /\ \A j, k \in 1..m : s[j] = s[k] => j = k
  BY LTypes DEF LList, L!Cells
<1> DEFINE U == 1..MaxNodes
           Chain == {s[k] : k \in 1..m}
<1>2. \A y : y \in Chain <=> \E k \in 1..m : s[k] = y
  OBVIOUS
<1>3. heap \in SUBSET U /\ Chain \in SUBSET heap /\ x \in U
  BY <1>1 DEF LInv, L!TypeOK, L!Cells, LHeap
<1>4. L!pending # <<>> => Len(L!pending) = 1 /\ cmp \in heap /\ cmp \notin Chain
  BY DEF L!pending, LHeap, L!ConsumerOwns
<1>5. L!pending = <<>> => Len(L!pending) = 0
  OBVIOUS
<1>6. IsFiniteSet(U) /\ Cardinality(U) = MaxNodes
  BY <1>1, FS_Interval
<1> HIDE DEF U, Chain
<1>7. IsFiniteSet(Chain) /\ Cardinality(Chain) = m
  <2>1. m \in Nat /\ s \in [1..m -> 1..MaxNodes]
    BY <1>1
  <2>2. \A j, k \in 1..m : s[j] = s[k] => j = k
    BY <1>1
  <2> QED
    BY <1>2, <2>1, <2>2, Distinct
<1>8. CASE L!pending = <<>>
  <2>1. Chain \in SUBSET U /\ x \notin Chain
    BY <1>3
  <2>2. Cardinality(U) >= m + 1
    BY <1>3, <1>6, <1>7, <2>1, Grown
  <2> QED
    BY <1>1, <1>5, <1>6, <1>8, <2>2
<1>9. CASE L!pending # <<>>
  <2> DEFINE W == Chain \cup {cmp}
  <2>1. W \in SUBSET U /\ x \notin W
    BY <1>3, <1>4, <1>9
  <2>2. Cardinality(W) = m + 1
    BY <1>4, <1>7, <1>9, FS_AddElement
  <2> HIDE DEF W
  <2>3. Cardinality(U) >= (m + 1) + 1
    BY <1>3, <1>6, <2>1, <2>2, Grown
  <2>4. Len(L!pending) = 1 /\ m \in Nat /\ MaxNodes \in Nat
    BY <1>1, <1>4, <1>9
  <2>5. MaxNodes >= (m + 1) + 1
    BY <1>6, <2>3
  <2> QED
    BY <2>4, <2>5
<1> QED
  BY <1>8, <1>9

(* Every step of pth_cond_test.c is a Put, a Take or nothing to            *)
(* BoundedFifo, wherever the list is in the middle of being changed.       *)
LEMMA LNextFifo ==
  /\ LInv /\ LInv' /\ LListed /\ LListed' /\ [L!Next]_lvars /\ program' = program
  => [L!Fifo!Next]_(L!Fifo!vars)
<1> SUFFICES ASSUME LInv, LInv', LListed, LListed', [L!Next]_lvars, program' = program
             PROVE  [L!Fifo!Next]_(L!Fifo!vars)
  OBVIOUS
<1>1. CASE program # "pth_cond_test.c"
  BY <1>1 DEF L!Fifo!vars
<1>2. CASE program = "pth_cond_test.c"
  <2>1. PICK m, s : LList(m, s) /\ LHeap(m, s)
    BY DEF LInv
  <2>2. LMoved(m, s)
    BY <2>1, LNextList
  <2> DEFINE Q == Seq(L!Fifo!Items)
             a == L!pending
             b == LLinked(m, s)
             g == L!unlinkedNew
             items == IF program = "pth_cond_test.c" THEN a \o L!linked \o g ELSE <<>>
             nexts == [t \in {Producer} |-> IF program = "pth_cond_test.c" THEN ln ELSE 0]
             takes == [t \in {Consumer} |-> IF program = "pth_cond_test.c" THEN lconsumed
                                         ELSE L!Nothing]
  <2>3. a \in Q /\ b \in Q /\ g \in Q /\ Len(b) = m /\ items = LQueued(a, b, g)
    BY <1>2, <2>1, LItemTypes DEF LListed, LQueued
  <2>4. ASSUME items' = items, UNCHANGED <<ln, lconsumed>> PROVE UNCHANGED L!Fifo!vars
    BY <2>4 DEF L!Fifo!vars
  <2>5. ASSUME NEW u, NEW w, LList(u, w)' PROVE items' = LQueued(a', LLinked(u, w)', g')
    BY <1>2, <2>5 DEF LListed, LQueued
  <2>6. /\ m \in Nat /\ s \in [1..m -> L!Cells] /\ num \in [L!Cells -> 0..MaxData-1]
        /\ lpc[Producer] \in {"lock", "link", "walk"} =>
              mp \in L!Cells /\ LItem(mp) \in L!Fifo!Items
        /\ lpc[Consumer] \in {"unlock", "print", "free"} =>
              cmp \in L!Cells /\ LItem(cmp) \in L!Fifo!Items
        /\ \A k \in 1..m : LItem(s[k]) \in L!Fifo!Items
        /\ <<Producer, ln>> \in L!Fifo!Items
    <3>1. /\ m \in Nat /\ s \in [1..m -> L!Cells] /\ num \in [L!Cells -> 0..MaxData-1]
          /\ ln \in 0..MaxData-1
      BY <2>1, LTypes DEF LList, LInv, L!TypeOK
    <3>2. \A k \in L!Cells : LItem(k) \in L!Fifo!Items
      BY <3>1 DEF LItem, L!Fifo!Items
    <3>3. <<Producer, ln>> \in L!Fifo!Items
      BY <3>1 DEF L!Fifo!Items
    <3>4. /\ lpc[Producer] \in {"lock", "link", "walk"} => mp \in L!Cells
          /\ lpc[Consumer] \in {"unlock", "print", "free"} => cmp \in L!Cells
      BY LOwned
    <3> QED
      BY <3>1, <3>2, <3>3, <3>4
  <2>7. LPlaces
    BY DEF LInv
  <2>q. ASSUME NEW e \in L!Fifo!Items
        PROVE  /\ LQueued(a, b \o <<e>>, <<>>) = LQueued(a, b, <<e>>)
               /\ LQueued(a, b, <<e>>) = Append(LQueued(a, b, <<>>), e)
               /\ Len(LQueued(a, b, <<>>)) = Len(a) + Len(b)
               /\ LQueued(<<e>>, b, g) # <<>> /\ Head(LQueued(<<e>>, b, g)) = e
               /\ Tail(LQueued(<<e>>, b, g)) = LQueued(<<>>, b, g)
    <3>a. PICK Items, u, v, w, y, z :
            Items = L!Fifo!Items /\ u = a /\ v = b /\ w = g /\ y = <<e>> /\ z = <<>>
      OBVIOUS
    <3>b. y = <<e>> /\ z = <<>>
      BY <3>a
    <3>1. /\ u \in Seq(Items) /\ v \in Seq(Items) /\ w \in Seq(Items) /\ e \in Items
          /\ y \in Seq(Items) /\ z \in Seq(Items) /\ Len(y) = 1 /\ y[1] = e
      <4>1. y \in Seq(Items) /\ z \in Seq(Items) /\ Len(y) = 1 /\ y[1] = e /\ e \in Items
        BY <3>a
      <4> HIDE DEF a, b, g
      <4> QED
        BY <2>3, <3>a, <4>1
    <3>2. /\ v \o y \in Seq(Items) /\ u \o v \in Seq(Items) /\ v \o w \in Seq(Items)
          /\ u \o (v \o y) \in Seq(Items) /\ Len(u \o v) = Len(u) + Len(v)
      BY <3>1, ConcatProperties
    <3>3. u \o (v \o y) \o z = u \o v \o y
      <4>1. u \o (v \o y) \o z = u \o (v \o y)
        BY <3>2, <3>b, ConcatEmptySeq
      <4>2. (u \o v) \o y = u \o (v \o y)
        BY <3>1, ConcatAssociative
      <4> QED
        BY <4>1, <4>2
    <3>4. z \o v = v /\ u \o v \o z = u \o v
      BY <3>1, <3>2, <3>b, ConcatEmptySeq
    <3>5. u \o v \o y = Append(u \o v, e)
      <4> DEFINE q == u \o v
      <4>1. q \in Seq(Items)
        BY <3>2
      <4>2. e \in Items
        BY <3>1
      <4> HIDE DEF q
      <4>3. q \o y = Append(q, e)
        BY <4>1, <4>2, <3>b, AppendIsConcat
      <4> QED
        BY <4>3 DEF q
    <3>6. y \o v \o w = y \o (v \o w)
      <4>1. y \in Seq(Items) /\ v \in Seq(Items) /\ w \in Seq(Items)
        BY <3>1
      <4> QED
        BY <4>1, ConcatAssociative
    <3>7. /\ y \o (v \o w) # z /\ Head(y \o (v \o w)) = e
          /\ Tail(y \o (v \o w)) = v \o w
      <4> DEFINE q == v \o w
                 r == y \o q
      <4>1. q \in Seq(Items) /\ Len(q) \in Nat
        BY <3>2, LenProperties
      <4> HIDE DEF q
      <4>t. y \in Seq(Items) /\ Len(y) = 1
        BY <3>1
      <4>2. /\ r \in Seq(Items) /\ Len(r) = 1 + Len(q)
            /\ \A k \in 1..1 + Len(q) : r[k] = IF k <= 1 THEN y[k] ELSE q[k-1]
        <5>1. y \in Seq(Items) /\ q \in Seq(Items)
          BY <4>t, <4>1
        <5>2. /\ r \in Seq(Items) /\ Len(r) = Len(y) + Len(q)
              /\ \A k \in 1..Len(y) + Len(q) :
                   r[k] = IF k <= Len(y) THEN y[k] ELSE q[k-Len(y)]
          BY <5>1, ConcatProperties
        <5> QED
          BY <4>t, <5>2
      <4>3. r[1] = e /\ r # z
        BY <3>1, <3>b, <4>1, <4>2
      <4> HIDE DEF r
      <4>4. Head(r) = e
        BY <3>b, <4>2, <4>3
      <4>5. /\ Tail(r) \in Seq(Items) /\ Len(Tail(r)) = Len(q)
            /\ \A k \in 1..Len(Tail(r)) : Tail(r)[k] = r[k+1]
        BY <3>b, <4>1, <4>2, <4>3, HeadTailProperties
      <4>6. \A k \in 1..Len(q) : r[k+1] = q[k]
        BY <4>1, <4>2
      <4>7. Tail(r) = q
        BY <4>1, <4>5, <4>6, SeqEqual
      <4> QED
        BY <4>3, <4>4, <4>7 DEF q, r
    <3>8. Tail(y \o v \o w) = z \o v \o w
      BY <3>4, <3>6, <3>7
    <3>9. /\ u \o (v \o y) \o z = u \o v \o y
          /\ u \o v \o y = Append(u \o v \o z, e)
          /\ Len(u \o v \o z) = Len(u) + Len(v)
          /\ y \o v \o w # z /\ Head(y \o v \o w) = e
          /\ Tail(y \o v \o w) = z \o v \o w
      BY <3>2, <3>3, <3>4, <3>5, <3>6, <3>7, <3>8
    <3> HIDE DEF a, b, g
    <3> QED
      BY <3>9, <3>a, Zenon DEF LQueued
  <2>8. CASE /\ L!LinkFirst \/ L!LinkLast
             /\ \E w : w = LLonger(m, s, mp) /\ LList(m + 1, w)' /\ LHeap(m + 1, w)'
    <3>1. PICK w : w = LLonger(m, s, mp) /\ LList(m + 1, w)'
      BY <2>8
    <3>2. /\ lpc[Producer] \in {"link", "walk"} /\ lpc'[Producer] = "unlock"
          /\ lpc'[Consumer] = lpc[Consumer]
          /\ UNCHANGED <<num, mp, cmp, ln, lconsumed>>
      BY <2>7, <2>8 DEF L!LinkFirst, L!LinkLast, L!Step, LPlaces
    <3>3. a' = a /\ g = <<LItem(mp)>> /\ g' = <<>>
      BY <3>2 DEF L!pending, L!unlinkedNew, LItem
    <3>4. LLinked(m + 1, w)' = b \o <<LItem(mp)>>
      <4>1. /\ LLinked(m + 1, w)' = [k \in 1..m+1 |-> IF k <= m THEN LItem(s[k]) ELSE LItem(mp)]
            /\ b = [k \in 1..m |-> LItem(s[k])]
        <5>1. \A k \in 1..m+1 : LItem(w[k])' = IF k <= m THEN LItem(s[k]) ELSE LItem(mp)
          BY <3>1, <3>2 DEF LLonger, LItem
        <5>2. LLinked(m + 1, w)' = [k \in 1..m+1 |-> LItem(w[k])']
          BY DEF LLinked
        <5> QED
          BY <5>1, <5>2 DEF LLinked
      <4>2. LLinked(m + 1, w)' = Append(b, LItem(mp))
        <5> DEFINE h == [k \in 1..m+1 |-> IF k <= m THEN LItem(s[k]) ELSE LItem(mp)]
        <5>1. /\ b \in [1..m -> L!Fifo!Items] /\ h \in [1..m+1 -> L!Fifo!Items]
              /\ h[m+1] = LItem(mp) /\ \A j \in 1..m : h[j] = b[j]
          BY <2>6, <3>2, <4>1
        <5> HIDE DEF h, b
        <5>2. h = Append(b, LItem(mp))
          BY <2>6, <3>2, <5>1, Appended
        <5> QED
          BY <4>1, <5>2 DEF h
      <4> QED
        BY <2>3, <2>6, <3>2, <4>2, AppendIsConcat
    <3>5. items' = items
      <4>1. LQueued(a, b \o <<LItem(mp)>>, <<>>) = LQueued(a, b, <<LItem(mp)>>)
        BY <2>6, <2>q, <3>2
      <4> QED
        BY <2>3, <2>5, <3>1, <3>3, <3>4, <4>1
    <3> QED
      BY <2>4, <3>2, <3>5
  <2>9. CASE /\ L!Unlink /\ m > 0 /\ head = s[1]
             /\ \E w : w = LRest(m, s) /\ LList(m - 1, w)' /\ LHeap(m - 1, w)'
    <3>1. PICK w : w = LRest(m, s) /\ LList(m - 1, w)'
      BY <2>9
    <3>2. /\ lpc[Consumer] = "test" /\ lpc'[Consumer] = "unlock"
          /\ lpc'[Producer] = lpc[Producer] /\ cmp' = s[1]
          /\ UNCHANGED <<num, mp, ln, lconsumed>>
      BY <2>7, <2>9 DEF L!Unlink, L!Step, LPlaces
    <3>3. a = <<>> /\ a' = <<LItem(s[1])>> /\ g' = g
      BY <3>2 DEF L!pending, L!unlinkedNew, LItem
    <3>4. b = <<LItem(s[1])>> \o LLinked(m - 1, w)' /\ LLinked(m - 1, w)' \in Q
      <4> DEFINE h == [k \in 1..m-1 |-> LItem(s[k+1])]
                 e == LItem(s[1])
      <4>1. LLinked(m - 1, w)' = h
        <5>1. \A k \in 1..m-1 : LItem(w[k])' = LItem(s[k+1])
          BY <3>1, <3>2 DEF LRest, LItem
        <5>2. LLinked(m - 1, w)' = [k \in 1..m-1 |-> LItem(w[k])']
          BY DEF LLinked
        <5> QED
          BY <5>1, <5>2
      <4>2. /\ m - 1 \in Nat /\ h \in [1..m-1 -> L!Fifo!Items] /\ e \in L!Fifo!Items
            /\ \A k \in 1..m : b[k] = IF k = 1 THEN e ELSE h[k-1]
        <5>1. \A k \in 1..m-1 : k + 1 \in 1..m
          BY <2>6
        <5>2. \A k \in 1..m : k # 1 => k - 1 \in 1..m-1 /\ (k - 1) + 1 = k
          BY <2>6
        <5> QED
          BY <2>6, <2>9, <5>1, <5>2 DEF LLinked
      <4> HIDE DEF h, e
      <4>3. h \in Q /\ Len(h) = m - 1 /\ <<e>> \in Q /\ Len(<<e>>) = 1
        BY <4>2, FunctionIsSeq
      <4> HIDE DEF b
      <4>4. b = <<e>> \o h
        <5>1. /\ <<e>> \o h \in Q /\ Len(<<e>> \o h) = 1 + (m - 1)
              /\ \A k \in 1..1 + (m - 1) : (<<e>> \o h)[k] = IF k <= 1 THEN <<e>>[k] ELSE h[k-1]
          BY <4>3, ConcatProperties
        <5>2. 1 + (m - 1) = m
          BY <2>6
        <5>3. \A k \in 1..m : b[k] = (<<e>> \o h)[k]
          BY <2>6, <4>2, <5>1, <5>2
        <5> QED
          BY <2>3, <5>1, <5>2, <5>3, SeqEqual
      <4> QED
        BY <4>1, <4>3, <4>4 DEF e
    <3>5. items' = items
      <4>1. LItem(s[1]) \in L!Fifo!Items
        BY <2>6, <2>9
      <4>2. LQueued(<<LItem(s[1])>>, LLinked(m - 1, w)', g)
              = LQueued(<<>>, <<LItem(s[1])>> \o LLinked(m - 1, w)', g)
        <5>1. PICK Items, u, v, w2 : /\ Items = L!Fifo!Items /\ u = <<LItem(s[1])>>
                                     /\ v = LLinked(m - 1, w)' /\ w2 = <<>>
          OBVIOUS
        <5>2. u \in Seq(Items) /\ v \in Seq(Items) /\ u \o v \in Seq(Items)
          BY <3>4, <4>1, <5>1, ConcatProperties
        <5>3. w2 \o (u \o v) = u \o v
          BY <5>1, <5>2, ConcatEmptySeq
        <5> HIDE DEF g
        <5> QED
          BY <5>1, <5>3 DEF LQueued
      <4> QED
        BY <2>3, <2>5, <3>1, <3>3, <3>4, <4>2
    <3> QED
      BY <2>4, <3>2, <3>5
  <2>10. CASE /\ \/ L!Malloc \/ L!PrintNode \/ L!Free
                 \/ UNCHANGED <<num, ln, lconsumed, L!pending, L!unlinkedNew>>
              /\ LList(m, s)' /\ LHeap(m, s)'
    <3>1. CASE L!Malloc
      <4>1. PICK x \in L!Cells \ heap :
              /\ mp' = x /\ num' = [num EXCEPT ![x] = ln] /\ ln' = (ln + 1) % MaxData
              /\ UNCHANGED <<cmp, lconsumed>>
        BY <3>1 DEF L!Malloc
      <4>2. /\ lpc[Producer] = "malloc" /\ lpc'[Producer] = "lock" /\ lpc'[Consumer] = lpc[Consumer]
        BY <2>7, <3>1, LTypes DEF L!Malloc, L!Step, LPlaces
      <4>3. \A k \in 1..m : LItem(s[k])' = LItem(s[k])
        BY <2>1, <2>6, <4>1 DEF LItem, LHeap
      <4>4. LLinked(m, s)' = b
        BY <4>3 DEF LLinked
      <4>5. g = <<>> /\ g' = <<<<Producer, ln>>>>
        BY <2>6, <4>1, <4>2 DEF L!unlinkedNew
      <4>6. a' = a
        <5>1. lpc[Consumer] \in {"unlock", "print"} => cmp \in heap /\ num'[cmp] = num[cmp]
          BY <2>1, <2>6, <4>1 DEF LHeap, L!ConsumerOwns
        <5> QED
          BY <4>1, <4>2, <5>1 DEF L!pending
      <4>7. items' = Append(items, <<Producer, ln>>) /\ Len(items) = Len(a) + m
        <5>1. /\ LQueued(a, b, <<<<Producer, ln>>>>) = Append(LQueued(a, b, <<>>), <<Producer, ln>>)
              /\ Len(LQueued(a, b, <<>>)) = Len(a) + Len(b)
          BY <2>6, <2>q
        <5> QED
          BY <2>3, <2>5, <2>10, <4>4, <4>5, <4>6, <5>1
      <4>8. Len(items) < MaxNodes
        BY <2>1, <4>1, <4>7, LMallocRoom
      <4>9. L!Fifo!Put(Producer)
        BY <1>2, <4>1, <4>7, <4>8 DEF L!Fifo!Put
      <4> QED
        BY <4>9 DEF L!Fifo!Next
    <3>2. CASE L!PrintNode
      <4>1. /\ lpc[Consumer] = "print" /\ lpc'[Consumer] = "free" /\ lpc'[Producer] = lpc[Producer]
            /\ lconsumed' = LItem(cmp) /\ UNCHANGED <<num, mp, cmp, ln>>
        BY <2>7, <3>2, LTypes DEF L!PrintNode, L!Step, LPlaces, LItem
      <4>2. a = <<LItem(cmp)>> /\ a' = <<>> /\ g' = g
        BY <4>1 DEF L!pending, L!unlinkedNew, LItem
      <4>3. LLinked(m, s)' = b
        BY <4>1 DEF LLinked, LItem
      <4>4. items # <<>> /\ Head(items) = LItem(cmp) /\ items' = Tail(items)
        <5>1. LItem(cmp) \in L!Fifo!Items
          BY <2>6, <4>1
        <5>2. /\ LQueued(<<LItem(cmp)>>, b, g) # <<>>
              /\ Head(LQueued(<<LItem(cmp)>>, b, g)) = LItem(cmp)
              /\ Tail(LQueued(<<LItem(cmp)>>, b, g)) = LQueued(<<>>, b, g)
          BY <2>q, <5>1
        <5> QED
          BY <2>3, <2>5, <2>10, <4>2, <4>3, <5>2
      <4>5. L!Fifo!Take(Consumer)
        BY <1>2, <4>1, <4>4 DEF L!Fifo!Take
      <4> QED
        BY <4>5 DEF L!Fifo!Next
    <3>3. CASE L!Free
      <4>1. /\ lpc[Consumer] = "free" /\ lpc'[Consumer] = "lock" /\ lpc'[Producer] = lpc[Producer]
            /\ num' = [num EXCEPT ![cmp] = 0] /\ UNCHANGED <<mp, ln, lconsumed>>
        BY <2>7, <3>3, LTypes DEF L!Free, L!Step, LPlaces
      <4>2. L!ConsumerOwns = {cmp}
        BY <4>1 DEF L!ConsumerOwns
      <4>3. \A k \in 1..m : LItem(s[k])' = LItem(s[k])
        BY <2>1, <2>6, <4>1, <4>2 DEF LItem, LHeap
      <4>4. LLinked(m, s)' = b
        BY <4>3 DEF LLinked
      <4>5. g' = g
        <5>1. lpc[Producer] \in {"lock", "link", "walk"} => num'[mp] = num[mp]
          BY <2>1, <2>6, <4>1, <4>2 DEF LHeap, L!ProducerOwns
        <5> QED
          BY <4>1, <5>1 DEF L!unlinkedNew
      <4>6. a = <<>> /\ a' = <<>>
        BY <4>1 DEF L!pending
      <4>7. items' = items
        BY <2>3, <2>5, <2>10, <4>4, <4>5, <4>6
      <4> QED
        BY <2>4, <4>1, <4>7
    <3>4. CASE UNCHANGED <<num, ln, lconsumed, L!pending, L!unlinkedNew>>
      <4>1. LLinked(m, s)' = b
        BY <3>4 DEF LLinked, LItem
      <4>2. items' = items
        BY <2>3, <2>5, <2>10, <3>4, <4>1
      <4> QED
        BY <2>4, <3>4, <4>2
    <3> QED
      BY <2>10, <3>1, <3>2, <3>3, <3>4
  <2> QED
    BY <1>2, <2>2, <2>8, <2>9, <2>10 DEF LMoved, L!LinkAtHead
<1> QED
  BY <1>1, <1>2

(* No item before the first malloc.                                        *)
LEMMA LFifoInit == L!Init /\ LListed => L!Fifo!Init
<1> SUFFICES ASSUME L!Init, LListed PROVE L!Fifo!Init
  OBVIOUS
<1> USE LTypes DEF L!Init, L!NULL
<1>1. LList(0, <<>>)
  BY DEF LList, L!Cells
<1>2. L!linked = <<>>
  <2>1. L!linked = LLinked(0, <<>>)
    BY <1>1 DEF LListed
  <2> QED
    BY <2>1 DEF LLinked
<1>3. L!pending = <<>> /\ L!unlinkedNew = <<>>
  BY DEF L!pending, L!unlinkedNew
<1> QED
  BY <1>2, <1>3 DEF L!Fifo!Init, L!Nothing, L!Fifo!NoItem

-----------------------------------------------------------------------------
(* pth_mysem.c                                                             *)

(* The range of the counts, and the two threads apart.                     *)
LEMMA MTypes == /\ 0 \in -MaxDrift..NUM + MaxDrift /\ NUM \in -MaxDrift..NUM + MaxDrift
                /\ NUM \in Nat /\ MaxDrift \in Nat /\ MaxSpurious \in Nat
                /\ \A q \in M!Threads : M!Waits(q) \in M!Sems /\ M!Posts(q) \in M!Sems
                /\ Nobody \notin M!Threads
  BY ThreadProgramsAssumption DEF M!Threads, M!Sems, M!Waits, M!Posts

LEMMA MInit == M!Init => M!TypeOK
  BY MTypes DEF M!Init, M!TypeOK, M!Labels, M!Sems

LEMMA MNext == M!TypeOK /\ [M!Next]_mvars => M!TypeOK'
<1> DEFINE Owning == {"wait", "unlock", "postload", "poststore", "postunlock"}
           Counts == -MaxDrift..NUM + MaxDrift
<1> SUFFICES ASSUME M!TypeOK, [M!Next]_mvars PROVE M!TypeOK'
  OBVIOUS
<1>1. /\ limit_book \in [M!Sems -> Counts] /\ val \in [M!Threads -> Counts]
      /\ mmutex \in M!Threads \cup {Nobody} /\ mpc \in [M!Threads -> M!Labels]
      /\ mspurious \in 0..MaxSpurious
      /\ \A t \in M!Threads : mmutex = t <=> mpc[t] \in Owning
  BY DEF M!TypeOK
<1>2. CASE UNCHANGED mvars \/ M!Stuck
  BY <1>1, <1>2 DEF mvars, M!vars, M!Stuck, M!TypeOK
<1>3. ASSUME NEW q \in M!Threads, M!thread(q) \/ M!SpuriousWakeup(q) PROVE M!TypeOK'
  <2> USE DEF M!Labels, M!Step
  <2>1. mspurious' \in 0..MaxSpurious
    BY <1>1, <1>3, MTypes DEF M!thread, M!SpuriousWakeup
  <2>2. CASE M!Test(q)
    BY <1>1, <2>1, <2>2 DEF M!Test, M!TypeOK
  <2>3. CASE M!Lock(q)
    <3>1. /\ mmutex = Nobody /\ mmutex' = q /\ UNCHANGED <<limit_book, val>>
          /\ mpc' \in [M!Threads -> M!Labels] /\ mpc'[q] \in Owning
          /\ \A t \in M!Threads \ {q} : mpc'[t] = mpc[t]
      BY <1>1, <2>3 DEF M!Lock
    <3>2. \A t \in M!Threads : mmutex' = t <=> mpc'[t] \in Owning
      BY <1>1, <3>1, MTypes
    <3> QED
      BY <1>1, <2>1, <3>1, <3>2 DEF M!TypeOK
  <2>4. CASE M!Wait(q) \/ M!Unlock(q)
    <3>1. /\ mmutex' = Nobody /\ UNCHANGED <<limit_book, val>>
          /\ mpc[q] \in Owning /\ mpc'[q] \notin Owning
          /\ mpc' \in [M!Threads -> M!Labels]
          /\ \A t \in M!Threads \ {q} : mpc'[t] = mpc[t]
      BY <1>1, <2>4 DEF M!Wait, M!Unlock
    <3>2. \A t \in M!Threads : mmutex' = t <=> mpc'[t] \in Owning
      BY <1>1, <3>1, MTypes
    <3> QED
      BY <1>1, <2>1, <3>1, <3>2 DEF M!TypeOK
  <2>5. CASE M!Load(q)
    <3>1. limit_book[M!Waits(q)] \in Counts /\ limit_book[M!Posts(q)] \in Counts
      BY <1>1, MTypes
    <3> QED
      BY <1>1, <2>1, <2>5, <3>1 DEF M!Load, M!TypeOK
  <2>6. CASE M!Store(q)
    <3>1. val[q] - 1 \in Counts
      BY <1>1, <2>6, MTypes DEF M!Store
    <3>2. limit_book' \in [M!Sems -> Counts]
      BY <1>1, <2>6, <3>1 DEF M!Store
    <3> QED
      BY <1>1, <2>1, <2>6, <3>2 DEF M!Store, M!TypeOK
  <2>7. CASE M!Use(q)
    BY <1>1, <2>1, <2>7 DEF M!Use, M!TypeOK
  <2>8. CASE M!PostStore(q)
    <3>1. val[q] + 1 \in Counts
      BY <1>1, <2>8, MTypes DEF M!PostStore
    <3>2. limit_book' \in [M!Sems -> Counts]
      BY <1>1, <2>8, <3>1 DEF M!PostStore
    <3> QED
      BY <1>1, <2>1, <2>8, <3>2 DEF M!PostStore, M!TypeOK
  <2>9. CASE M!Signal(q)
    <3>1. PICK woken \in M!Wakeable(M!resource) :
            mpc' = M!AfterSignal(mpc, q, "test", woken, "relock")
      BY <2>9 DEF M!Signal
    <3>2. \A t \in woken : mpc[t] = "asleep"
      BY DEF M!Wakeable, M!resource
    <3>3. \A t \in M!Threads : mpc'[t] = IF t = q THEN "test"
                                         ELSE IF t \in woken THEN "relock" ELSE mpc[t]
      BY <1>1, <3>1 DEF M!AfterSignal
    <3>4. mpc' \in [M!Threads -> M!Labels]
      BY <1>1, <3>1, <3>3 DEF M!AfterSignal
    <3>5. \A t \in M!Threads : mpc'[t] \in Owning <=> mpc[t] \in Owning
      BY <2>9, <3>2, <3>3 DEF M!Signal
    <3> QED
      BY <1>1, <2>1, <2>9, <3>4, <3>5 DEF M!Signal, M!TypeOK
  <2>10. CASE M!SpuriousWakeup(q)
    BY <1>1, <2>1, <2>10 DEF M!SpuriousWakeup, M!TypeOK
  <2> QED
    BY <1>3, <2>2, <2>3, <2>4, <2>5, <2>6, <2>7, <2>8, <2>9, <2>10 DEF M!thread
<1> QED
  BY <1>2, <1>3 DEF M!Next

-----------------------------------------------------------------------------
(* The programs side by side: a step of one is a stutter of the others.    *)
LEMMA Frame ==
  [Next]_vars => /\ program' = program
                 /\ [T!Next]_tvars /\ [C!Next]_cvars /\ [R!Next]_rvars /\ [G!Next]_gvars
                 /\ [P!Next]_pvars /\ [S!Next]_svars /\ [M!Next]_mvars /\ [L!Next]_lvars
<1> SUFFICES ASSUME [Next]_vars
             PROVE  /\ program' = program
                    /\ [T!Next]_tvars /\ [C!Next]_cvars /\ [R!Next]_rvars /\ [G!Next]_gvars
                    /\ [P!Next]_pvars /\ [S!Next]_svars /\ [M!Next]_mvars /\ [L!Next]_lvars
  OBVIOUS
<1>1. CASE UNCHANGED vars
  BY <1>1 DEF vars
<1>2. CASE Pool(T!Next)
  BY <1>2 DEF Pool
<1>3. CASE PhilPro(C!Next)
  BY <1>3 DEF PhilPro
<1>4. CASE Ring(R!Next)
  BY <1>4 DEF Ring
<1>5. CASE Cond(G!Next)
  BY <1>5 DEF Cond
<1>6. CASE PhilProMutex(P!Next)
  BY <1>6 DEF PhilProMutex
<1>7. CASE Sem(S!Next)
  BY <1>7 DEF Sem
<1>8. CASE SemMy(M!Next)
  BY <1>8 DEF SemMy
<1>9. CASE List(L!Next)
  BY <1>9 DEF List
<1> QED
  BY <1>1, <1>2, <1>3, <1>4, <1>5, <1>6, <1>7, <1>8, <1>9 DEF Next

LEMMA TNext == TInv /\ [T!Next]_tvars => TInv'
BY TNextTypeOK, TNextTasks, TNextNoLostWakeup DEF TInv

LEMMA RNext == RInv /\ [R!Next]_rvars => RInv'
BY RNextSlots, RNextTypeOK DEF RInv

(* phil_pro.c: never do all the philosophers sleep at once, so the circle  *)
(* in which each holds a chopstick and waits for the next never closes.    *)
THEOREM CircleStaysOpen == Spec => []NeverAllAsleep
<1>1. Init => CInv /\ C!NeverAllAsleep
  <2> SUFFICES ASSUME C!Init PROVE CInv /\ C!NeverAllAsleep
    BY DEF Init
  <2>1. C!NeverAllAsleep
    BY CSeats DEF C!Init, C!NeverAllAsleep
  <2> QED
    BY <2>1, CInit
<1>2. CInv /\ C!NeverAllAsleep /\ [Next]_vars => CInv' /\ C!NeverAllAsleep'
  BY Frame, CNext, CAwake
<1> QED
  BY <1>1, <1>2, PTL DEF Spec, NeverAllAsleep

(* phil_pro.c: a chopstick marked taken is in a hand, and who sleeps for   *)
(* one has a neighbour who holds it or is still to signal it.              *)
THEOREM SleepersAreWoken == Spec => []SleeperHasWaker
<1>1. Init => CInv
  BY CInit DEF Init
<1>2. CInv /\ [Next]_vars => CInv'
  BY Frame, CNext
<1>3. CInv => SleeperHasWaker
  BY CWaker DEF SleeperHasWaker
<1> QED
  BY <1>1, <1>2, <1>3, PTL DEF Spec

(* phil_pro_mutex.c: whenever philosophers are blocked and none can go on, *)
(* each holds its first chopstick and waits for its neighbour's.           *)
THEOREM DeadlockIsACircle == Spec => []StuckOnlyInCircle
<1>1. Init => P!TypeOK
  BY PInit DEF Init
<1>2. P!TypeOK /\ [Next]_vars => P!TypeOK'
  BY Frame, PNext
<1>3. P!TypeOK => StuckOnlyInCircle
  BY PStuck DEF StuckOnlyInCircle
<1> QED
  BY <1>1, <1>2, <1>3, PTL DEF Spec

(* The variables of every program keep their types, and each mutex is with *)
(* the thread whose program counter says so.                               *)
THEOREM TypeCorrect == Spec => []TypeOK
<1> DEFINE Inv == /\ TInv /\ CInv /\ RInv /\ GInv
                  /\ P!TypeOK /\ SInv /\ M!TypeOK /\ LInv
<1>1. Init => Inv
  BY TInit, CInit, RInit, GInit, PInit, SInit, MInit, LInit DEF Init
<1>2. Inv /\ [Next]_vars => Inv'
  <2> SUFFICES ASSUME Inv, [Next]_vars PROVE Inv'
    OBVIOUS
  <2>1. TInv' /\ CInv' /\ GInv'
    BY Frame, TNext, CNext, GNext
  <2>2. RInv' /\ P!TypeOK' /\ M!TypeOK'
    BY Frame, RNext, PNext, MNext
  <2>3. SInv' /\ LInv'
    BY Frame, SNext, LNext
  <2> QED
    BY <2>1, <2>2, <2>3
<1>3. Inv => TypeOK
  BY DEF TInv, CInv, RInv, GInv, SInv, LInv, TypeOK
<1> QED
  BY <1>1, <1>2, <1>3, PTL DEF Spec

(* threadPool.cpp: each pushed task is in the queue, with one worker, or   *)
(* run, in one of these places and once, and the queue is in push order.   *)
THEOREM TasksOnce == Spec => []EachTaskOnce
<1>1. Init => TInv
  BY TInit DEF Init
<1>2. TInv /\ [Next]_vars => TInv'
  BY Frame, TNext
<1>3. TInv => EachTaskOnce
  BY TOnceInOnePlace DEF TInv, EachTaskOnce
<1> QED
  BY <1>1, <1>2, <1>3, PTL DEF Spec

(* con_pro.cpp: the units of the semaphores are the slots that are free,   *)
(* filled or in a thread's hands.  pth_sem.c, sem_test.c: the threads are  *)
(* never at one slot at once, without any lock.                            *)
THEOREM SlotsKept == Spec => []SlotsInOrder
<1>1. Init => RInv /\ SInv
  BY RInit, SInit DEF Init
<1>2. RInv /\ SInv /\ [Next]_vars => RInv' /\ SInv'
  BY Frame, RNext, SNext
<1>3. RInv /\ SInv => SlotsInOrder
  BY SApart DEF RInv, SlotsInOrder
<1> QED
  BY <1>1, <1>2, <1>3, PTL DEF Spec

(* threadPool.cpp, cond.c, pth_cond.c, pth_cond_test.c: a signal after the *)
(* unlock loses no wakeup.                                                 *)
THEOREM WakeupsKept == Spec => []NoLostWakeup
<1>1. Init => TInv /\ GInv /\ LInv
  BY TInit, GInit, LInit DEF Init
<1>2. TInv /\ GInv /\ LInv /\ [Next]_vars => TInv' /\ GInv' /\ LInv'
  BY Frame, TNext, GNext, LNext
<1>3. TInv /\ GInv /\ LInv => NoLostWakeup
  BY DEF TInv, GInv, LInv, NoLostWakeup
<1> QED
  BY <1>1, <1>2, <1>3, PTL DEF Spec

(* pth_cond.c, pth_cond_test.c: the cells in use are those of the list and *)
(* those one thread owns, apart from each other, and the list ends.        *)
THEOREM HeapKept == Spec => []HeapInOrder
<1>1. Init => LInv
  BY LInit DEF Init
<1>2. LInv /\ [Next]_vars => LInv'
  BY Frame, LNext
<1>3. LInv => HeapInOrder
  BY LInOrder DEF HeapInOrder
<1> QED
  BY <1>1, <1>2, <1>3, PTL DEF Spec

(* pth_sem.c: the producer reports the item it has just stored; sem_test.c *)
(* that one or an empty slot, never another item.                          *)
THEOREM ReportsKept == Spec => ReportsItsItem
<1>1. Init => SInv
  BY SInit DEF Init
<1>2. SInv /\ [Next]_vars => SInv'
  BY Frame, SNext
<1>3. SInv /\ [Next]_vars
        => [S!PrintSlot => \/ printed' = <<Producer, (sn + MaxData - 1) % MaxData>>
                           \/ ~(program = "pth_sem.c") /\ printed' = S!Zero]_(S!vars)
  BY Frame, SNextReport DEF SLast
<1> QED
  BY <1>1, <1>2, <1>3, PTL DEF Spec, ReportsItsItem, S!ReportsItsItem

(* con_pro.cpp: its ring is a bounded FIFO queue, its semaphores' units    *)
(* and the threads' program counters saying what is in it.                 *)
THEOREM RingIsFifo == Spec => R!FifoSpec
<1> DEFINE Listed == R!contents = RContents
<1>1. Init => RInv /\ RPositions /\ R!Fifo!Init
  BY RInit, RFifoInit DEF Init
<1>2. RInv /\ [Next]_vars => RInv'
  BY Frame, RNext
<1>3. RInv => RBound /\ Listed
  BY RInvBound, RInvContents
<1>4. RInv /\ RBound /\ RBound' /\ RPositions /\ Listed /\ Listed' /\ [Next]_vars
        => RPositions' /\ [R!Fifo!Next]_(R!Fifo!vars)
  BY Frame, RNextFifo
<1> HIDE DEF Listed
<1> QED
  BY <1>1, <1>2, <1>3, <1>4, PTL DEF Spec, R!FifoSpec, R!Fifo!Spec

(* pth_sem.c, sem_test.c: the ring is a bounded FIFO queue.                *)
THEOREM SemQueueIsFifo == Spec => S!FifoSpec
<1> DEFINE Listed == S!contents = SContents
<1>1. Init => SInv /\ S!Fifo!Init
  BY SInit DEF Init
<1>2. SInv /\ [Next]_vars => SInv'
  BY Frame, SNext
<1>3. SInv => Listed
  BY SInvContents
<1>4. SInv /\ SInv' /\ Listed /\ Listed' /\ [Next]_vars => [S!Fifo!Next]_(S!Fifo!vars)
  BY Frame, SNextFifo
<1> HIDE DEF Listed
<1> QED
  BY <1>1, <1>2, <1>3, <1>4, PTL DEF Spec, S!FifoSpec, S!Fifo!Spec

(* pth_cond_test.c: the linked list is a FIFO queue of as many nodes as    *)
(* the heap has cells.                                                     *)
THEOREM ListIsFifo == Spec => L!FifoSpec
<1>1. Init /\ LListed => LInv /\ L!Fifo!Init
  BY LInit, LFifoInit DEF Init
<1>2. LInv /\ [Next]_vars => LInv'
  BY Frame, LNext
<1>3. LListed
  BY LListIsListed
<1>4. LInv /\ LInv' /\ LListed /\ LListed' /\ [Next]_vars => [L!Fifo!Next]_(L!Fifo!vars)
  BY Frame, LNextFifo
<1> QED
  BY <1>1, <1>2, <1>3, <1>4, PTL DEF Spec, L!FifoSpec, L!Fifo!Spec

(* con_pro.cpp, pth_sem.c, sem_test.c, pth_cond_test.c: the two rings and  *)
(* the linked list implement the bounded FIFO queue.                       *)
THEOREM QueuesAreFifo == Spec => FifoSpec
BY RingIsFifo, SemQueueIsFifo, ListIsFifo, PTL DEF FifoSpec

=============================================================================
