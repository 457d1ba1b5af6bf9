----------------------------- MODULE ThreadPrograms ----------------------------
(***************************************************************************)
(* Ten threaded programs side by side: threadPool.cpp, con_pro.cpp,        *)
(* cond.c, phil_pro.c, phil_pro_mutex.c, pth_sem.c, sem_test.c,            *)
(* pth_mysem.c, pth_cond.c and pth_cond_test.c.  Each is a process of its  *)
(* own and they share nothing; `program` is the one that was started, the  *)
(* variables of the others stay as they are.                               *)
(***************************************************************************)
EXTENDS Integers, FiniteSets

CONSTANTS Producers, Consumers, Capacity,  \* con_pro.cpp
          Gourmets, Chiefs,                \* cond.c
          Diners,                          \* phil_pro_mutex.c: how many
          PhilPros,                        \* phil_pro.c: how many
          Workers, Pusher, Tasks,          \* threadPool.cpp
          NUM,                             \* slots of the semaphore programs
          MaxNodes,                        \* heap cells of the list programs
          Producer, Consumer, Nobody,
          MaxInt,                          \* bound: MaxData of con_pro.cpp
          MaxData, MaxDrift, MaxSpurious   \* bounds, see the modules

VARIABLES program

(* threadPool.cpp                                                          *)
VARIABLES m_queue, m_mutex, pushed, task, runs, tpc, trunning, tspurious
T == INSTANCE ThreadPool WITH Main <- Pusher, pc <- tpc, running <- trunning,
                              spurious <- tspurious

(* phil_pro.c                                                              *)
VARIABLES pchops, pmutex, cpc, cspurious
C == INSTANCE Philosophers WITH N <- PhilPros, chops <- pchops, mutex <- pmutex,
                                pc <- cpc, spurious <- cspurious

(* con_pro.cpp                                                             *)
VARIABLES array, pos_write, pos_read, sem_space, sem_data, sem_lock, i, data, rpc,
          rrunning
R == INSTANCE RingQueue WITH MaxData <- MaxInt, pc <- rpc, running <- rrunning

(* cond.c                                                                  *)
VARIABLES have_delicacy, mutex, gpc, running, gspurious
G == INSTANCE Gourmet WITH pc <- gpc, spurious <- gspurious

(* phil_pro_mutex.c                                                        *)
VARIABLES chops, ppc
P == INSTANCE PhilosophersMutex WITH N <- Diners, pc <- ppc

(* pth_sem.c and sem_test.c                                                *)
VARIABLES queue, blank, full, p, c, sn, printed, sconsumed, spc
S == INSTANCE SemQueue WITH printFirst <- (program = "pth_sem.c"),
                            n <- sn, consumed <- sconsumed, pc <- spc

(* pth_mysem.c                                                             *)
VARIABLES limit_book, mmutex, val, mpc, mspurious
M == INSTANCE MySem WITH mutex <- mmutex, pc <- mpc, spurious <- mspurious

(* pth_cond.c and pth_cond_test.c                                          *)
VARIABLES head, next, num, heap, lock, mp, cur, ln, cmp, lconsumed, lpc, lspurious
L == INSTANCE LinkedQueue WITH atTail <- (program = "pth_cond_test.c"),
                               n <- ln, consumed <- lconsumed, pc <- lpc,
                               spurious <- lspurious

ASSUME ThreadProgramsAssumption ==
  /\ IsFiniteSet(Producers) /\ IsFiniteSet(Consumers) /\ Producers \cap Consumers = {}
  /\ IsFiniteSet(Gourmets) /\ IsFiniteSet(Chiefs) /\ Gourmets \cap Chiefs = {}
  /\ T!ThreadPoolAssumption /\ C!PhilosophersAssumption
  /\ Diners \in Nat /\ Diners >= 2
  /\ Capacity \in Nat \ {0} /\ NUM \in Nat \ {0} /\ MaxNodes \in Nat \ {0}
  /\ Producer # Consumer
  /\ Nobody \notin Gourmets \cup Chiefs \cup {Producer, Consumer} \cup 0..Diners-1
  /\ MaxInt \in Nat \ {0} /\ MaxData \in Nat \ {0}
  /\ MaxDrift \in Nat /\ MaxSpurious \in Nat

tvars == <<m_queue, m_mutex, pushed, task, runs, tpc, trunning, tspurious>>
cvars == <<pchops, pmutex, cpc, cspurious>>
rvars == <<array, pos_write, pos_read, sem_space, sem_data, sem_lock, i, data, rpc,
           rrunning>>
gvars == <<have_delicacy, mutex, gpc, running, gspurious>>
pvars == <<chops, ppc>>
svars == <<queue, blank, full, p, c, sn, printed, sconsumed, spc>>
mvars == <<limit_book, mmutex, val, mpc, mspurious>>
lvars == <<head, next, num, heap, lock, mp, cur, ln, cmp, lconsumed, lpc, lspurious>>
vars == <<program, tvars, cvars, rvars, gvars, pvars, svars, mvars, lvars>>

SemPrograms == {"pth_sem.c", "sem_test.c"}
ListPrograms == {"pth_cond.c", "pth_cond_test.c"}
Programs == {"threadPool.cpp", "con_pro.cpp", "cond.c", "phil_pro.c",
             "phil_pro_mutex.c", "pth_mysem.c"} \cup SemPrograms \cup ListPrograms

Init == /\ program \in Programs
        /\ T!Init /\ C!Init /\ R!Init /\ G!Init /\ P!Init /\ S!Init /\ M!Init /\ L!Init

(* A step A of one program.                                                *)
Pool(A) == /\ program = "threadPool.cpp"
           /\ UNCHANGED <<program, cvars, rvars, gvars, pvars, svars, mvars, lvars>>
           /\ A
PhilPro(A) == /\ program = "phil_pro.c"
              /\ UNCHANGED <<program, tvars, rvars, gvars, pvars, svars, mvars, lvars>>
              /\ A
Ring(A) == /\ program = "con_pro.cpp"
           /\ UNCHANGED <<program, tvars, cvars, gvars, pvars, svars, mvars, lvars>>
           /\ A
Cond(A) == /\ program = "cond.c"
           /\ UNCHANGED <<program, tvars, cvars, rvars, pvars, svars, mvars, lvars>>
           /\ A
PhilProMutex(A) == /\ program = "phil_pro_mutex.c"
                   /\ UNCHANGED <<program, tvars, cvars, rvars, gvars, svars, mvars, lvars>>
                   /\ A
Sem(A) == /\ program \in SemPrograms
          /\ UNCHANGED <<program, tvars, cvars, rvars, gvars, pvars, mvars, lvars>>
          /\ A
SemMy(A) == /\ program = "pth_mysem.c"
            /\ UNCHANGED <<program, tvars, cvars, rvars, gvars, pvars, svars, lvars>>
            /\ A
List(A) == /\ program \in ListPrograms
           /\ UNCHANGED <<program, tvars, cvars, rvars, gvars, pvars, svars, mvars>>
           /\ A

Next == \/ Pool(T!Next) \/ PhilPro(C!Next)
        \/ Ring(R!Next) \/ Cond(G!Next) \/ PhilProMutex(P!Next)
        \/ Sem(S!Next) \/ SemMy(M!Next) \/ List(L!Next)

Spec == Init /\ [][Next]_vars

(* The scheduler runs every thread of the program that can take a step.    *)
FairSpec == /\ Spec
            /\ WF_vars(Pool(T!main)) /\ \A w \in Workers : WF_vars(Pool(T!thr_start(w)))
            /\ \A no \in 1..PhilPros : /\ WF_vars(PhilPro(C!Create(no)))
                                       /\ WF_vars(PhilPro(C!philosopher(no)))
            /\ WF_vars(Ring(R!Main))
            /\ \A q \in Producers : WF_vars(Ring(R!Push(q)))
            /\ \A d \in Consumers : WF_vars(Ring(R!Pop(d)))
            /\ WF_vars(Cond(G!main))
            /\ \A g \in Gourmets : WF_vars(Cond(G!gourmet(g)))
            /\ \A h \in Chiefs : WF_vars(Cond(G!chief(h)))
            /\ WF_vars(Sem(S!producer)) /\ WF_vars(Sem(S!consumer))
            /\ WF_vars(List(L!producer)) /\ WF_vars(List(L!consumer))

-----------------------------------------------------------------------------
TypeOK == /\ T!TypeOK /\ C!TypeOK /\ R!TypeOK /\ G!TypeOK
          /\ P!TypeOK /\ S!TypeOK /\ M!TypeOK /\ L!TypeOK

(* threadPool.cpp: each pushed task is in one place, taken in order.       *)
EachTaskOnce == T!EachTaskOnce

(* phil_pro.c: the circle never closes, each taken chopstick is in a hand, *)
(* and who sleeps for one has somebody who will signal it.                 *)
NeverAllAsleep == C!NeverAllAsleep
SleeperHasWaker == C!NoneLeftTaken /\ C!SleeperHasWaker

(* con_pro.cpp: no unit of a semaphore and no slot is lost, and one thread *)
(* at most is in the critical section.  pth_sem.c, sem_test.c: with no     *)
(* lock the producer and the consumer are never in one slot at once.       *)
SlotsInOrder == R!SlotsAccountedFor /\ S!SlotsApart

(* All signals follow the unlock, and no wakeup is lost: threadPool.cpp    *)
(* leaves no task beside a sleeping worker unnoticed, cond.c leaves no     *)
(* dish with every gourmet asleep and nobody to wake one, nor an empty     *)
(* counter with every chief asleep; the consumer of pth_cond.c and         *)
(* pth_cond_test.c does not sleep next to a node.                          *)
NoLostWakeup == T!NoLostWakeup /\ G!NoLostWakeup /\ L!NoLostWakeup

(* phil_pro_mutex.c: the only deadlock is the full circle.                 *)
StuckOnlyInCircle == P!StuckOnlyInCircle

(* sem_test.c: although it looks at the slot after it has posted it, the   *)
(* producer reports its own item or an empty slot, never another item.     *)
ReportsItsItem == S!ReportsItsItem

(* pth_cond.c, pth_cond_test.c: no node is leaked, linked twice or used    *)
(* after it is freed.                                                      *)
HeapInOrder == L!HeapInOrder

(* con_pro.cpp, pth_sem.c, sem_test.c, pth_cond_test.c: the rings and the  *)
(* list are bounded FIFO queues.                                           *)
FifoSpec == R!FifoSpec /\ S!FifoSpec /\ L!FifoSpec

(* No thread is left waiting for good: every task of threadPool.cpp is     *)
(* run, somebody eats in phil_pro.c again and again, and so are items,     *)
(* dishes and nodes made and taken.                                        *)
Produced == /\ program = "con_pro.cpp" => R!Writing
            /\ program = "cond.c" => G!Cooked
            /\ program \in SemPrograms => S!Writing
Consumed == /\ program = "threadPool.cpp" => T!AllRun
            /\ program = "phil_pro.c" => C!Eating
            /\ program = "con_pro.cpp" => R!Reading
            /\ program = "cond.c" => G!Eaten
            /\ program \in SemPrograms => S!Reading
            /\ program \in ListPrograms => L!Consumed
KeepsGoing == []<>Produced /\ []<>Consumed

=============================================================================
