------------------------------ MODULE ThreadPool ------------------------------
(***************************************************************************)
(* bite/pthread/threadPool.cpp: main builds a pool of detached workers,    *)
(* pushes its tasks and sleeps for ever; the workers take tasks from an    *)
(* unbounded queue and run them outside the lock.                          *)
(*                                                                         *)
(* Program counters.  Main: create (in the constructor), push (about to    *)
(* call PushTask, or asleep once every task is pushed), insert, unlock,    *)
(* signal (the steps of PushTask).  A worker: new, lock (at                *)
(* pthread_mutex_lock or returning from pthread_cond_wait), test (head of  *)
(* the while loop), wait, unlock (has a task), run (task.run()).           *)
(***************************************************************************)
EXTENDS Naturals, Sequences, FiniteSets, Pthread

CONSTANTS Workers,          \* MAX_THREAD threads
          Tasks,            \* how many tasks main pushes
          Main, Nobody,
          MaxSpurious       \* bound: how often pthread_cond_wait may return
                            \* unasked

ThreadPoolAssumption ==
  /\ IsFiniteSet(Workers) /\ Workers # {} /\ Tasks \in Nat
  /\ Main \notin Workers /\ Nobody \notin Workers \cup {Main}
  /\ MaxSpurious \in Nat

VARIABLES m_queue, m_mutex,
          pushed,    \* main's loop counter: how many tasks it has pushed
          task,      \* each worker's local task, or NoTask before its first
          runs,      \* history: how often each task has been run to its end
          pc,
          running,   \* FALSE once exit(1) has ended the process
          spurious   \* spurious wakeups so far

vars == <<m_queue, m_mutex, pushed, task, runs, pc, running, spurious>>

NoTask == 0
Numbers == 1..Tasks
m_cond == {w \in Workers : pc[w] = "wait"}

Goto(t, label) == pc' = [pc EXCEPT ![t] = label]
Step(t, from, to) == pc[t] = from /\ Goto(t, to) /\ UNCHANGED running

Init == /\ m_queue = <<>> /\ m_mutex = Nobody
        /\ pushed = 0
        /\ task = [w \in Workers |-> NoTask]
        /\ runs = [k \in Numbers |-> 0]
        /\ pc = [t \in Workers \cup {Main} |-> IF t = Main THEN "create" ELSE "new"]
        /\ running = TRUE
        /\ spurious = 0

(* The constructor starts and detaches one worker after the other ...      *)
CreateWorker == /\ pc[Main] = "create"
                /\ \E w \in Workers :
                     /\ pc[w] = "new"
                     /\ pc' = [pc EXCEPT ![w] = "lock",
                                         ![Main] = IF \A v \in Workers \ {w} : pc[v] # "new"
                                                   THEN "push" ELSE "create"]
                /\ UNCHANGED <<m_queue, m_mutex, pushed, task, runs, running>>

(* ... and calls exit(1) if pthread_create fails.                          *)
CreateFails == /\ pc[Main] = "create"
               /\ running' = FALSE
               /\ UNCHANGED <<m_queue, m_mutex, pushed, task, runs, pc>>

(* PushTask: pthread_mutex_lock, m_queue.push, pthread_mutex_unlock,       *)
(* pthread_cond_signal.                                                    *)
PushLock == /\ pushed < Tasks
            /\ m_mutex = Nobody /\ m_mutex' = Main
            /\ Step(Main, "push", "insert")
            /\ UNCHANGED <<m_queue, pushed, task, runs>>

PushInsert == /\ m_queue' = Append(m_queue, pushed + 1)
              /\ pushed' = pushed + 1
              /\ Step(Main, "insert", "unlock")
              /\ UNCHANGED <<m_mutex, task, runs>>

PushUnlock == /\ m_mutex' = Nobody
              /\ Step(Main, "unlock", "signal")
              /\ UNCHANGED <<m_queue, pushed, task, runs>>

PushSignal == /\ pc[Main] = "signal"
              /\ \E woken \in Wakeable(m_cond) :
                   pc' = AfterSignal(pc, Main, "push", woken, "lock")
              /\ UNCHANGED <<m_queue, m_mutex, pushed, task, runs, running>>

(* thr_start: lock, while (empty) wait, front and pop, unlock, run.        *)
Lock(w) == /\ m_mutex = Nobody /\ m_mutex' = w
           /\ Step(w, "lock", "test")
           /\ UNCHANGED <<m_queue, pushed, task, runs>>

Wait(w) == /\ m_queue = <<>>
           /\ m_mutex' = Nobody
           /\ Step(w, "test", "wait")
           /\ UNCHANGED <<m_queue, pushed, task, runs>>

(* Seeded fault: the queue is used as a stack.                             *)
TakeNewest(w) == /\ m_queue # <<>>
                 /\ task' = [task EXCEPT ![w] = m_queue[Len(m_queue)]]
                 /\ m_queue' = SubSeq(m_queue, 1, Len(m_queue) - 1)
                 /\ Step(w, "test", "unlock")
                 /\ UNCHANGED <<m_mutex, pushed, runs>>

Take(w) == /\ m_queue # <<>>
           /\ task' = [task EXCEPT ![w] = Head(m_queue)]
           /\ m_queue' = Tail(m_queue)
           /\ Step(w, "test", "unlock")
           /\ UNCHANGED <<m_mutex, pushed, runs>>

Unlock(w) == /\ m_mutex' = Nobody
             /\ Step(w, "unlock", "run")
             /\ UNCHANGED <<m_queue, pushed, task, runs>>

Run(w) == /\ runs' = [runs EXCEPT ![task[w]] = @ + 1]
          /\ Step(w, "run", "lock")
          /\ UNCHANGED <<m_queue, m_mutex, pushed, task>>

SpuriousWakeup(w) == /\ running
                     /\ spurious < MaxSpurious
                     /\ spurious' = spurious + 1
                     /\ Step(w, "wait", "lock")
                     /\ UNCHANGED <<m_queue, m_mutex, pushed, task, runs>>

PushTask == PushLock \/ PushInsert \/ PushUnlock \/ PushSignal
main == /\ running
        /\ CreateWorker \/ CreateFails \/ PushTask
        /\ UNCHANGED spurious
thr_start(w) == /\ running
                /\ Lock(w) \/ Wait(w) \/ Take(w) \/ Unlock(w) \/ Run(w)
                /\ UNCHANGED spurious

(* The process ended, or main sleeps and every worker waits for a task.    *)
Idle == \/ ~running
        \/ pc[Main] = "push" /\ pushed = Tasks /\ \A w \in Workers : pc[w] = "wait"
Rest == Idle /\ UNCHANGED vars

Next == \/ main
        \/ \E w \in Workers : thr_start(w) \/ SpuriousWakeup(w)
        \/ Rest

Spec == Init /\ [][Next]_vars

(* Every thread that can take a step eventually does, and every handler    *)
(* returns (show() sleeps less than five seconds).                         *)
FairSpec == Spec /\ WF_vars(main) /\ \A w \in Workers : WF_vars(thr_start(w))

-----------------------------------------------------------------------------
At(labels) == {w \in Workers : pc[w] \in labels}

MainLabels == {"create", "push", "insert", "unlock", "signal"}
WorkerLabels == {"new", "lock", "test", "wait", "unlock", "run"}

TypeOK == /\ m_queue \in Seq(Numbers)
          /\ m_mutex \in Workers \cup {Main, Nobody}
          /\ pushed \in 0..Tasks
          /\ task \in [Workers -> Numbers \cup {NoTask}]
          /\ runs \in [Numbers -> Nat]
          /\ DOMAIN pc = Workers \cup {Main}
          /\ pc[Main] \in MainLabels
          /\ \A w \in Workers : pc[w] \in WorkerLabels
          /\ running \in BOOLEAN
          /\ spurious \in 0..MaxSpurious
          /\ \A w \in Workers : m_mutex = w <=> pc[w] \in {"test", "unlock"}
          /\ m_mutex = Main <=> pc[Main] \in {"insert", "unlock"}

(* Each pushed task is in exactly one place: waiting in the queue, with    *)
(* one worker, or done; so none is lost and none runs twice, although      *)
(* workers copy the task out and run it after the unlock                   *)
(* (threadPool.cpp:89-93).  And tasks are taken in the order they were     *)
(* pushed: the queue is the run of the last numbers.                       *)
InQueue(k) == {n \in 1..Len(m_queue) : m_queue[n] = k}
WithWorker(k) == {w \in Workers : pc[w] \in {"unlock", "run"} /\ task[w] = k}
OldestFirst == \A n \in 1..Len(m_queue) : m_queue[n] = pushed - Len(m_queue) + n
EachTaskOnce ==
  /\ \A k \in Numbers :
       Cardinality(InQueue(k)) + Cardinality(WithWorker(k)) + runs[k]
         = IF k <= pushed THEN 1 ELSE 0
  /\ OldestFirst

(* The signal follows the unlock (threadPool.cpp:75-77), so workers run in *)
(* between.  No wakeup is lost: while a worker sleeps, every waiting task  *)
(* has a worker on its way to the test, or main still to signal.           *)
NoLostWakeup ==
  m_cond # {} => Len(m_queue) <= (IF pc[Main] \in {"unlock", "signal"} THEN 1 ELSE 0)
                                   + Cardinality(At({"lock", "test"}))

(* Every task is run in the end, unless creating the pool failed.          *)
AllRun == ~running \/ \A k \in Numbers : runs[k] = 1

=============================================================================
