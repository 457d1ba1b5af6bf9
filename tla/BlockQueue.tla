------------------------------ MODULE BlockQueue ------------------------------
(***************************************************************************)
(* bite/pthread/pro_con.cpp: producers and consumers share a bounded       *)
(* std::queue guarded by one mutex and two condition variables.            *)
(*                                                                         *)
(* A thread's program counter is the call of Push or Pop it stands at:     *)
(*   new     not created yet by main                                       *)
(*   lock    in pthread_mutex_lock, or returning from pthread_cond_wait    *)
(*   test    owns the mutex, at the head of the while loop                 *)
(*   wait    asleep in its condition variable                              *)
(*   unlock  has moved its item, still owns the mutex                      *)
(*   signal  has released the mutex, about to signal the other side        *)
(***************************************************************************)
EXTENDS Naturals, Sequences, FiniteSets, Pthread

CONSTANTS Producers, Consumers, Nobody,
          Capacity,          \* MAX_QUEUE
          MaxData,           \* bound: a producer's int i wraps around here
          MaxSpurious        \* bound: how often pthread_cond_wait may return
                             \* unasked

Threads == Producers \cup Consumers

ASSUME BlockQueueAssumption ==
  /\ IsFiniteSet(Producers) /\ IsFiniteSet(Consumers)
  /\ Producers \cap Consumers = {} /\ Nobody \notin Threads
  /\ Capacity \in Nat \ {0} /\ MaxData \in Nat \ {0}
  /\ MaxSpurious \in Nat

VARIABLES queue,   \* _queue; an int is tagged with the producer it came from
          mutex,   \* _mutex
          i,       \* productor()'s local i
          data,    \* consumer()'s local data, NoItem until Pop first sets it
          pc,
          running, \* FALSE once main has returned, which ends the process
         spurious \* spurious wakeups so far

vars == <<queue, mutex, i, data, pc, running, spurious>>

Items == Producers \X (0..MaxData-1)
NoItem == <<>>

cond_pro == {p \in Producers : pc[p] = "wait"}
cond_con == {c \in Consumers : pc[c] = "wait"}

Goto(t, label) == pc' = [pc EXCEPT ![t] = label]

Init == /\ queue = <<>>
        /\ mutex = Nobody
        /\ i = [p \in Producers |-> 0]
        /\ data = [c \in Consumers |-> NoItem]
        /\ pc = [t \in Threads |-> "new"]
        /\ running = TRUE
        /\ spurious = 0

(* main creates every producer, then every consumer ...                    *)
Create(t) == /\ pc[t] = "new"
             /\ t \in Consumers => \A p \in Producers : pc[p] # "new"
             /\ Goto(t, "lock")
             /\ UNCHANGED <<queue, mutex, i, data, running>>

(* ... and returns, which ends the process, if pthread_create fails.       *)
CreateFails == /\ \E t \in Threads : pc[t] = "new"
               /\ running' = FALSE
               /\ UNCHANGED <<queue, mutex, i, data, pc>>

Main == /\ running
        /\ CreateFails \/ \E t \in Threads : Create(t)
        /\ UNCHANGED spurious

Lock(t) == /\ pc[t] = "lock"
           /\ mutex = Nobody
           /\ mutex' = t
           /\ Goto(t, "test")
           /\ UNCHANGED <<queue, i, data, running>>

(* while (_queue.size() == _capacity) pthread_cond_wait(&_cond_pro, ...)   *)
PushWait(p) == /\ pc[p] = "test"
               /\ Len(queue) = Capacity
               /\ mutex' = Nobody
               /\ Goto(p, "wait")
               /\ UNCHANGED <<queue, i, data, running>>

(* Seeded fault: a test that lets one item too many in.                    *)
PushItemOverfills(p) == /\ pc[p] = "test"
                        /\ Len(queue) <= Capacity
                        /\ queue' = Append(queue, <<p, i[p]>>)
                        /\ Goto(p, "unlock")
                        /\ UNCHANGED <<mutex, i, data, running>>

PushItem(p) == /\ pc[p] = "test"
               /\ Len(queue) # Capacity
               /\ queue' = Append(queue, <<p, i[p]>>)
               /\ Goto(p, "unlock")
               /\ UNCHANGED <<mutex, i, data, running>>

(* while (_queue.empty()) pthread_cond_wait(&_cond_con, ...)               *)
PopWait(c) == /\ pc[c] = "test"
              /\ queue = <<>>
              /\ mutex' = Nobody
              /\ Goto(c, "wait")
              /\ UNCHANGED <<queue, i, data, running>>

(* Seeded fault: front() without the pop().                                *)
PopItemKeeps(c) == /\ pc[c] = "test"
                   /\ queue # <<>>
                   /\ data' = [data EXCEPT ![c] = Head(queue)]
                   /\ Goto(c, "unlock")
                   /\ UNCHANGED <<queue, mutex, i, running>>

PopItem(c) == /\ pc[c] = "test"
              /\ queue # <<>>
              /\ data' = [data EXCEPT ![c] = Head(queue)]
              /\ queue' = Tail(queue)
              /\ Goto(c, "unlock")
              /\ UNCHANGED <<mutex, i, running>>

Unlock(t) == /\ pc[t] = "unlock"
             /\ mutex' = Nobody
             /\ Goto(t, "signal")
             /\ UNCHANGED <<queue, i, data, running>>

(* Seeded fault: Push does not signal.                                     *)
SignalConMissing(p) == /\ pc[p] = "signal"
                       /\ Goto(p, "lock")
                       /\ i' = [i EXCEPT ![p] = (@ + 1) % MaxData]
                       /\ UNCHANGED <<queue, mutex, data, running>>

(* Push signals the consumers and returns; the producer increments i and   *)
(* calls Push again.                                                       *)
SignalCon(p) == /\ pc[p] = "signal"
                /\ \E woken \in Wakeable(cond_con) :
                     pc' = AfterSignal(pc, p, "lock", woken, "lock")
                /\ i' = [i EXCEPT ![p] = (@ + 1) % MaxData]
                /\ UNCHANGED <<queue, mutex, data, running>>

(* Seeded fault: Pop signals the condition its own side waits on.          *)
SignalProWrong(c) == /\ pc[c] = "signal"
                     /\ \E woken \in Wakeable(cond_con) :
                          pc' = AfterSignal(pc, c, "lock", woken, "lock")
                     /\ UNCHANGED <<queue, mutex, i, data, running>>

SignalPro(c) == /\ pc[c] = "signal"
                /\ \E woken \in Wakeable(cond_pro) :
                     pc' = AfterSignal(pc, c, "lock", woken, "lock")
                /\ UNCHANGED <<queue, mutex, i, data, running>>

SpuriousWakeup(t) == /\ running
                     /\ spurious < MaxSpurious
                     /\ pc[t] = "wait"
                     /\ Goto(t, "lock")
                     /\ spurious' = spurious + 1
                     /\ UNCHANGED <<queue, mutex, i, data, running>>

Push(p) == /\ running
           /\ Lock(p) \/ PushWait(p) \/ PushItem(p) \/ Unlock(p) \/ SignalCon(p)
           /\ UNCHANGED spurious
Pop(c) == /\ running
          /\ Lock(c) \/ PopWait(c) \/ PopItem(c) \/ Unlock(c) \/ SignalPro(c)
          /\ UNCHANGED spurious

Stopped == ~running /\ UNCHANGED vars

Next == \/ Main
        \/ \E t \in Threads : SpuriousWakeup(t)
        \/ \E p \in Producers : Push(p)
        \/ \E c \in Consumers : Pop(c)
        \/ Stopped

Spec == Init /\ [][Next]_vars

(* The scheduler runs every thread that can take a step, main included.    *)
(* Locks are not handed over fairly, so only weak fairness is assumed; and *)
(* a spurious wakeup is an accident, so it may happen but need not.        *)
FairSpec == /\ Spec
            /\ WF_vars(Main)
            /\ \A p \in Producers : WF_vars(Push(p))
            /\ \A c \in Consumers : WF_vars(Pop(c))

-----------------------------------------------------------------------------
At(T, labels) == {t \in T : pc[t] \in labels}

Labels == {"new", "lock", "test", "wait", "unlock", "signal"}

(* Every variable has its type, the queue never grows past its capacity,   *)
(* and the mutex belongs to the one thread between Lock and Unlock.        *)
TypeOK == /\ queue \in Seq(Items) /\ Len(queue) <= Capacity
          /\ mutex \in Threads \cup {Nobody}
          /\ i \in [Producers -> 0..MaxData-1]
          /\ data \in [Consumers -> Items \cup {NoItem}]
          /\ pc \in [Threads -> Labels]
          /\ running \in BOOLEAN
          /\ spurious \in 0..MaxSpurious
          /\ \A t \in Threads : mutex = t <=> pc[t] \in {"test", "unlock"}

(* The signals come after the unlock (pro_con.cpp:37-38, 49-50), so other  *)
(* threads run in between.  No wakeup is lost all the same: while a        *)
(* consumer sleeps, every item in the queue has a producer that will still *)
(* signal or a consumer already on its way to the test; and while a        *)
(* producer sleeps, the same holds of every free place.                    *)
NoLostWakeup ==
  /\ cond_con # {} => Len(queue) <= Cardinality(At(Producers, {"unlock", "signal"}))
                                      + Cardinality(At(Consumers, {"lock", "test"}))
  /\ cond_pro # {} => Capacity - Len(queue)
                         <= Cardinality(At(Consumers, {"unlock", "signal"}))
                              + Cardinality(At(Producers, {"lock", "test"}))

(* Push and Pop are one atomic Put and one atomic Take of a bounded FIFO,  *)
(* at the moment the item moves; a producer's i lags behind until its Push *)
(* has returned.                                                           *)
pushed == [p \in Producers |-> IF pc[p] \in {"unlock", "signal"}
                               THEN (i[p] + 1) % MaxData ELSE i[p]]

Fifo == INSTANCE BoundedFifo WITH items <- queue, next <- pushed, received <- data
FifoSpec == Fifo!Spec

(* Nothing gets stuck in the queue: with weakly fair scheduling the item   *)
(* at its head is taken, unless thread creation failed and the process     *)
(* ended.                                                                  *)
HeadIsTaken == \A d \in Items :
  (queue # <<>> /\ Head(queue) = d) ~> (queue = <<>> \/ Head(queue) # d \/ ~running)

(* Producers that went to sleep on a full queue come back: an empty queue  *)
(* is filled again.                                                        *)
EmptyIsFilled == (queue = <<>>) ~> (queue # <<>> \/ ~running)

(* Neither side is left waiting for the other.                             *)
NothingStuck == HeadIsTaken /\ EmptyIsFilled

=============================================================================
