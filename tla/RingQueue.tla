------------------------------ MODULE RingQueue ------------------------------
(***************************************************************************)
(* bite/pthread/con_pro.cpp: the bounded queue again, as a ring guarded by *)
(* three semaphores: _sem_space counts free slots, _sem_data counts filled *)
(* ones, and _sem_lock, initially 1, protects the array and both           *)
(* positions.                                                              *)
(*                                                                         *)
(* A thread's program counter is the statement of Push or Pop it stands    *)
(* at:                                                                     *)
(*   wait     sem_wait on its resource                                     *)
(*   lock     holds one unit of it, at sem_wait(&_sem_lock)                *)
(*   copy     moves the item between its int and the slot                  *)
(*   advance  moves the position                                           *)
(*   unlock   sem_post(&_sem_lock)                                         *)
(*   post     sem_post on the other side's resource                        *)
(***************************************************************************)
EXTENDS Naturals, Sequences, FiniteSets

CONSTANTS Producers, Consumers,
          Capacity,     \* MAX_QUEUE
          MaxData       \* bound: a producer's int i wraps around here

Threads == Producers \cup Consumers

VARIABLES array,      \* _array; an int is tagged with the producer it came from
          pos_write, pos_read,
          sem_space, sem_data, sem_lock,
          i,          \* productor()'s local i
          data,       \* consumer()'s local data, NoItem until Pop first sets it
          pc,
          running     \* FALSE once main has returned, which ends the process

ring == <<array, pos_write, pos_read>>
sems == <<sem_space, sem_data, sem_lock>>
vars == <<ring, sems, i, data, pc, running>>

Items == Producers \X (0..MaxData-1)
NoItem == <<>>
Slots == 0..Capacity-1

Goto(t, label) == pc' = [pc EXCEPT ![t] = label]
Step(t, from, to) == pc[t] = from /\ Goto(t, to) /\ UNCHANGED running

(* vector<int> _array(maxq) and int data = 0: never read before written.   *)
Init == /\ array = [s \in Slots |-> NoItem]
        /\ pos_write = 0 /\ pos_read = 0
        /\ sem_space = Capacity /\ sem_data = 0 /\ sem_lock = 1
        /\ i = [p \in Producers |-> 0]
        /\ data = [c \in Consumers |-> NoItem]
        /\ pc = [t \in Threads |-> "new"]
        /\ running = TRUE

(* main creates every producer, then every consumer ...                    *)
Create(t) == /\ t \in Consumers => \A p \in Producers : pc[p] # "new"
             /\ Step(t, "new", "wait")
             /\ UNCHANGED <<ring, sems, i, data>>

(* ... and returns, which ends the process, if pthread_create fails.       *)
CreateFails == /\ \E t \in Threads : pc[t] = "new"
               /\ running' = FALSE
               /\ UNCHANGED <<ring, sems, i, data, pc>>

Main == running /\ (CreateFails \/ \E t \in Threads : Create(t))

(* sem_wait(&_sem_space)                                                   *)
WaitSpace(p) == /\ sem_space > 0
                /\ sem_space' = sem_space - 1
                /\ Step(p, "wait", "lock")
                /\ UNCHANGED <<ring, sem_data, sem_lock, i, data>>

(* sem_wait(&_sem_data)                                                    *)
WaitData(c) == /\ sem_data > 0
               /\ sem_data' = sem_data - 1
               /\ Step(c, "wait", "lock")
               /\ UNCHANGED <<ring, sem_space, sem_lock, i, data>>

(* Seeded fault: a thread goes on although _sem_lock is 0.                 *)
LockNot(t) == /\ Step(t, "lock", "copy")
              /\ sem_lock' = 0
              /\ UNCHANGED <<ring, sem_space, sem_data, i, data>>

Lock(t) == /\ sem_lock > 0
           /\ sem_lock' = sem_lock - 1
           /\ Step(t, "lock", "copy")
           /\ UNCHANGED <<ring, sem_space, sem_data, i, data>>

Write(p) == /\ array' = [array EXCEPT ![pos_write] = <<p, i[p]>>]
            /\ Step(p, "copy", "advance")
            /\ UNCHANGED <<pos_write, pos_read, sems, i, data>>

Read(c) == /\ data' = [data EXCEPT ![c] = array[pos_read]]
           /\ Step(c, "copy", "advance")
           /\ UNCHANGED <<ring, sems, i>>

AdvanceWrite(p) == /\ pos_write' = (pos_write + 1) % Capacity
                   /\ Step(p, "advance", "unlock")
                   /\ UNCHANGED <<array, pos_read, sems, i, data>>

AdvanceRead(c) == /\ pos_read' = (pos_read + 1) % Capacity
                  /\ Step(c, "advance", "unlock")
                  /\ UNCHANGED <<array, pos_write, sems, i, data>>

Unlock(t) == /\ sem_lock' = sem_lock + 1
             /\ Step(t, "unlock", "post")
             /\ UNCHANGED <<ring, sem_space, sem_data, i, data>>

(* sem_post(&_sem_data); Push returns and the producer increments i.       *)
PostData(p) == /\ sem_data' = sem_data + 1
               /\ Step(p, "post", "wait")
               /\ i' = [i EXCEPT ![p] = (@ + 1) % MaxData]
               /\ UNCHANGED <<ring, sem_space, sem_lock, data>>

PostSpace(c) == /\ sem_space' = sem_space + 1
                /\ Step(c, "post", "wait")
                /\ UNCHANGED <<ring, sem_data, sem_lock, i, data>>

Push(p) == running /\ ( \/ WaitSpace(p) \/ Lock(p) \/ Write(p) \/ AdvanceWrite(p)
                        \/ Unlock(p) \/ PostData(p) )
Pop(c) == running /\ ( \/ WaitData(c) \/ Lock(c) \/ Read(c) \/ AdvanceRead(c)
                       \/ Unlock(c) \/ PostSpace(c) )

Stopped == ~running /\ UNCHANGED vars

Next == \/ Main
        \/ \E p \in Producers : Push(p)
        \/ \E c \in Consumers : Pop(c)
        \/ Stopped

Spec == Init /\ [][Next]_vars

(* Every thread that can take a step eventually does; sem_wait is not fair *)
(* among its waiters.                                                      *)
FairSpec == /\ Spec
            /\ WF_vars(Main)
            /\ \A p \in Producers : WF_vars(Push(p))
            /\ \A c \in Consumers : WF_vars(Pop(c))

-----------------------------------------------------------------------------
At(T, labels) == {t \in T : pc[t] \in labels}
CriticalSection == {"copy", "advance", "unlock"}
Holding == {"lock", "post"} \cup CriticalSection
Labels == {"new", "wait"} \cup Holding

TypeOK == /\ array \in [Slots -> Items \cup {NoItem}]
          /\ pos_write \in Slots /\ pos_read \in Slots
          /\ sem_space \in 0..Capacity /\ sem_data \in 0..Capacity
          /\ sem_lock \in 0..1
          /\ i \in [Producers -> 0..MaxData-1]
          /\ data \in [Consumers -> Items \cup {NoItem}]
          /\ pc \in [Threads -> Labels]
          /\ running \in BOOLEAN

(* No unit is lost or made: every slot is free, filled, or held by exactly *)
(* one Push or Pop in progress; and at most one thread is between the      *)
(* sem_wait and the sem_post of _sem_lock (con_pro.cpp:32-39, 44-51).      *)
SlotsAccountedFor ==
  /\ sem_space + sem_data + Cardinality(At(Threads, Holding)) = Capacity
  /\ sem_lock + Cardinality(At(Threads, CriticalSection)) = 1

(* Push is an atomic Put when it writes its slot and Pop an atomic Take    *)
(* when it reads one, however the calls overlap.  Filled slots not yet     *)
(* read: those counted by _sem_data, those whose Push has not posted yet,  *)
(* and those whose Pop has waited but not read yet.  They start at         *)
(* _pos_read, or one further while a Pop stands between the read and the   *)
(* move of _pos_read.                                                      *)
filled == sem_data + Cardinality(At(Producers, {"advance", "unlock", "post"}))
                   + Cardinality(At(Consumers, {"lock", "copy"}))
first == pos_read + Cardinality(At(Consumers, {"advance"}))
contents == [n \in 1..filled |-> array[(first + n - 1) % Capacity]]
pushed == [p \in Producers |-> IF pc[p] \in {"advance", "unlock", "post"}
                               THEN (i[p] + 1) % MaxData ELSE i[p]]

Fifo == INSTANCE BoundedFifo WITH items <- contents, next <- pushed, received <- data
FifoSpec == Fifo!Spec

(* Neither side is left waiting for the other: items are written and read  *)
(* again and again, unless thread creation failed.                         *)
Writing == ~running \/ \E p \in Producers : pc[p] = "copy"
Reading == ~running \/ \E c \in Consumers : pc[c] = "copy"
KeepsFlowing == []<>Writing /\ []<>Reading

=============================================================================
