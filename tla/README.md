# TLA+ models of LinuxNote

LinuxNote is a collection of small C and C++ programs with which its author
studied threads, processes, signals and sockets on Linux. Most of them are a
page long, and most of them are about one thing: several actors that share
something. This directory holds TLA+ models of those programs, the TLC
configurations that check them on small instances, and proofs for TLAPS of what
holds for every instance.

- [Inventory](#inventory): the parts of the system
- [Modules and code](#modules-and-code): which module models what, and how
- [Runs](#runs): what is checked, on which instance, and what it shows
- [Fairness](#fairness)
- [Proofs](#proofs)
- [Abstractions](#abstractions), and [what is not modelled](#not-modelled)
- [Plan](#plan): what comes next

To check a run: `tlc -config BlockQueue.cfg BlockQueue.tla`. To check a proof:
`tlapm TicketsProofs.tla`.

## Inventory

The programs do not call each other. What interacts is inside each program:
threads over shared variables, mutexes, conditions and semaphores; a parent and
its children over `fork`, `waitpid` and `SIGCHLD`; a server and its clients
over sockets.

### Threads

| part | state | operations | hard behaviour | correct if |
|---|---|---|---|---|
| `bite/pthread/pro_con.cpp` blocking queue | queue, mutex, two conditions | `Push`, `Pop` by several threads | signal after the unlock, spurious wakeups, `pthread_create` failing halfway | it is a bounded FIFO queue, no wakeup is lost, nothing gets stuck |
| `bite/pthread/con_pro.cpp` ring | array, two positions, three semaphores | `Push`, `Pop` by several threads | overlapping calls hold units of the semaphores at once; wrap-around | it is the same FIFO queue, no unit is lost |
| `bite/pthread/threadPool.cpp` | queue of tasks, mutex, condition | `PushTask`, `thr_start` | one signal per task after the unlock; the task runs outside the lock | every task runs once, oldest first, no wakeup is lost |
| `bite/pthread/tout.c` ticket touts | ticket count, mutex | `thr_tout` | the count is tested before the lock | how far it oversells; each number is sold once; nothing is left unsold |
| `bite/pthread/cond.c` counter with one dish | flag, mutex, two conditions | `gourmet`, `chief` | several sleepers in each condition, signal after the unlock | no dish or empty counter is left lying |
| `LinuxC/pthread/mutex` | a counter, with and without mutex | `doit` | load and store are two steps | how much is lost: nothing, or all but two |
| `LinuxC/.../phil_pro.c` | chopsticks, one mutex, a condition for each | `philosopher` | holds one and sleeps for the other; `if` around the wait | no circle closes, no sleeper is forgotten |
| `LinuxC/.../phil_pro_mutex.c` | one mutex per chopstick | `philosopher` | circular wait | the only deadlock is the full circle |
| `LinuxC/.../semaphore/pth_sem.c`, `sem_test.c` | array, two semaphores | `producer`, `consumer` | no lock at all; a slot is printed after it is posted | the two are never in one slot; FIFO |
| `LinuxC/.../sem_by_mutex` | counts, one mutex, one condition for all | `sem_wait_my`, `sem_post_my` | signal after the unlock, no new test after the wait; test and decrement without the mutex | the count never falls below 0 (it does) |
| `LinuxC/.../pth_cond.c`, `pth_cond_test.c` | linked list on the heap, mutex, condition | `producer`, `consumer` | nodes are printed and freed outside the lock | no node is leaked or used after free; no wakeup lost; FIFO for the second |

### Processes, signals and sockets

| part | state | operations | hard behaviour | correct if |
|---|---|---|---|---|
| `bite/signal/zombie.c`, `bite/socket/processServTCP.cpp` | children, pending signal | fork, exit, the handler | merged `SIGCHLD`s, exits during the handler | no zombie is forgotten; the handler ends |
| `TCP/server.c` `main` with `wrap.c` and `client.c` | `client[]`, `allset`, `maxi`, `maxfd`, `nready` | accept, read, write, close | the four tables, reuse of descriptors, resets, an `nready` that counts down | the tables agree; nobody is skipped; no byte is lost |
| `TCP/server.c` `main2`, `UNIXDomainSocketIPC/server.c` with `serv_accept.c` | a book of 20 pids | scan, accept, fork, conversation | pids are reused, entries never cleared, `fork` and `accept` fail | each scan reaps what had exited; connections end |
| `wrap.c` `Readn`, `Writen`, `Readline` | one static buffer | short reads and writes, `EINTR`, errors | the buffer is shared by all descriptors, and `Readn` does not look into it | no byte is lost or handed out twice; which bytes come late or to the reader of another descriptor is only what the buffer held; the result agrees with what was stored |
| `servTCP.cpp`, `TCP/server.c` `main1` | one descriptor | one request per connection | a client that sends nothing blocks all others; `servTCP.cpp` never closes after an answer | the one that is served is answered |
| `processServTCP.cpp`, `Webserver.c` `main` | a table of descriptors per process | accept, fork, conversation, reap | the parent closes nothing, children inherit the connections of others; one `waitpid` per accept, whose pid is closed as a descriptor | each child serves its own client, zombies do not pile up |
| `threadServTCP.cpp` | one table, one descriptor variable | a thread per client | its address is handed to every thread; `SIGPIPE` ends them all | each thread serves its own client (it may not) |
| `Webserver.c` `server`, `Webclient.c` | the byte stream | request, header, file, end mark | reads cut the stream anywhere; NULs inside; `tmp` may be NULL | no answer is taken for part of another |
| `cli_conn.c`, `serv_listen.c`, `serv_accept.c` | path names, backlog | unlink, bind, connect, accept, stat | pids and so paths are reused while calls wait | the server finds the path of its caller |
| UDP clients and servers | datagrams under way | request and reply | datagrams are lost, reordered, delivered twice | the answer belongs to the request, until one is delivered twice |
| `bite/ipc/pipe.c`, `pipe2.c` | who holds which end | fork, close, read, write, wait | one write end too many and `grep` never ends; `fork` and `exec` fail | the reader sees the end and has seen everything; the parent gets its children back |
| `bite/ipc/fifo_read.c`, `fifo_write.c` | the named pipe | open, read, write, leave | both ends come and go | nothing written while somebody reads is lost |
| `bite/signal/main.c` | two counters | `test`, interrupted by itself | loads and stores interleave with the handler | each signal costs one increment at most |
| `bite/pctrl` shells | the line, `argv`, a flag | parse, fork, redirect, exec, wait | cutting in place, stale buffer, redirections | the command gets the words and files of its line |
| `bite/ipc` shared memory, `bite/signal/mask.c`, `signal2.c`, `test.c`, demos | | | | [not modelled](#not-modelled) |

## Modules and code

A thread's program counter (`pc`) names the statement it stands at. A step is
one access to shared memory, one lock, wait, signal, post or system call; what
a thread does under a mutex without touching anything unprotected may be one
step, because no other thread can see the middle of it.

| module | code |
|---|---|
| `Pthread` | what `pthread_cond_signal` and `pthread_cond_wait` do, as all modules use them: a signal wakes one sleeper if there is one, which then has to lock the mutex again |
| `BoundedFifo` | abstract: a bounded FIFO queue with `Put` and `Take` |
| `BlockQueue`, `BlockQueueProofs` | `pro_con.cpp` |
| `RingQueue` | `con_pro.cpp` |
| `ThreadPool` | `threadPool.cpp` |
| `Tickets`, `TicketsProofs` | `tout.c` |
| `Gourmet` | `cond.c` |
| `Counter`, `CounterProofs` | `pth_mutex.c` (`locked`) and `pth_nomutex.c` |
| `Philosophers` | `phil_pro.c` |
| `PhilosophersMutex` | `phil_pro_mutex.c` |
| `SemQueue` | `pth_sem.c` (`printFirst`) and `sem_test.c` |
| `MySem` | `sem_by_mutex.c` with `pth_mysem.c` |
| `LinkedQueue` | `pth_cond_test.c` (`atTail`) and `pth_cond.c` |
| `ChildReaper`, `ChildReaperProofs` | the `SIGCHLD` handler of `zombie.c` and `processServTCP.cpp` |
| `TcpServers` | the loops of `servTCP.cpp`, `processServTCP.cpp`, `threadServTCP.cpp` over `TCPsocket.hpp`, `main` of `Webserver.c`, `main1` of `TCP/server.c` (`kind` says which), with their clients: who has which descriptor |
| `WebStream` | `server` of `Webserver.c` and the loop of `Webclient.c` on one connection |
| `Datagram` | the UDP clients and servers over `UDPsocket.hpp`, `client.c` on the loopback address, where nothing is duplicated (`loopback`) |
| `RequestReply` | abstract: a client asks one thing at a time and gets the answer to that; once a datagram of it was duplicated, to anything it has asked |
| `UnixConn` | `cli_conn.c`, `serv_listen.c`, `serv_accept.c` |
| `Pipes` | `pipe2.c` (`two`) and `pipe.c` |
| `Fifo` | `fifo_read.c`, `fifo_write.c` |
| `Reentrant` | `bite/signal/main.c` |
| `Shells` | `shell.c`, `Myshell.c`, `mini_shell.c` (`shell`) |
| `SelectServer` | `main` of `TCP/server.c`, `Accept`, `Read`, `Write`, `Close` of `wrap.c`; `client.c` as its environment |
| `ForkServer` | `main2` of `TCP/server.c`; `server.c` and `serv_accept.c` of `UNIXDomainSocketIPC` (`unixDomain`) |
| `WrapIO` | `Readn`, `Writen`, `my_read`, `Readline` of `wrap.c` |
| `ThreadPrograms`, `ThreadProofs` | one run for `ThreadPool`, `RingQueue`, `Gourmet`, `Philosophers`, `PhilosophersMutex`, `SemQueue`, `MySem`, `LinkedQueue`: `program` says which one was started |
| `ProcessPrograms`, `ProcessProofs` | the same for `ChildReaper`, `ForkServer`, `WrapIO`, `Pipes`, `Fifo`, `Reentrant`, `Shells` |
| `SocketPrograms`, `SocketProofs` | the same for `SelectServer`, `TcpServers`, `WebStream`, `Datagram`, `UnixConn` |
| `Lemmas` | no code: facts about finite sets, sequences and remainders for the proofs |

Programs that differ in a statement or in the order of two are one module with a
variable that is set in the initial state and never changes (`locked`, `printFirst`,
`atTail`, `unixDomain`, `kind`, `two`, `loopback`, `shell`), so that the one difference can
be seen. `ThreadPrograms`, `ProcessPrograms` and `SocketPrograms` are disjoint unions and no
more: a step belongs to the program that was started, and the programs share
nothing. They do share their checks: a property of a suite is what its programs
have in common, such as that no wakeup is lost.

Names are the code's (`sem_space`, `cond_con`, `allset`, `pid_book`); where the code
has a number (`20`, `FD_SETSIZE`, `MAX_QUEUE`, `NLOOP`) the module has a
constant. `asleep` is the state of a thread in a condition's queue, and
`relock` that of one that has been woken and wants the mutex.

Some definitions are labelled *Seeded fault*. They are variants of the
definition that follows them, with a mistake one could make there (a missing
signal, a test that is off by one). No specification uses them. Put in place of
the definition they break the property that `PROJECT.json` names for them, which
shows that the property can fail.

## Runs

All passing runs check deadlock.

### Passing

**BlockQueue** (two producers, two consumers, a queue of one, items numbered
modulo 2, one spurious wakeup). `NoLostWakeup`: whenever a thread sleeps that
could go on, one that can go on is awake and will signal, or is on its way.
`FifoSpec`: the queue implements `BoundedFifo`, where an item is put when it is
written and taken when it is read. `NothingStuck`: a head is taken, an empty
queue is filled, again and again, unless thread creation failed and the process
ended. A queue of one makes both sides wait all the time; two on each side are
needed for a wakeup to go to the wrong thread.

**Tickets** (three touts, three tickets). `OversellBounded`: the count falls to
-(N-1) at worst. `EveryNumberOnce`: the numbers printed are all those down to the
count, each once: the mutex keeps the sale itself atomic. `SoldOut`: when the touts
have gone nothing is left.

**Counter** (both programs, ten iterations). `NoneLost`: with the mutex the sum is
exact. `AtLeastTwo`: without it the sum may be as low as 2 and no lower. For that
one thread must run almost to its end while the other stands between a load and
a store, twice; any `NLOOP` from 2 on shows it.

**ThreadPrograms** (three workers and four tasks; a ring of two with two threads on
each side; two gourmets and two chiefs; four philosophers with conditions, five
with mutexes; a ring of three; three heap cells; one spurious wakeup).
`EachTaskOnce`: every task is not yet pushed, queued, with one worker, or done, and
tasks leave the queue oldest first. `NeverAllAsleep`: the circle of `phil_pro.c` does
not close, although every philosopher sleeps for the second chopstick with the
first in hand. `SleeperHasWaker`: whoever sleeps for a chopstick has a neighbour who
holds it and will signal it, and a chopstick marked taken is in somebody's hand,
even though two may have it at once. `SlotsInOrder`: in `con_pro.cpp` units, slots and
threads inside always add up; in `pth_sem.c` and `sem_test.c` the two threads are
never in one slot although there is no lock. `NoLostWakeup` for the pool, `cond.c` and
the lists (of `pth_mysem.c` this run checks no more than the types; the rest is the
violated run below). `StuckOnlyInCircle`: `phil_pro_mutex.c` stops only if everybody holds one
chopstick and waits for the next. `HeapInOrder`: every cell is free, on the list, or
owned by one thread. `ReportsItsItem`: `sem_test.c` prints the slot after it has posted
it, and yet prints its own item or an empty slot, never another. `FifoSpec`: four
programs implement `BoundedFifo`. `KeepsGoing`: every task is run, somebody eats again
and again, and items, dishes and nodes are made and taken. There are more tasks than
workers, so that workers come back for another, and three workers, so that one
sleeps while two are awake; four is the smallest number of philosophers with two
that are not neighbours.

**ProcessPrograms** (four children under the handler; a book of three for two pids
and two clients; two texts of three bytes with a line end after the second or none,
a buffer of two; a pipe of two pieces and
up to four to write; two readers and two writers at the FIFO; three signals; lines
of five characters). `ZombieNoticed`: if there is a zombie, a signal is pending or the
handler has not called `waitpid` for the last time. `ChildrenInOrder`: until the book
overflows every child is in it; after a scan no child is left that had exited when
the scan began; a connection is held by its own child alone once the server has
closed it. `BytesAccountedFor`, for any sequence of calls of `Readn`, `Writen` and `Readline` on
two descriptors, says how far `wrap.c` can be trusted. `NoByteLost`: every byte taken is
in the buffer or was handed out, once. `InOrder`: over all calls the bytes of a
descriptor are handed out in order, except that `Readn` reads past what `my_read` has
read ahead, so that a later `Readline` gets earlier bytes. `WhoseBytes`: `Readn` and `Writen`
move the next bytes of their own descriptor; `Readline` hands out first what earlier
calls have left in the one buffer, whichever descriptor it came from, and after
that only bytes of its own. `ReturnAgrees`: the result says what was stored. Both
exceptions are defects of `wrap.c`: whoever mixes `Readn` and `Readline` on a descriptor
gets its bytes out of order, and who calls `Readline` on two descriptors may get a line
of the other one. At these bounds both happen: a
`Readline` whose caller has no room for the second byte, or whose line ends before the
third, leaves it in the buffer, and there is a byte more for `Readn`, or another
text, to come after it. `StreamsWhole`: when `grep` sees the end,
`ps` has ended and everything was read; `SIGPIPE` can meet only the parent of `pipe.c`;
of what is written to the FIFO only that can be lost which was written after every
reader had seen the end, and the rest is printed in order. `OneLostEach`: an
interruption of `test` by itself costs one increment at most. `ArgumentsInOrder`: the
command of a shell gets the words of its line in order, although the parser steps
over the NUL that ends the line and `Myshell.c` has older text behind it, and one
redirection goes to the file named and to no other descriptor. (If a redirection
ends the line, or one blank behind it does, `mini_shell.c` also passes an empty
argument; the property says so.) `NobodyForgotten`: zombies are reaped, clients with a
child are answered and connections closed by a client let go by all, the parent of
`pipe2.c` gets its children back unless `ps` is alone with a full pipe, and a reader of
the FIFO ends after the writers. Two pids for a book of three mean that a pid is
reused and stands in the book twice; the fourth child overflows it. Five
characters hold two short redirections.

**SocketPrograms** (three clients and descriptors 4 and 5 of the select server; two
clients, two descriptors and three workers of the other TCP servers; a file of two
writes; two UDP clients with two requests; three
UNIX domain clients with two pids). `TablesAgree`, `NothingSkipped`, `EveryByteAccountedFor`,
`EndsOnlyWhen` (the select server ends only for want of a descriptor or by `SIGPIPE`).
`WorkersInOrder`: as long as every thread of `threadServTCP.cpp` has read its descriptor
in time, in all five servers a worker has the descriptor of its own client, no client
has two workers, and no answer comes to one that has not asked; and `Webserver.c`,
which reaps one child at most before each accept, never has more than one child
beyond the most that were alive at once. `AnswersApart`: when the client of the web
server asks again, nothing of the last answer is left; the two wait for each other
only after the end mark was read in parts or behind a NUL (both happen), and the
client crashes only after the server's end. `RequestReplySpec`: the UDP programs implement
`RequestReply`, because a client sends nothing while it waits and so never has more
than one datagram under way (`OneInFlight`); losses and a change of order do not matter
then. A datagram that is delivered twice breaks this for its client, for good: nobody
looks which request an answer belongs to. From then on `RequestReply` allows it the
answer to any earlier request. `PathsInOrder`: the
path of a client is in place until the server has looked it up, unless its pid was
taken by a client whose predecessor was still queued. `EveryClientServed`: the
select server answers or drops, a worker answers its client (nothing is said of a
client that has got no worker), the web client comes
to the end of its answer unless it has missed the end mark, and `serv_accept` accepts or turns away. Two descriptors make
entries and numbers free and taken again in every order and let `accept` fail; one
worker has the number 4, because `Webserver.c` closes the pid of a child as if it were
a descriptor.

### Violated

Each of these states what the repository says of the program, and TLC finds a
behaviour of the code that breaks it.

- **TicketsOversold**: `SoldTicketExists`. `tout.c` tests before it locks: two touts sell
  one ticket.
- **PhilosophersShared**: `Exclusive`. `phil_pro.c` waits with `if`: two neighbours hold one
  chopstick. (The notes ask for a loop.)
- **PhilosophersMutexCircle**: `NoCircularWait`. The locks of `phil_pro_mutex.c` are not
  taken in order. (The notes name the circular wait as what must be broken.)
- **MySemBelowZero**: `NeverBelowZero`. `sem_post_my` signals after the unlock. By then
  the consumer may have taken the unit and fallen asleep for the next one; it is
  woken, and since `sem_wait_my` does not test again after `pthread_cond_wait`, it takes
  the count from 0 to -1. One producer and one consumer are enough, and it
  would happen as well if the test and the decrement were inside the mutex. (The notes
  ask for a loop around the wait, and say a unit is taken only if the count is greater than 0.)
- **ThreadServerMixed**: `ThroughItsConnection`. `threadServTCP.cpp` hands the address of one
  variable to all threads: two threads serve the later client and nobody the
  earlier one. (The comment in the thread says it receives through the new
  connection.)
- **ShellRedirection**: `InputRedirected`. In `cmd >out <in` the parser of `mini_shell.c` takes the
  second redirection for an argument. (The notes say `<` redirects the input.)

### Bounds

Every bound is a constant, marked as one where it is declared: `MaxData` (items are
numbered modulo it), `MaxSpurious` (wakeups without a signal), `MaxBytes` (of a
client), `MaxDrift` (how far the broken semaphore may go), `Length`, `LineEnds` and `MaxCount` (of
texts and calls), `MaxOutput` (of `ps`), `MaxWords` (typed into the FIFO), `MaxSignals`, `MaxLine`,
`MaxChunks` (of a file), `MaxRequests`, and the sets of workers, descriptors and pids. Item numbers matter only for the order in a queue. The
producers of `BlockQueue` and `RingQueue` tag theirs, and `MaxData` is at least the
capacity, so no two items in a queue are alike; so it is for the single producer
of the other queues. One spurious wakeup is
enough for it to steal the turn of the thread that was signalled.

## Fairness

Weak fairness of every thread or process (`WF` of all of its steps together):
the scheduler runs whoever can take a step. Nothing more is assumed:

- Locks and semaphores are not handed over fairly. A thread may find a mutex
  taken for ever if others take it again and again. Therefore liveness is
  stated for the system (*somebody* eats, items flow), not for each thread,
  unless the code gives more (all tasks are run, `EveryClientServed`).
- Spurious wakeups need not happen and happen finitely often.
- Clients, users and the children of `ChildReaper` need not do anything, but a client
  takes an answer that has come; thread creation may fail at any
  time where the code tests it.
- A pending signal is delivered and its handler runs.

## Proofs

Every safety property of the passing runs is a theorem, and so are
the refinements of `BoundedFifo` and `RequestReply`: for all values of the constants,
under the named assumptions of the modules. These say that sets of threads are
finite and disjoint, that `Nobody` and `None` are no thread, client, pid or datagram
(`SocketProgramsAssumption`, `ProcessProgramsAssumption`, `NobodyIsNoDatagram`, ...), that
counts are natural numbers, and that a buffer, book, pipe or queue has at least
one place. TLC evaluates them in the runs. The bounds (`MaxBytes`, `MaxSpurious`, ...) are
constants like the others, so the theorems hold however large they are.

Few of the properties are inductive as they stand. Each program has an invariant of
its own, which adds what ties the state of one actor to that of the others. In a suite
(`ThreadPrograms`, `ProcessPrograms`, `SocketPrograms`) these invariants stand side by side: a
step of one program leaves the variables of the others alone (`Frame`, `OneAtATime`), so
each invariant is kept by the steps of its program, and to the others these are stutters.

**TicketsProofs.** `TypeCorrect`, `Oversell`, `NumbersOnce`, `AllSold` prove the four
invariants of `Tickets` for any number of touts and any stock. The bound alone is
not inductive: that the count may still fall by one depends on how many touts
have passed the test. `OversellBounded` therefore counts the committed touts (those
between the test and the sale): once the stock is below 1 nobody joins them, and each sale
takes one away. Next to it stands that touts leave only when the
stock is empty, which gives `SoldOut`. Cardinalities come from `FiniteSetTheorems`.

**CounterProofs.** `TypeCorrect`, `MutexLosesNone`, `NeverBelowTwo`. The invariant has
four parts: the shape of the loops, an upper bound (no store exceeds the number of
increments), exactness under the mutex (the value held by the thread inside is
the counter), and, without the mutex, that a thread in its second iteration or
later has loaded at least 1 and so stores at least 2.

**ChildReaperProofs.** `TypeCorrect` and `NoExitForgotten` for any number of children:
`ZombieNoticed` is inductive with the types.

**BlockQueueProofs.** `TypeCorrect`, `WakeupsKept` (`NoLostWakeup` is inductive with the types:
it compares the items with the threads that will still signal or test), and
`ImplementsFifo`: `PushItem` is `Put`, `PopItem` is `Take`, every other step a stutter.

**ThreadProofs.** The ten programs of `ThreadPrograms`:

| program | theorem | invariant |
|---|---|---|
| `threadPool.cpp` | `TasksOnce`, `WakeupsKept` | `TInv`: the queue is the last tasks pushed, in order; a task that has left it is with one worker or was run once |
| `phil_pro.c` | `CircleStaysOpen`, `SleepersAreWoken` | `CInv`: a chopstick marked taken is with one of the two who share it (`CTaken`); who sleeps for the first waits for a neighbour that eats or is still to signal, who sleeps for the second for one that has that chopstick as its first, and nobody sleeps for a chopstick its neighbour has just taken (`CWaits`) |
| `phil_pro_mutex.c` | `DeadlockIsACircle` | the types, which say who holds which mutex |
| `con_pro.cpp` | `SlotsKept`, `QueuesAreFifo` | `RInv`: units, filled slots and threads inside add up |
| `pth_sem.c`, `sem_test.c` | `SlotsKept`, `ReportsKept`, `QueuesAreFifo` | `SInv`: how many slots lie between the two positions, modulo the size of the ring; what the slot holds that the producer will report |
| `cond.c` | `WakeupsKept` | `GInv`: `NoLostWakeup` with the types |
| `pth_cond.c`, `pth_cond_test.c` | `WakeupsKept`, `HeapKept`, `QueuesAreFifo` | `LInv`: there is a sequence of cells without a repetition that the links follow from the head to `NULL`; a cell is on it, in one hand or free |

`LinkedQueue` reads the list with a recursive function. No induction theorem of the
library can be cited, so `Lemmas` has `Least` (a set of natural numbers that is not
empty has a least element, from well-foundedness), and statements about all cells
of a list are proved by the least counterexample.

**ProcessProofs.** The programs of `ProcessPrograms`:

| module | theorem | invariant |
|---|---|---|
| `ChildReaper` | `ZombiesNoticed` | that of `ChildReaperProofs` |
| `ForkServer` | `ChildrenKept` | `FInv`: a child that had exited when the scan began is ahead of it or reaped; the server holds no connection but the one just accepted |
| `WrapIO` | `BytesKept` | `WInv`: every history and then the buffer is in order, where Readn may have passed the buffer by, and together they are what was taken (`WOrder`); what the buffer held at the call is stored before it is filled again (`WWhose`); what is stored is what the count says, with no end of line before its last byte (`WOut`) |
| `Pipes` | `StreamsKept` | `PInv`: who has which end open at which statement |
| `Fifo` | `StreamsKept` | `NInv`: what was printed, read and is in the pipe is in the order of writing; what was written late comes last |
| `Reentrant` | `OneLost` | `RInv`: the two counters against the number of runs of the handler, with the value the interrupted `test` has loaded |
| `Shells` | `TypesKept`, `ArgumentsKept` | `SInv`: behind the end of the line the buffer is empty, so the parser stops inside of it; `SKept`: what the parser has done with the line up to `ptr` (below) |

`ArgumentsInOrder` compares what `execvp` gets with the words of the line, which are
defined from the line alone: where a word starts (`Starts`) and ends (`WordEnd`), and the
starts in increasing order (`InOrder`). `SKept` is about a line with one redirection at
most. Up to `ptr` every word is cut off by a NUL and all but blanks is as it was read
(`SCut`); `argv` holds, in increasing order, exactly the starts before `ptr` that are
arguments (`SListed`); the flag and the names are those of the redirection before `ptr`
(`SNamed`). A round moves this from one `ptr` to the next (`SRound`, `SRedirection`):
nothing but the word at `ptr`, or the empty text behind a redirection at the end of the
line, is an argument between the two (`SOnlyWord`). It needs that `ptr` finds a NUL when
it has stepped over the end of the line: the second NUL of `Fgets` after a word, the
cleared buffer (`SClean`) after a redirection. At `exec` all starts are behind `ptr`, and since
there is one increasing sequence of a set of numbers only (`Enumerated` in `Lemmas`),
`argv` is it.

**SocketProofs.** The programs of `SocketPrograms`:

| module | theorem | invariant |
|---|---|---|
| `SelectServer` | `TablesKept`, `NobodySkipped`, `BytesKept`, `EndsOnly` | `SelInv`: `nready` is the number of descriptors reported (`SelListen`), of which those ahead of the scan are left (`NothingSkipped`); the bytes in the server's buffer are those of the entry at `i` (`SelWrite`, `SelBytes`) |
| `TcpServers` | `WorkersKept` | `TInv`: which process has which file open (`TFiles`), a worker's descriptor is that of its own client (`TOwn`), whose turn it is on a connection (`TTalk`); zombies and the free pids together (`TZombies`, `TReaps`) |
| `WebStream` | `AnswersKept` | `WInv`: the second half of the end mark is the last byte of an answer (`WEnd`), nothing is under way while the client takes its input (`WQuiet`), and if both read, the end mark is still to come or was missed (`WWait`) |
| `Datagram` | `AnsweredWhatWasAsked` | `DInv`: a datagram under way has a number that was asked (`DKnown`), and until one is duplicated it is the last one and the only one of its client (`DOne`) |
| `UnixConn` | `PathsKept` | `UInv`: the path of a waiting client leads to it, and no other client that calls has its pid (`UPaths`) |

`TablesAgree` needs that a free entry exists when `accept` has got a descriptor: there are
fewer descriptors than entries, so if every entry were used two would have the
same descriptor (`FS_PigeonHole`). `EndsOnly` is an action property: under `SelInv` every
descriptor given to `select` is open, so `select` cannot fail. `AnsweredWhatWasAsked` proves the
refinement step by step: `sendto` of a client is `Ask`, `recvfrom` of the answer `Answer`, the
end of a client that waits `GiveUp`, every other step a stutter or no more than a duplicate.

What stays with TLC is liveness (`NothingStuck`, `KeepsGoing`, `NobodyForgotten`,
`EveryClientServed`): TLAPS proves neither `ENABLED` nor properties under fairness.

## Abstractions

- Data: an item, task or ticket is a number; a request is the fact that one is
  outstanding; bytes are counted (`SelectServer`) or numbered (`WrapIO`).
- Printing is a step only where it reads something shared.
- An access to an `int` is one load or one store, as in the unoptimised build the
  makefiles ask for; `counter++` is two steps where no lock protects it.
- `pthread_create` fails where the code tests it (`main` returns and the process
  ends) and succeeds where it does not.
- `malloc` succeeds while a heap cell is free; a freed cell keeps nothing.
- `sem_wait` is not interrupted: none of these programs handles a signal.
- Destructors and the code behind endless loops are not reached and left out.
- `limit_book` of `sem_by_mutex.c` is resized to fewer bytes than are used; `malloc`
  rounds up enough for the two semaphores of `pth_mysem.c`.
- In `SelectServer` the limit on descriptors is `FD_SETSIZE`. `Write` blocks in the program while
  a client leaves its echoes unread, and with it every other client waits
  (`server.c:82`); the clients of the model, like `client.c`, read them, so what the runs show is
  that no client *that reads its echoes* can keep the server from the others. A connection
  broken off before it is accepted is accepted all the same and then found
  closed; the retry of `Accept` after `ECONNABORTED` (`wrap.c:19`) is left out.
- In `ForkServer` a child whose descriptor is negative (UNIX domain, after a failed
  `serv_accept`) reads and writes in vain for ever: it takes no step. After the
  book has overflowed the server does nothing any more, because what it does is
  undefined.
- `TcpServers` leaves out the listening descriptor and the text of the conversation. A
  worker waits for the person who types the answers only by being slow. `tmpIp` of
  `threadServTCP.cpp` is read and written without a lock; what that does to the printed
  address is left out. `pthread_create` is taken to succeed. A pid is never the number of
  the listening descriptor, which `Webserver.c` would close.
- In `WebStream` a request comes whole and begins with `GET`, because `Webclient.c` sends it in one
  write; the server would not answer another (`Webserver.c:27`). A file holds neither a NUL nor the end mark, and `strstr` stops at the end
  of a read that fills the buffer (in the program it runs on past the buffer).
- In `Datagram` a datagram is its sender and the number of its request; the servers do
  not look at more either. Which clients had a datagram duplicated (`duplicated`) and, in
  `WrapIO`, which bytes each descriptor's callers got in which order (`given`) and what the buffer
  held when the call began (`kept`) are history: no guard reads them.
- In `UnixConn` a `bind` after `unlink` succeeds, and the backlog is not limited.
- In `Pipes` the child of `pipe.c` pauses for ever, as no signal is sent to it. The reader
  of `Fifo` is not stopped by its user, and the input of a writer does not end.
- In `Reentrant` what `printf` does when it interrupts itself is left out.
- In `Shells` a character is a blank, a letter, `<` or `>`; lines fit the buffer and have
  fewer than 32 words. At the end of the input, or with an empty buffer, the code reads
  and writes outside of its arrays (`inbuf[strlen(inbuf) - 1]`).
- `WrapIO` takes the end of a text to be known when it is reached; a read that is
  interrupted is repeated and changes nothing.

## Not modelled

- Setting up sockets before the loops (`socket`, `bind`, `listen`): straight-line code that
  ends the program on an error.
- Shared memory (`shm_read.c`, `shm_write.c`): one process formats a text into a segment,
  another prints it, without synchronisation. Beyond that the text may be torn there is
  nothing to state.
- `mask.c`, `signal2.c`, `test.c`, `signal.c`, `loop.c`: they block, raise or handle a signal once
  and print. What happens is the kernel's doing; a model of it would be a model of the kernel.
- Demos that call one function after the other (`pc_wait.c`, `pc_exec.c`, `pc_err.c`,
  `pth_create.c`, `pth_exit.c`, `create.c`, `basicIO`), which have no state of their own.
- `sem_destroy_my` and the search of its table, never reached by the one program that
  links them.
- Makefile exercises and notes.

## Plan

Done, in this order: the queues and the pool (`BlockQueue`, `RingQueue`, `ThreadPool`),
the programs with the interesting races (`Tickets`, `Counter`, the philosophers), the
select server, the handler, the remaining threaded programs in one run, the
forking servers and `wrap.c` in another; proofs of `Tickets`, `Counter`, `ChildReaper`. Then
the other servers and clients (`TcpServers`, `WebStream`, `Datagram` with `RequestReply`,
`UnixConn`), pipes and FIFOs, the reentered handler and the shells.
Then the proofs of `BlockQueue` and of the three suites, program by program, and last
that of `ArgumentsInOrder`, for which the words of a line were defined without recursion.

Left:

1. Liveness, which would need a prover with rules for fairness.
2. `TcpServers`: what of `WorkersInOrder` holds of `threadServTCP.cpp` even after a thread
   was late, and which of its clients are never served.
