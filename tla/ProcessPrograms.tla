---------------------------- MODULE ProcessPrograms ----------------------------
(***************************************************************************)
(* The programs around processes and descriptors, side by side:            *)
(* processServTCP.cpp and zombie.c (ChildReaper), main2 of TCP/server.c    *)
(* and server.c of UNIXDomainSocketIPC (ForkServer), a caller of the       *)
(* functions of wrap.c (WrapIO), pipe.c and pipe2.c (Pipes), fifo_read.c   *)
(* and fifo_write.c (Fifo), main.c of bite/signal (Reentrant) and the      *)
(* shells of bite/pctrl (Shells).  They share nothing; `program` is the    *)
(* one that was started, the variables of the others stay as they are.     *)
(***************************************************************************)
EXTENDS ChildReaper

CONSTANTS Pids, BookSize, Clients, Server,     \* ForkServer
          Fds, Length, LineEnds, BufSize,
          MaxCount,                            \* WrapIO
          PipeSize, MaxOutput,                 \* Pipes
          Readers, Writers, FifoSize, MaxWords,\* Fifo
          MaxSignals,                          \* Reentrant
          MaxLine,                             \* Shells
          None

VARIABLE program

ReapingPrograms == {"zombie.c", "processServTCP.cpp"}
ForkingPrograms == {"TCP/server.c", "UNIX/server.c"}
PipePrograms == {"pipe.c", "pipe2.c"}
ShellPrograms == {"shell.c", "Myshell.c", "mini_shell.c"}
Programs == ReapingPrograms \cup ForkingPrograms \cup PipePrograms \cup ShellPrograms
              \cup {"wrap.c", "fifo_read.c", "signal/main.c"}

(* main2 of TCP/server.c, server.c of UNIXDomainSocketIPC                  *)
VARIABLES pid_book, i, connfd, pid, pc, child, fd, held, client, queue, old
F == INSTANCE ForkServer WITH unixDomain <- (program = "UNIX/server.c")

(* wrap.c                                                                  *)
VARIABLES newline, taken, read_buf, wfd, count, nleft, out, given, kept, ret, op, wpc
W == INSTANCE WrapIO WITH NoFd <- None, fd <- wfd, pc <- wpc

(* pipe.c and pipe2.c                                                      *)
VARIABLES ppc, ends, data, output, ppid
P == INSTANCE Pipes WITH Capacity <- PipeSize, two <- (program = "pipe2.c"),
                         pc <- ppc, pid <- ppid

(* fifo_read.c and fifo_write.c                                            *)
VARIABLES npc, pipe, words, got, late, lost
N == INSTANCE Fifo WITH Capacity <- FifoSize, pc <- npc

(* main.c of bite/signal                                                   *)
VARIABLES sa, sb, spc, loaded, sum, handled
R == INSTANCE Reentrant WITH a <- sa, b <- sb, pc <- spc

(* The shells                                                              *)
VARIABLES cpc, line, buf, ptr, argv, flag, name, io
S == INSTANCE Shells WITH pc <- cpc,
       shell <- IF program \in ShellPrograms THEN program ELSE "shell.c"

fvars == <<pid_book, i, connfd, pid, pc, child, fd, held, client, queue, old>>
wvars == <<newline, taken, read_buf, wfd, count, nleft, out, given, kept, ret, op, wpc>>
pvars == <<ppc, ends, data, output, ppid>>
nvars == <<npc, pipe, words, got, late, lost>>
rvars == <<sa, sb, spc, loaded, sum, handled>>
svars == <<cpc, line, buf, ptr, argv, flag, name, io>>
ASSUME ProcessProgramsAssumption ==
  /\ None \notin Pids \cup Clients \cup Fds /\ Server \notin Pids
  /\ BookSize \in Nat \ {0} /\ Length \in Nat /\ BufSize \in Nat \ {0} /\ MaxCount \in Nat
  /\ {} \in LineEnds /\ LineEnds \subseteq SUBSET (1..Length)
  /\ PipeSize \in Nat \ {0} /\ MaxOutput \in Nat \ {0}
  /\ Readers \cap Writers = {} /\ IsFiniteSet(Writers)
  /\ FifoSize \in Nat \ {0} /\ MaxWords \in Nat
  /\ MaxSignals \in Nat /\ MaxLine \in Nat

allVars == <<program, vars, fvars, wvars, pvars, nvars, rvars, svars>>

StartedInit == /\ program \in Programs
               /\ Init /\ F!Init /\ W!Init /\ P!Init /\ N!Init /\ R!Init /\ S!Init
               /\ program = "wrap.c" \/ newline = [f \in Fds |-> {}]
               /\ program = "pipe2.c" \/ output = 1

(* A step A of one program.                                                *)
Reaping(A) == /\ program \in ReapingPrograms
              /\ UNCHANGED <<program, fvars, wvars, pvars, nvars, rvars, svars>>
              /\ A
Forking(A) == /\ program \in ForkingPrograms
              /\ UNCHANGED <<program, vars, wvars, pvars, nvars, rvars, svars>>
              /\ A
Wrapping(A) == /\ program = "wrap.c"
               /\ UNCHANGED <<program, vars, fvars, pvars, nvars, rvars, svars>>
               /\ A
Piping(A) == /\ program \in PipePrograms
             /\ UNCHANGED <<program, vars, fvars, wvars, nvars, rvars, svars>>
             /\ A
Naming(A) == /\ program = "fifo_read.c"
             /\ UNCHANGED <<program, vars, fvars, wvars, pvars, rvars, svars>>
             /\ A
Signalling(A) == /\ program = "signal/main.c"
                 /\ UNCHANGED <<program, vars, fvars, wvars, pvars, nvars, svars>>
                 /\ A
Prompting(A) == /\ program \in ShellPrograms
                /\ UNCHANGED <<program, vars, fvars, wvars, pvars, nvars, rvars>>
                /\ A

StartedNext == \/ Reaping(Next) \/ Forking(F!Next) \/ Wrapping(W!Next) \/ Piping(P!Next)
               \/ Naming(N!Next) \/ Signalling(R!Next) \/ Prompting(S!Next)

StartedSpec == StartedInit /\ [][StartedNext]_allVars

(* Every process of the program runs, and pending signals are delivered;   *)
(* users, clients and children of ChildReaper need not do anything.        *)
StartedFairSpec ==
  /\ StartedSpec
  /\ WF_allVars(Reaping(Handler))
  /\ WF_allVars(Forking(F!Main)) /\ WF_allVars(Forking(F!Kernel))
  /\ \A p \in Pids : WF_allVars(Forking(F!Child(p)))
  /\ WF_allVars(Piping(P!Main)) /\ WF_allVars(Piping(P!Writer)) /\ WF_allVars(Piping(P!Child))
  /\ \A r \in Readers : WF_allVars(Naming(N!Reader(r)))
  /\ \A w \in Writers : WF_allVars(Naming(N!Writer(w)))

-----------------------------------------------------------------------------
AllTypeOK == /\ TypeOK /\ F!TypeOK /\ W!TypeOK /\ P!TypeOK
             /\ N!TypeOK /\ R!TypeOK /\ S!TypeOK

(* ForkServer: no child is missing in the book before it overflows, each   *)
(* scan reaps all that had exited, and a connection is held by its own     *)
(* child and briefly by the server only.                                   *)
ChildrenInOrder == F!ChildrenInOrder

(* WrapIO: no byte is lost or handed out twice; out of order, or to the    *)
(* reader of another descriptor, goes only what the shared buffer held;    *)
(* and what a call returns agrees with what it has stored.                 *)
BytesAccountedFor == W!BytesAccountedFor

(* Pipes and Fifo: a reader that sees the end has missed nothing, and only *)
(* what is written after that can be lost.                                 *)
StreamsWhole == P!NothingCutOff /\ N!OnlyLateLost

(* Reentrant: each run of the handler costs one increment at most.         *)
OneLostEach == R!OneLostEach

(* Shells: a command gets the words of its own line, in order, and the     *)
(* file it was redirected to if there is one.                              *)
ArgumentsInOrder == S!ArgumentsInOrder

(* Nobody is left behind: every zombie of ChildReaper is reaped; every     *)
(* client of ForkServer that a child serves is answered, and every         *)
(* connection its client has closed is let go; the parent of pipe2.c gets  *)
(* its children back; and readers and writers of the FIFO come to an end.  *)
NobodyForgotten == /\ ZombieReaped
                   /\ F!EveryClientServed
                   /\ []<>(program \in PipePrograms => P!Ended)
                   /\ N!FifoEnds

=============================================================================
