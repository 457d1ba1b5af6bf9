--------------------------------- MODULE Pipes ---------------------------------
(***************************************************************************)
(* bite/ipc/pipe2.c (`ps -ef | grep sshd`) and pipe.c: a parent, its       *)
(* children and a pipe, of which every process holds the ends it has not   *)
(* closed.  A reader sees the end of the data when nobody holds the write  *)
(* end; a writer is killed by SIGPIPE when nobody holds the read end, and  *)
(* waits while the pipe is full (IPC_note.txt:22-27).  Of ps and grep only *)
(* the reads and writes are modelled.                                      *)
(***************************************************************************)
EXTENDS Naturals, FiniteSets

CONSTANTS Capacity,    \* of the pipe, in pieces of output
          MaxOutput    \* bound: the pieces ps writes

VARIABLES two,    \* pipe2.c, or pipe.c
          pc,     \* of "main", "ps" (also the child of pipe.c) and "grep"
          ends,   \* the ends each process holds: "r", "w"
          data,   \* the pieces in the pipe
          output, \* the pieces ps has still to write
          pid     \* what fork returned to main for each child; "-1" if it failed

vars == <<two, pc, ends, data, output, pid>>

Forked == {"ps", "grep"}
Processes == Forked \cup {"main"}
held(end) == \E p \in Processes : end \in ends[p]
Zombies == {c \in Forked : pc[c] \in {"failed", "done"}}
Living == {c \in Forked : pc[c] # "none"} \ Zombies

Init == /\ two \in BOOLEAN
        /\ pc = [p \in Processes |-> IF p = "main" THEN "pipe" ELSE "none"]
        /\ ends = [p \in Processes |-> {}]
        /\ data = 0 /\ output \in IF two THEN 0..MaxOutput ELSE {1}
        /\ pid = [c \in Forked |-> "none"]

Goto(p, to) == pc' = [pc EXCEPT ![p] = to]
Step(p, from, to) == pc[p] = from /\ Goto(p, to)
Closes(p, E) == ends' = [ends EXCEPT ![p] = @ \ E]

-----------------------------------------------------------------------------
(* main                                                                    *)

Pipe == /\ Step("main", "pipe", "fork1")
        /\ ends' = [ends EXCEPT !["main"] = {"r", "w"}]
        /\ UNCHANGED <<two, data, output, pid>>

PipeFails == Step("main", "pipe", "ended") /\ UNCHANGED <<two, ends, data, output, pid>>

(* The child gets a copy of both ends.  pipe2.c goes on when fork fails,   *)
(* pipe.c does not.                                                        *)
Fork(c, from, to) ==
  /\ pc["main"] = from
  /\ \/ /\ pc' = [pc EXCEPT !["main"] = to, ![c] = "start"]
        /\ ends' = [ends EXCEPT ![c] = ends["main"]]
        /\ pid' = [pid EXCEPT ![c] = c]
     \/ /\ Goto("main", IF two THEN to ELSE "ended")
        /\ ends' = IF two THEN ends ELSE [ends EXCEPT !["main"] = {}]
        /\ pid' = [pid EXCEPT ![c] = "-1"]
  /\ UNCHANGED <<two, data, output>>

Fork1 == Fork("ps", "fork1", IF two THEN "fork2" ELSE "close")
Fork2 == Fork("grep", "fork2", "close")

(* Seeded fault: main of pipe2.c keeps the write end.                      *)
CloseOne == /\ Step("main", "close", IF two THEN "waitps" ELSE "write")
            /\ Closes("main", {"r"})
            /\ UNCHANGED <<two, data, output, pid>>

Close == /\ Step("main", "close", IF two THEN "waitps" ELSE "write")
         /\ Closes("main", IF two THEN {"r", "w"} ELSE {"r"})
         /\ UNCHANGED <<two, data, output, pid>>

(* waitpid(pid, NULL, 0), where -1 means any child; it fails when there is *)
(* nobody to wait for.                                                     *)
Wait(c, from, to) ==
  /\ Step("main", from, to)
  /\ \/ pid[c] = c /\ c \in Zombies
     \/ pid[c] = "-1" /\ (Zombies # {} \/ Living = {})
  /\ UNCHANGED <<two, ends, data, output, pid>>

Main == \/ Pipe \/ PipeFails \/ Fork1 \/ Fork2 \/ Close
        \/ Wait("ps", "waitps", "waitgrep") \/ Wait("grep", "waitgrep", "ended")

-----------------------------------------------------------------------------
(* Reading and writing, and the end of a process, which closes its ends.   *)

Exit(p, to) == Goto(p, to) /\ Closes(p, {"r", "w"})

Write(p) == /\ pc[p] = "write" /\ held("r") /\ output > 0 /\ data < Capacity
            /\ data' = data + 1 /\ output' = output - 1
            /\ UNCHANGED <<two, pc, ends, pid>>

Written(p) == /\ pc[p] = "write" /\ output = 0
              /\ Exit(p, IF p = "main" THEN "ended" ELSE "done")
              /\ UNCHANGED <<two, data, output, pid>>

SigPipe(p) == /\ pc[p] = "write" /\ ~held("r") /\ output > 0
              /\ Exit(p, "killed")
              /\ UNCHANGED <<two, data, output, pid>>

Writer == \E p \in {"main", "ps"} : Write(p) \/ Written(p) \/ SigPipe(p)

(* ps keeps both ends.                                                     *)
StartPs == /\ two /\ Step("ps", "start", "write")
           /\ UNCHANGED <<two, ends, data, output, pid>>

(* The child of pipe.c closes the end it would read from, and pauses.      *)
StartChild == /\ ~two /\ Step("ps", "start", "pause")
              /\ Closes("ps", {"r"})
              /\ UNCHANGED <<two, data, output, pid>>

StartGrep == /\ Step("grep", "start", "read")
             /\ Closes("grep", {"w"})
             /\ UNCHANGED <<two, data, output, pid>>

(* execl fails: exit(0).                                                   *)
ExecFails(c) == /\ two /\ pc[c] = "start"
                /\ Exit(c, "failed")
                /\ UNCHANGED <<two, data, output, pid>>

Read == /\ pc["grep"] = "read" /\ data > 0
        /\ data' = data - 1
        /\ UNCHANGED <<two, pc, ends, output, pid>>

ReadEnd == /\ pc["grep"] = "read" /\ data = 0 /\ ~held("w")
           /\ Exit("grep", "done")
           /\ UNCHANGED <<two, data, output, pid>>

Child == \/ StartPs \/ StartChild \/ StartGrep \/ Read \/ ReadEnd
         \/ \E c \in Forked : ExecFails(c)

(* ps fills the pipe it would have to empty itself, as nobody else reads.  *)
Alone == /\ pc["ps"] = "write" /\ data = Capacity /\ output > 0
         /\ \A p \in {"main", "grep"} : "r" \notin ends[p]

Over == pc["main"] \in {"ended", "killed"} /\ Living \subseteq {"ps"}
Idle == (Over \/ Alone) /\ UNCHANGED vars

Next == Main \/ Writer \/ Child \/ Idle

Spec == Init /\ [][Next]_vars

(* Every process runs; waiting is in the guards.                           *)
FairSpec == /\ Spec
            /\ WF_vars(Main) /\ WF_vars(Writer) /\ WF_vars(Child)

-----------------------------------------------------------------------------
TypeOK == /\ two \in BOOLEAN
          /\ pc \in [Processes -> {"none", "pipe", "fork1", "fork2", "close", "waitps",
                                   "waitgrep", "start", "write", "read", "pause",
                                   "failed", "done", "killed", "ended"}]
          /\ ends \in [Processes -> SUBSET {"r", "w"}]
          /\ data \in 0..Capacity /\ output \in 0..MaxOutput
          /\ pid \in [Forked -> Forked \cup {"none", "-1"}]

(* When grep sees the end, ps has ended before and everything it wrote was *)
(* read, whoever starts first.  SIGPIPE meets the parent of pipe.c alone:  *)
(* whatever becomes of grep, ps holds a read end itself (pipe2.c:15-17).   *)
NothingCutOff ==
  /\ pc["grep"] = "done" => data = 0 /\ Living = {} /\ pc["main"] \notin {"fork2", "close"}
  /\ \A p \in Processes : pc[p] = "killed" => p = "main" /\ ~two

(* main of pipe2.c gets both children back, unless ps is alone with a full *)
(* pipe; it takes the closing of all write ends but those of ps.           *)
Ended == pc["main"] \in {"ended", "killed"} \/ Alone

=============================================================================
