----------------------------- MODULE ChildReaper -----------------------------
(***************************************************************************)
(* bite/signal/zombie.c and bite/socket/processServTCP.cpp: the parent     *)
(* forks children, never waits for them in its main loop, and reaps them   *)
(* in a SIGCHLD handler that calls waitpid(-1, NULL, WNOHANG) in a loop.   *)
(* SIGCHLD is a standard signal: while one is pending, further ones merge  *)
(* with it (processServTCP.cpp:10), and it is blocked while its handler    *)
(* runs (signal() of glibc).                                               *)
(***************************************************************************)
EXTENDS Naturals, FiniteSets

CONSTANT Children   \* bound: the children that exist at one time; a reaped
                    \* one stands for the next to be forked

VARIABLES state,    \* of each child: "none", "running" or "zombie"
          pending,  \* whether a SIGCHLD is pending for the parent
          handler   \* the handler: "off", at "waitpid", or "return"ing

vars == <<state, pending, handler>>

zombies == {c \in Children : state[c] = "zombie"}

Init == /\ state = [c \in Children |-> "none"]
        /\ pending = FALSE
        /\ handler = "off"

(* The main loop forks, in zombie.c at the start, in processServTCP.cpp    *)
(* for every connection; a fork that fails starts no child.                *)
Fork(c) == /\ handler = "off"
           /\ state[c] = "none"
           /\ state' = [state EXCEPT ![c] = "running"]
           /\ UNCHANGED <<pending, handler>>

(* Seeded fault: the signal of an exit during the handler is dropped.      *)
ExitUnnoticed(c) == /\ state[c] = "running"
                    /\ state' = [state EXCEPT ![c] = "zombie"]
                    /\ pending' = (pending \/ handler = "off")
                    /\ UNCHANGED handler

(* A child exits whenever it likes, also while the handler runs.           *)
Exit(c) == /\ state[c] = "running"
           /\ state' = [state EXCEPT ![c] = "zombie"]
           /\ pending' = TRUE
           /\ UNCHANGED handler

Deliver == /\ pending /\ handler = "off"
           /\ pending' = FALSE
           /\ handler' = "waitpid"
           /\ UNCHANGED state

(* waitpid returns the pid of one of the zombies and the loop goes on ...  *)
Reap(c) == /\ handler = "waitpid"
           /\ state[c] = "zombie"
           /\ state' = [state EXCEPT ![c] = "none"]
           /\ UNCHANGED <<pending, handler>>

(* ... until it returns 0 or -1: no zombie is left, at this moment.        *)
ReapNone == /\ handler = "waitpid"
            /\ zombies = {}
            /\ handler' = "return"
            /\ UNCHANGED <<state, pending>>

(* The handler returns, and SIGCHLD is unblocked.                          *)
Return == /\ handler = "return"
          /\ handler' = "off"
          /\ UNCHANGED <<state, pending>>

Handler == Deliver \/ ReapNone \/ Return \/ \E c \in Children : Reap(c)

Next == Handler \/ \E c \in Children : Fork(c) \/ Exit(c)

Spec == Init /\ [][Next]_vars

(* A pending signal is delivered and its handler runs to its end; children *)
(* need not exit.                                                          *)
FairSpec == Spec /\ WF_vars(Handler)

-----------------------------------------------------------------------------
TypeOK == /\ state \in [Children -> {"none", "running", "zombie"}]
          /\ pending \in BOOLEAN
          /\ handler \in {"off", "waitpid", "return"}

(* No exit is forgotten although signals merge and children exit while the *)
(* handler leaves its loop: while there is a zombie, a SIGCHLD is pending  *)
(* or the handler is still to call waitpid.                                *)
ZombieNoticed == zombies # {} => pending \/ handler = "waitpid"

(* Every child that exits is reaped; and whatever the children do, the     *)
(* parent gets back to its main loop.                                      *)
ZombieReaped == /\ \A c \in Children : []<>(state[c] # "zombie")
                /\ []<>(handler = "off")

=============================================================================
