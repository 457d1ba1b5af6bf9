------------------------------- MODULE Reentrant -------------------------------
(***************************************************************************)
(* bite/signal/main.c: main and the handler of SIGINT both run test(),     *)
(* which increments a and b.  An increment is a load and a store (the      *)
(* makefile does not optimise).  The handler runs on top of main: nothing  *)
(* else happens until it has returned, and SIGINT is blocked meanwhile     *)
(* (signal() of glibc), so a run of it is one step; signals that arrive    *)
(* then merge into one.  What the two do to one another inside printf is   *)
(* undefined and left out.                                                 *)
(***************************************************************************)
EXTENDS Naturals

CONSTANT MaxSignals    \* bound: runs of the handler

VARIABLES a, b,
          pc,       \* of main: "signal", "loada", "storea", "sleep", "loadb", "storeb",
                    \* "suma", "sumb", "killed" or "ended" (the sum is printed)
          loaded,   \* what main has loaded
          sum,      \* what main has printed
          handled   \* history: the runs of the handler

vars == <<a, b, pc, loaded, sum, handled>>

Init == /\ a = 0 /\ b = 0 /\ pc = "signal"
        /\ loaded = 0 /\ sum = 0 /\ handled = 0

Step(from, to) == pc = from /\ pc' = to

Signal == Step("signal", "loada") /\ UNCHANGED <<a, b, loaded, sum, handled>>

(* SIGINT before signal() ends the program.                                *)
Interrupt == Step("signal", "killed") /\ UNCHANGED <<a, b, loaded, sum, handled>>

-----------------------------------------------------------------------------
(* test() in main                                                          *)

LoadA == /\ Step("loada", "storea") /\ loaded' = a
         /\ UNCHANGED <<a, b, sum, handled>>

StoreA == /\ Step("storea", "sleep") /\ a' = loaded + 1
          /\ UNCHANGED <<b, loaded, sum, handled>>

(* It ends early when a handler has run.                                   *)
Sleep == Step("sleep", "loadb") /\ UNCHANGED <<a, b, loaded, sum, handled>>

(* Seeded fault: b is loaded together with a.                              *)
LoadBStale == /\ Step("loadb", "storeb")
              /\ UNCHANGED <<a, b, loaded, sum, handled>>

LoadB == /\ Step("loadb", "storeb") /\ loaded' = b
         /\ UNCHANGED <<a, b, sum, handled>>

StoreB == /\ Step("storeb", "suma") /\ b' = loaded + 1
          /\ UNCHANGED <<a, loaded, sum, handled>>

(* a + b, from left to right.                                              *)
SumA == /\ Step("suma", "sumb") /\ sum' = a
        /\ UNCHANGED <<a, b, loaded, handled>>

SumB == /\ Step("sumb", "ended") /\ sum' = sum + b
        /\ UNCHANGED <<a, b, loaded, handled>>

-----------------------------------------------------------------------------
(* sigcb runs all of test() between any two steps of main.                 *)
sigcb == /\ pc \notin {"signal", "killed", "ended"} /\ handled < MaxSignals
         /\ a' = a + 1 /\ b' = b + 1
         /\ handled' = handled + 1
         /\ UNCHANGED <<pc, loaded, sum>>

Over == pc \in {"killed", "ended"} /\ UNCHANGED vars

Next == \/ Signal \/ Interrupt \/ LoadA \/ StoreA \/ Sleep \/ LoadB \/ StoreB \/ SumA \/ SumB
        \/ sigcb \/ Over

Spec == Init /\ [][Next]_vars

-----------------------------------------------------------------------------
TypeOK == /\ a \in 0..MaxSignals + 1 /\ b \in 0..MaxSignals + 1
          /\ pc \in {"signal", "loada", "storea", "sleep", "loadb", "storeb", "suma",
                     "sumb", "killed", "ended"}
          /\ loaded \in 0..MaxSignals /\ sum \in 0..2 * (MaxSignals + 1)
          /\ handled \in 0..MaxSignals

(* test() is not reentrant, but an interruption costs one increment at     *)
(* most: main prints 2 and at least one for each run of the handler before *)
(* it, and neither counter ever has more than all increments together.     *)
OneLostEach == /\ pc = "ended" => sum >= 2 + handled
               /\ a <= handled + 1 /\ b <= handled + 1

=============================================================================
