-------------------------- MODULE ChildReaperProofs --------------------------
(***************************************************************************)
(* For any number of children: merging signals hides no exit from the      *)
(* parent.                                                                 *)
(***************************************************************************)
EXTENDS ChildReaper, TLAPS

(* Both invariants together are inductive.                                 *)
IInv == TypeOK /\ ZombieNoticed

(* Before the first fork there is no zombie.                               *)
LEMMA InitIInv == Init => IInv
BY DEF Init, IInv, TypeOK, ZombieNoticed, zombies

(* A step that makes a zombie leaves a signal pending, a step that takes   *)
(* the signal enters the loop, and the loop is left without zombies.       *)
LEMMA NextIInv == IInv /\ [Next]_vars => IInv'
<1> SUFFICES ASSUME TypeOK, ZombieNoticed, [Next]_vars
             PROVE  TypeOK' /\ ZombieNoticed'
  BY DEF IInv
<1> USE DEF TypeOK, ZombieNoticed, zombies
<1>1. ASSUME NEW c \in Children, Fork(c)
      PROVE  TypeOK' /\ ZombieNoticed'
  BY <1>1 DEF Fork
<1>2. ASSUME NEW c \in Children, Exit(c)
      PROVE  TypeOK' /\ ZombieNoticed'
  BY <1>2 DEF Exit
<1>3. CASE Deliver
  BY <1>3 DEF Deliver
<1>4. ASSUME NEW c \in Children, Reap(c)
      PROVE  TypeOK' /\ ZombieNoticed'
  BY <1>4 DEF Reap
<1>5. CASE ReapNone
  BY <1>5 DEF ReapNone
<1>6. CASE Return
  BY <1>6 DEF Return
<1>7. CASE UNCHANGED vars
  BY <1>7 DEF vars
<1> QED
  BY <1>1, <1>2, <1>3, <1>4, <1>5, <1>6, <1>7 DEF Next, Handler

(* The invariant holds in every reachable state.                           *)
THEOREM Invariance == Spec => []IInv
<1>1. Init => IInv
  BY InitIInv
<1>2. IInv /\ [Next]_vars => IInv'
  BY NextIInv
<1> QED
  BY <1>1, <1>2, PTL DEF Spec

(* Every variable keeps its type.                                          *)
THEOREM TypeCorrect == Spec => []TypeOK
<1>1. IInv => TypeOK
  BY DEF IInv
<1> QED
  BY <1>1, Invariance, PTL

(* While a child is a zombie, a SIGCHLD is pending or the handler is to    *)
(* call waitpid (zombie.c:7-13, processServTCP.cpp:6-14).                  *)
THEOREM NoExitForgotten == Spec => []ZombieNoticed
<1>1. IInv => ZombieNoticed
  BY DEF IInv
<1> QED
  BY <1>1, Invariance, PTL

=============================================================================
