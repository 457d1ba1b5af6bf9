------------------------------- MODULE Pthread -------------------------------
(***************************************************************************)
(* The parts of the pthread library that the programs of this repository   *)
(* call and that need more than one assignment to describe.  The library   *)
(* is not in the repository: each operator says what the programs rely on. *)
(* In every module a mutex is the identity of the thread that owns it, or  *)
(* Nobody, and a thread is asleep in a condition variable when its program *)
(* counter says so.                                                        *)
(***************************************************************************)

(* pthread_cond_signal wakes at least one sleeper if there is one: the     *)
(* possible sets of threads it wakes.                                      *)
Wakeable(sleepers) == IF sleepers = {} THEN {{}} ELSE (SUBSET sleepers) \ {{}}

(* The program counters after thread t has signalled and moved on to       *)
(* `next`: the threads in `woken` have left the condition variable and     *)
(* return from pthread_cond_wait through pthread_mutex_lock, at `relock`.  *)
AfterSignal(pc, t, next, woken, relock) ==
  [u \in DOMAIN pc |-> IF u = t THEN next
                       ELSE IF u \in woken THEN relock ELSE pc[u]]

=============================================================================
