----------------------------- MODULE RequestReply ------------------------------
(***************************************************************************)
(* What the UDP programs promise their users: a client asks one thing at a *)
(* time and gets the answer to that.  Once a datagram of it has been       *)
(* duplicated, the answer may be to anything it has asked before.          *)
(***************************************************************************)
EXTENDS Naturals

CONSTANTS Clients, MaxRequests

VARIABLES asked, answered,  \* the last request of each client, and answer it got
          waiting,          \* the clients that have asked and got no answer yet
          duplicated        \* the clients of which a datagram was duplicated

Init == /\ asked = [c \in Clients |-> 0]
        /\ answered = [c \in Clients |-> 0]
        /\ waiting = {} /\ duplicated = {}

(* A client asks when its last request has been answered.                  *)
Ask(c) == /\ c \notin waiting /\ (c \in duplicated \/ answered[c] = asked[c])
          /\ asked[c] < MaxRequests
          /\ asked' = [asked EXCEPT ![c] = @ + 1]
          /\ waiting' = waiting \cup {c}
          /\ UNCHANGED answered

Answers(c) == IF c \in duplicated THEN 1..asked[c] ELSE {asked[c]}

Answer(c) == /\ c \in waiting
             /\ \E k \in Answers(c) : answered' = [answered EXCEPT ![c] = k]
             /\ waiting' = waiting \ {c}
             /\ UNCHANGED asked

GiveUp(c) == c \in waiting /\ waiting' = waiting \ {c} /\ UNCHANGED <<asked, answered>>

(* The network may duplicate a datagram in any step.                       *)
Next == /\ duplicated \subseteq duplicated'
        /\ \/ \E c \in Clients : Ask(c) \/ Answer(c) \/ GiveUp(c)
           \/ UNCHANGED <<asked, answered, waiting>>

Spec == Init /\ [][Next]_<<asked, answered, waiting, duplicated>>

=============================================================================
