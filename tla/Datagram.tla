------------------------------- MODULE Datagram --------------------------------
(***************************************************************************)
(* The UDP programs: client.c and server.c of LinuxC/socket/UDP; cliUDP.cpp*)
(* with servUDP.cpp, both over UDPsocket.hpp, and servUDP.c, which say what *)
(* somebody types instead of upper case.                                   *)
(*                                                                         *)
(* Nobody sends anything twice, looks where a datagram comes from or which *)
(* request it answers, or waits for a limited time.  The network loses     *)
(* datagrams and delivers them in any order; between hosts it may also     *)
(* deliver one twice, on the loopback address of client.c it does not.     *)
(* Requests are numbered; an answer carries the number of its request.     *)
(***************************************************************************)
EXTENDS Naturals

CONSTANTS Clients,
          MaxRequests,  \* bound: the requests of one client
          None

VARIABLES loopback,    \* client.c, or cliUDP.cpp on another host
          cpc,         \* of each client: "input", "recvfrom" or "exited"
          asked,       \* the number of its last request
          answered,    \* the number the answer it took last belongs to
          spc,         \* of the server: "recvfrom", "sendto" or "exited"
          buf,         \* the request the server is answering
          net,         \* the datagrams under way
          duplicated   \* history: the clients of which the network has delivered
                       \* a request or an answer and kept a copy

clients == <<cpc, asked, answered>>
servers == <<spc, buf>>
network == <<net, duplicated>>
vars == <<loopback, clients, servers, network>>

Datagrams == [to : {"server", "client"}, peer : Clients, number : 1..MaxRequests]

Request(c, k) == [to |-> "server", peer |-> c, number |-> k]
Reply(request) == [request EXCEPT !.to = "client"]

Init == /\ loopback \in BOOLEAN
        /\ cpc = [c \in Clients |-> "input"]
        /\ asked = [c \in Clients |-> 0] /\ answered = [c \in Clients |-> 0]
        /\ spc = "recvfrom" /\ buf = None
        /\ net = {} /\ duplicated = {}

-----------------------------------------------------------------------------
(* A datagram arrives; between hosts a copy of it may arrive later.        *)
Deliver(d) == \/ net' = net \ {d} /\ UNCHANGED duplicated
              \/ ~loopback /\ UNCHANGED net /\ duplicated' = duplicated \cup {d.peer}

SendLine(c) == /\ asked[c] < MaxRequests
               /\ cpc' = [cpc EXCEPT ![c] = "recvfrom"]
               /\ asked' = [asked EXCEPT ![c] = @ + 1]
               /\ net' = net \cup {Request(c, asked'[c])}
               /\ UNCHANGED <<loopback, answered, servers, duplicated>>

(* Seeded fault: the client sends its next line before it has called       *)
(* recvfrom for the answer to the last one.                                *)
SendtoNoWait(c) == cpc[c] \in {"input", "recvfrom"} /\ SendLine(c)

(* A client reads a line and sends it.                                     *)
Sendto(c) == cpc[c] = "input" /\ SendLine(c)

(* It takes the first datagram that arrives.                               *)
Recvfrom(c, d) == /\ cpc[c] = "recvfrom"
                  /\ d.to = "client" /\ d.peer = c
                  /\ cpc' = [cpc EXCEPT ![c] = "input"]
                  /\ answered' = [answered EXCEPT ![c] = d.number]
                  /\ Deliver(d)
                  /\ UNCHANGED <<loopback, asked, servers>>

(* Any call fails, or its input ends.                                      *)
ClientExits(c) == /\ cpc[c] # "exited"
                  /\ cpc' = [cpc EXCEPT ![c] = "exited"]
                  /\ UNCHANGED <<loopback, asked, answered, servers, network>>

ServerRecvfrom(d) == /\ spc = "recvfrom" /\ d.to = "server"
                     /\ spc' = "sendto" /\ buf' = d
                     /\ Deliver(d)
                     /\ UNCHANGED <<loopback, clients>>

ServerSendto == /\ spc = "sendto" /\ spc' = "recvfrom"
                /\ net' = net \cup {Reply(buf)}
                /\ buf' = None
                /\ UNCHANGED <<loopback, clients, duplicated>>

ServerExits == /\ spc # "exited" /\ spc' = "exited" /\ buf' = None
               /\ UNCHANGED <<loopback, clients, network>>

Lose(d) == net' = net \ {d} /\ UNCHANGED <<loopback, clients, servers, duplicated>>

Server == ServerSendto \/ \E d \in net : ServerRecvfrom(d)

(* A client whose datagram is lost waits for ever, the server always does. *)
Idle == UNCHANGED vars

Next == \/ Server \/ ServerExits \/ Idle
        \/ \E c \in Clients : Sendto(c) \/ ClientExits(c)
        \/ \E d \in net : Lose(d) \/ \E c \in Clients : Recvfrom(c, d)

Spec == Init /\ [][Next]_vars

-----------------------------------------------------------------------------
TypeOK == /\ loopback \in BOOLEAN
          /\ cpc \in [Clients -> {"input", "recvfrom", "exited"}]
          /\ asked \in [Clients -> 0..MaxRequests]
          /\ answered \in [Clients -> 0..MaxRequests]
          /\ spc \in {"recvfrom", "sendto", "exited"}
          /\ buf \in Datagrams \cup {None} /\ net \subseteq Datagrams
          /\ duplicated \subseteq Clients

(* Because a client sends nothing while it waits, one datagram of it at    *)
(* most is anywhere, and none while it reads its input: losses and a       *)
(* change of order are harmless to what it is told.  Only a copy changes   *)
(* that, for the client it belongs to and from then on; over the loopback  *)
(* address there is none.                                                  *)
OneInFlight ==
  LET held(c) == {d \in net \cup ({buf} \ {None}) : d.peer = c}
  IN /\ \A c \in Clients \ duplicated : /\ \A d, e \in held(c) : d = e
                                         /\ cpc[c] = "input" => held(c) = {}
     /\ loopback => duplicated = {}

(* Then a client is answered what it has asked: RequestReply.              *)
Waiting == {c \in Clients : cpc[c] = "recvfrom"}
Promise == INSTANCE RequestReply WITH waiting <- Waiting
RequestReplySpec == Promise!Spec

=============================================================================
