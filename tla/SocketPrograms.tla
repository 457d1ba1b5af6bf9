----------------------------- MODULE SocketPrograms ----------------------------
(***************************************************************************)
(* The programs around sockets, side by side: the select server of         *)
(* TCP/server.c (SelectServer); main1 of the same file, the servers over   *)
(* TCPsocket.hpp, and Webserver.c (TcpServers); one connection of the web  *)
(* server (WebStream); the UDP programs (Datagram); and how clients and    *)
(* server of UNIXDomainSocketIPC meet (UnixConn).  Each is a system of its *)
(* own and they share nothing; `program` is the one that was started, the  *)
(* variables of the others stay as they are.                               *)
(***************************************************************************)
EXTENDS SelectServer

CONSTANTS TcpClients, Descriptors, Workers, Parent,   \* TcpServers
          MaxChunks,                                  \* WebStream
          UdpClients, MaxRequests,                    \* Datagram
          UnixClients, Pids                           \* UnixConn

ASSUME SocketProgramsAssumption ==
  /\ Nobody \notin TcpClients \cup UdpClients \cup UnixClients \cup Pids
  /\ Descriptors \subseteq Nat
  /\ IsFiniteSet(Workers) /\ Workers \subseteq Nat /\ Parent \notin Workers
  /\ MaxChunks \in Nat /\ MaxRequests \in Nat

VARIABLE program

TcpPrograms == {"main1", "servTCP.cpp", "processServTCP.cpp", "threadServTCP.cpp", "Webserver.c"}
UdpPrograms == {"UDP/client.c", "cliUDP.cpp"}
Programs == {"TCP/server.c", "Webclient.c", "UNIX/cli_conn.c"} \cup TcpPrograms \cup UdpPrograms

(* The servers with a worker for each client.                              *)
VARIABLES tpc, newSockfd, files, worker, sockfd, at, mine, tclient, tbacklog, tunread,
          reply, raced, peak
T == INSTANCE TcpServers WITH
       Clients <- TcpClients, Fds <- Descriptors, Server <- Parent, None <- Nobody,
       kind <- IF program \in TcpPrograms THEN program ELSE "servTCP.cpp",
       pc <- tpc, client <- tclient, backlog <- tbacklog, unread <- tunread

(* One connection of Webserver.c and Webclient.c.                          *)
VARIABLES spc, stream, chunks, wpc, request, begun, unseen
W == INSTANCE WebStream WITH cpc <- wpc

(* The UDP programs.                                                       *)
VARIABLES dpc, asked, answered, dspc, buf, datagrams, duplicated
D == INSTANCE Datagram WITH Clients <- UdpClients, None <- Nobody,
                            loopback <- (program = "UDP/client.c"),
                            cpc <- dpc, spc <- dspc, net <- datagrams
ASSUME NobodyIsNoDatagram == Nobody \notin D!Datagrams

(* cli_conn, serv_listen and serv_accept.                                  *)
VARIABLES upc, pid, path, ubacklog, uspc, clifd, reused
U == INSTANCE UnixConn WITH Clients <- UnixClients, None <- Nobody,
                            cpc <- upc, backlog <- ubacklog, spc <- uspc

tvars == <<tpc, newSockfd, files, worker, sockfd, at, mine, tclient, tbacklog, tunread,
           reply, raced, peak>>
wvars == <<spc, stream, chunks, wpc, request, begun, unseen>>
dvars == <<dpc, asked, answered, dspc, buf, datagrams, duplicated>>
uvars == <<upc, pid, path, ubacklog, uspc, clifd, reused>>
allVars == <<program, vars, tvars, wvars, dvars, uvars>>

StartedInit == program \in Programs /\ Init /\ T!Init /\ W!Init /\ D!Init /\ U!Init

(* A step A of one program.                                                *)
Selecting(A) == /\ program = "TCP/server.c"
                /\ UNCHANGED <<program, tvars, wvars, dvars, uvars>>
                /\ A
Serving(A) == /\ program \in TcpPrograms
              /\ UNCHANGED <<program, vars, wvars, dvars, uvars>>
              /\ A
Browsing(A) == /\ program = "Webclient.c"
               /\ UNCHANGED <<program, vars, tvars, dvars, uvars>>
               /\ A
Sending(A) == /\ program \in UdpPrograms
              /\ UNCHANGED <<program, vars, tvars, wvars, uvars>>
              /\ A
Meeting(A) == /\ program = "UNIX/cli_conn.c"
              /\ UNCHANGED <<program, vars, tvars, wvars, dvars>>
              /\ A

StartedNext == \/ Selecting(Next) \/ Serving(T!Next) \/ Browsing(W!Next)
               \/ Sending(D!Next) \/ Meeting(U!Next)

StartedSpec == StartedInit /\ [][StartedNext]_allVars

(* Servers, children and threads run; clients need not do anything but     *)
(* read the answer they wait for.                                          *)
StartedFairSpec ==
  /\ StartedSpec
  /\ WF_allVars(Selecting(Server))
  /\ WF_allVars(Serving(T!Main))
  /\ \A w \in Workers : WF_allVars(Serving(T!Worker(w)))
  /\ \A c \in TcpClients : WF_allVars(Serving(T!TakeReply(c)))
  /\ WF_allVars(Browsing(W!server))
  /\ WF_allVars(Browsing(W!ReadSome)) /\ WF_allVars(Browsing(W!ReadNone))
  /\ WF_allVars(Meeting(U!Server))

-----------------------------------------------------------------------------
AllTypeOK == TypeOK /\ T!TypeOK /\ W!TypeOK /\ D!TypeOK /\ U!TypeOK

(* TcpServers: each worker has the descriptor of its own client, unless    *)
(* accept of threadServTCP.cpp was faster than a new thread; and           *)
(* Webserver.c does not collect zombies.                                   *)
WorkersInOrder == T!OneWorkerEach /\ T!ZombiesBounded

(* WebStream: nothing of one answer is taken for a part of the next.       *)
AnswersApart == W!AnswersApart

(* Datagram: a client that waits for each answer has one datagram under    *)
(* way and therefore gets the answer to what it has asked, until the       *)
(* network duplicates one.                                                 *)
RequestReplySpec == D!RequestReplySpec /\ []D!OneInFlight

(* UnixConn: the server finds the path of every client that calls, unless  *)
(* a pid was reused too early.                                             *)
PathsInOrder == U!PathsInOrder

(* Whoever has asked is answered, however many others there are: by the    *)
(* select server if clients read their echoes, by a worker if it has one,  *)
(* over the stream if it sees the end mark, and by serv_accept.            *)
EveryClientServed == ServedAndDropped /\ T!Answered /\ W!AnswersEnd /\ U!Accepted

=============================================================================
