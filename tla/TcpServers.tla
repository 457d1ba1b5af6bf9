------------------------------ MODULE TcpServers -------------------------------
(***************************************************************************)
(* Five servers.  processServTCP.cpp and Webserver.c (a child per client)  *)
(* and threadServTCP.cpp (a thread per client) talk to each client for as  *)
(* long as it likes; servTCP.cpp and main1 of TCP/server.c answer one      *)
(* request per connection, one client after the other, and only the latter *)
(* closes the connection then.  cliTCP.cpp, TCP/client.c and Webclient.c   *)
(* are the clients.                                                        *)
(*                                                                         *)
(* What matters is who has which descriptor.  Threads share the server's   *)
(* table, a child gets a copy of it; accept hands out the lowest free      *)
(* number, and a number that was closed comes back for another client.  A  *)
(* thread is not given its descriptor but the address of the variable      *)
(* accept writes to.  A worker is the thread or child that serves a        *)
(* client; with one client after the other it is main itself, which then   *)
(* accepts nobody else.  The listening descriptor is left out, and so is   *)
(* what is said.                                                           *)
(***************************************************************************)
EXTENDS Integers, FiniteSetsExt, Functions

CONSTANTS Clients,
          Fds,       \* bound: the descriptors there are
          Workers,   \* bound: numbers (pids, which Webserver.c takes for descriptors)
          Server, None

VARIABLES kind,       \* which server
          pc,         \* of main: "reap", "accept", "start", "join" or "dead"
          newSockfd,
          files,      \* the table of descriptors of each process
          worker,     \* "none", "start", "call", "recv", "send", "close" or "zombie"
          sockfd,     \* the descriptor of each worker
          at,         \* the connection a worker is inside recv on
          mine,       \* history: the connection a worker was started for
          client,     \* "away", "idle", "waiting" or "closed"
          backlog,    \* the clients waiting to be accepted
          unread,     \* the clients that have sent what nobody has received
          reply,      \* the clients that have been sent what they have not received
          raced,      \* history: accept ran before a thread had read its descriptor
          peak        \* history: most children of Webserver.c alive at once

main == <<kind, pc, newSockfd, raced, peak>>
work == <<worker, sockfd, at, mine>>
net == <<client, backlog, unread, reply>>
vars == <<main, files, work, net>>

Kinds == {"main1", "servTCP.cpp", "processServTCP.cpp", "threadServTCP.cpp", "Webserver.c"}
alone == kind \in {"main1", "servTCP.cpp"}
forks == kind \in {"processServTCP.cpp", "Webserver.c"}
Processes == Workers \cup {Server}
Owner(w) == IF forks THEN w ELSE Server         \* whose table w uses
Busy(w) == worker[w] \notin {"none", "zombie"}
alive == {w \in Workers : Busy(w)}
Free == {fd \in Fds : files[Server][fd] = None}
Empty == [fd \in Fds |-> None]
Left == {c \in Clients : client[c] = "closed"}

(* The connection behind the descriptor of w, None if it is not open.      *)
Conn(w) == IF sockfd[w] \in Fds THEN files[Owner(w)][sockfd[w]] ELSE None

Held(c) == \/ c \in backlog /\ pc # "dead"
           \/ \E p \in Processes : c \in Range(files[p])
           \/ \E w \in Workers : at[w] = c

Loop == IF kind = "Webserver.c" THEN "reap" ELSE "accept"

Init == /\ kind \in Kinds
        /\ pc = Loop /\ newSockfd = -1
        /\ files = [p \in Processes |-> Empty]
        /\ worker = [w \in Workers |-> "none"] /\ sockfd = [w \in Workers |-> -1]
        /\ at = [w \in Workers |-> None] /\ mine = [w \in Workers |-> None]
        /\ client = [c \in Clients |-> "away"]
        /\ backlog = {} /\ unread = {} /\ reply = {}
        /\ raced = FALSE /\ peak = 0

-----------------------------------------------------------------------------
(* main                                                                    *)

(* connfd = waitpid(-1, NULL, WNOHANG); if (connfd > 0) close(connfd): one *)
(* child is reaped, and its pid is closed as if it were a descriptor.      *)
Reap == /\ pc = "reap" /\ pc' = "accept"
        /\ LET zombies == {w \in Workers : worker[w] = "zombie"}
           IN \/ /\ zombies = {}
                 /\ UNCHANGED <<files, worker>>
              \/ \E w \in zombies :
                   /\ worker' = [worker EXCEPT ![w] = "none"]
                   /\ files' = IF w \in Fds THEN [files EXCEPT ![Server][w] = None] ELSE files
        /\ UNCHANGED <<kind, newSockfd, raced, peak, sockfd, at, mine, net>>

(* Every call of accept writes to newSockfd.                               *)
Overwrites == raced' = (raced \/ \E w \in Workers : worker[w] = "start")

Accept(c) == /\ pc = "accept" /\ c \in backlog /\ Free # {}
             /\ pc' = "start"
             /\ newSockfd' = Min(Free)
             /\ files' = [files EXCEPT ![Server][newSockfd'] = c]
             /\ backlog' = backlog \ {c}
             /\ Overwrites
             /\ UNCHANGED <<kind, peak, work, client, unread, reply>>

(* No descriptor is left (main1 closes them all): three servers try again  *)
(* at once, Webserver.c goes on with -1.                                   *)
AcceptFails == /\ pc = "accept" /\ Free = {} /\ kind # "main1"
               /\ pc' = IF kind = "Webserver.c" THEN "start" ELSE "accept"
               /\ newSockfd' = -1
               /\ Overwrites
               /\ UNCHANGED <<kind, peak, files, work, net>>

(* A thread has still to read its descriptor; a child has a copy of the    *)
(* variable and of the table.  No parent closes its copy.                  *)
Start(w) == /\ pc = "start" /\ worker[w] = "none"
            /\ kind = "Webserver.c" \/ \A v \in 1..w-1 : v \in Workers => worker[v] # "none"
            /\ pc' = IF alone THEN "join" ELSE Loop
            /\ LET begin == IF kind = "threadServTCP.cpp" THEN "start" ELSE "call"
               IN worker' = [worker EXCEPT ![w] = begin]
            /\ sockfd' = [sockfd EXCEPT ![w] = newSockfd]
            /\ mine' = [mine EXCEPT ![w] = IF newSockfd = -1 THEN None
                                           ELSE files[Server][newSockfd]]
            /\ files' = IF forks THEN [files EXCEPT ![w] = files[Server]] ELSE files
            /\ peak' = IF kind = "Webserver.c" /\ peak <= Cardinality(alive)
                       THEN Cardinality(alive) + 1 ELSE peak
            /\ UNCHANGED <<kind, newSockfd, raced, at, net>>

(* processServTCP.cpp takes -1 for the pid of a child, Webserver.c exits.  *)
ForkFails == /\ pc = "start" /\ forks
             /\ IF kind = "Webserver.c"
                THEN pc' = "dead" /\ files' = [files EXCEPT ![Server] = Empty]
                ELSE pc' = Loop /\ files' = files
             /\ UNCHANGED <<kind, newSockfd, raced, peak, work, net>>

Main == \/ Reap \/ AcceptFails \/ ForkFails
        \/ \E c \in Clients : Accept(c)
        \/ \E w \in Workers : Start(w)

-----------------------------------------------------------------------------
(* The worker that serves a client.                                        *)

At(w, from, to) == worker[w] = from /\ worker' = [worker EXCEPT ![w] = to]

(* The workers of set S end; children of Webserver.c wait to be reaped.    *)
End(S) == /\ worker' = [w \in Workers |-> IF w \notin S THEN worker[w]
                                          ELSE IF kind = "Webserver.c" THEN "zombie" ELSE "none"]
          /\ sockfd' = [w \in Workers |-> IF w \in S THEN -1 ELSE sockfd[w]]
          /\ at' = [w \in Workers |-> IF w \in S THEN None ELSE at[w]]
          /\ mine' = [w \in Workers |-> IF w \in S THEN None ELSE mine[w]]

(* The thread reads the variable its argument points to.                   *)
ReadArg(w) == /\ At(w, "start", "call")
              /\ sockfd' = [sockfd EXCEPT ![w] = newSockfd]
              /\ UNCHANGED <<main, files, at, mine, net>>

(* recv is called.  If the descriptor is not open it fails; a child of     *)
(* Webserver.c with descriptor -1 tries for ever.                          *)
Call(w) == /\ IF Conn(w) # None THEN At(w, "call", "recv") ELSE At(w, "call", "close")
           /\ kind = "Webserver.c" => Conn(w) # None
           /\ at' = [at EXCEPT ![w] = Conn(w)]
           /\ UNCHANGED <<main, files, sockfd, mine, net>>

Receive(w) == /\ At(w, "recv", "send")
              /\ at[w] \in unread
              /\ unread' = unread \ {at[w]}
              /\ at' = [at EXCEPT ![w] = None]
              /\ UNCHANGED <<main, files, sockfd, mine, client, backlog, reply>>

(* recv returns 0, or fails because the connection was reset.  main1 does  *)
(* not look, and writes nothing or (length -1) to the connection.          *)
ReceiveEnd(w) == /\ IF kind = "main1" THEN At(w, "recv", "send") ELSE At(w, "recv", "close")
                 /\ at[w] \in Left \ unread
                 /\ at' = [at EXCEPT ![w] = None]
                 /\ UNCHANGED <<main, files, sockfd, mine, net>>

(* servTCP.cpp does not close the connection after the answer.             *)
Send(w) == /\ worker[w] = "send" /\ Conn(w) # None
           /\ reply' = reply \cup {Conn(w)}
           /\ IF kind = "servTCP.cpp"
              THEN End({w}) /\ pc' = "accept"
              ELSE /\ At(w, "send", IF kind = "main1" THEN "close" ELSE "call")
                   /\ UNCHANGED <<pc, sockfd, at, mine>>
           /\ UNCHANGED <<kind, newSockfd, raced, peak, files, client, backlog, unread>>

(* The descriptor is not open or the client has gone: send fails (and      *)
(* Webserver.c, which does not look at the result, goes on reading).       *)
SendFails(w) == /\ IF kind = "Webserver.c" THEN At(w, "send", "call")
                                           ELSE At(w, "send", "close")
                /\ Conn(w) \in Left \cup {None}
                /\ UNCHANGED <<main, files, sockfd, at, mine, net>>

(* Or SIGPIPE ends the process: a child, or the whole server.              *)
SendKills(w) == /\ worker[w] = "send" /\ Conn(w) \in Left
                /\ End(IF forks THEN {w} ELSE Workers)
                /\ pc' = IF forks THEN pc ELSE "dead"
                /\ files' = [files EXCEPT ![Owner(w)] = Empty]
                /\ UNCHANGED <<kind, newSockfd, raced, peak, net>>

(* Seeded fault: the worker does not end after closing its descriptor.     *)
CloseGoesOn(w) == /\ At(w, "close", "call")
                  /\ sockfd[w] \in Fds
                  /\ files' = [files EXCEPT ![Owner(w)][sockfd[w]] = None]
                  /\ UNCHANGED <<main, sockfd, at, mine, net>>

(* close(sockfd[w]), whatever the number stands for by now, and the end of *)
(* the worker.  The signal handler of processServTCP.cpp reaps its child   *)
(* (ChildReaper); that of Webserver.c waits for its parent.                *)
Close(w) == /\ worker[w] = "close"
            /\ End({w})
            /\ files' = IF forks THEN [files EXCEPT ![w] = Empty]
                        ELSE IF sockfd[w] \in Fds
                             THEN [files EXCEPT ![Server][sockfd[w]] = None]
                             ELSE files
            /\ pc' = IF alone THEN "accept" ELSE pc
            /\ UNCHANGED <<kind, newSockfd, raced, peak, net>>

Worker(w) == \/ ReadArg(w) \/ Call(w) \/ Receive(w) \/ ReceiveEnd(w)
             \/ Send(w) \/ SendFails(w) \/ SendKills(w) \/ Close(w)

-----------------------------------------------------------------------------
(* cliTCP.cpp: Send, then Recv, again and again; client.c may stop there.  *)

Client(c, from, to) == client[c] = from /\ client' = [client EXCEPT ![c] = to]

Connect(c) == /\ Client(c, "away", "idle") /\ pc # "dead"
              /\ backlog' = backlog \cup {c}
              /\ UNCHANGED <<main, files, work, unread, reply>>

Ask(c) == /\ Client(c, "idle", "waiting")
          /\ unread' = unread \cup {c}
          /\ UNCHANGED <<main, files, work, backlog, reply>>

TakeReply(c) == /\ Client(c, "waiting", "idle")
                /\ c \in reply /\ reply' = reply \ {c}
                /\ UNCHANGED <<main, files, work, backlog, unread>>

(* It is stopped, or receives the end of the connection.                   *)
CloseClient(c) == /\ Client(c, "idle", "closed") \/ Client(c, "waiting", "closed")
                  /\ UNCHANGED <<main, files, work, backlog, unread, reply>>

(* Nobody has the connection any more; the client may come again.          *)
Gone(c) == /\ Client(c, "closed", "away") /\ ~Held(c)
           /\ backlog' = backlog \ {c}
           /\ unread' = unread \ {c} /\ reply' = reply \ {c}
           /\ UNCHANGED <<main, files, work>>

(* The server waits for clients or for a bound of the model, or has ended. *)
Idle == pc # "reap" /\ UNCHANGED vars

Next == \/ Main \/ Idle
        \/ \E w \in Workers : Worker(w)
        \/ \E c \in Clients : Connect(c) \/ Ask(c) \/ TakeReply(c) \/ CloseClient(c) \/ Gone(c)

Spec == Init /\ [][Next]_vars

(* Every process and thread runs, and a client takes its answer.           *)
FairSpec == /\ Spec
            /\ WF_vars(Main)
            /\ \A w \in Workers : WF_vars(Worker(w))
            /\ \A c \in Clients : WF_vars(TakeReply(c))

-----------------------------------------------------------------------------
TypeOK == /\ kind \in Kinds /\ pc \in {"reap", "accept", "start", "join", "dead"}
          /\ newSockfd \in Fds \cup {-1}
          /\ files \in [Processes -> [Fds -> Clients \cup {None}]]
          /\ worker \in [Workers -> {"none", "start", "call", "recv", "send", "close", "zombie"}]
          /\ sockfd \in [Workers -> Fds \cup {-1}]
          /\ at \in [Workers -> Clients \cup {None}] /\ mine \in [Workers -> Clients \cup {None}]
          /\ client \in [Clients -> {"away", "idle", "waiting", "closed"}]
          /\ backlog \subseteq Clients /\ unread \subseteq Clients /\ reply \subseteq Clients
          /\ raced \in BOOLEAN /\ peak \in 0..Cardinality(Workers)

(* A worker receives from the connection that was accepted for it          *)
(* (threadServTCP.cpp:17: "through the new connection").                   *)
ThroughItsConnection == \A w \in Workers : at[w] \in {None, mine[w]}

(* The one way to mix clients up is the variable of threadServTCP.cpp.  As *)
(* long as every thread has read it in time, each worker has the           *)
(* descriptor of its own client until it ends, no client has two, and no   *)
(* client gets an answer it has not asked for.                             *)
OneWorkerEach == ~raced =>
  /\ \A w \in alive : worker[w] # "start" /\ mine[w] # None => Conn(w) = mine[w]
  /\ \A v, w \in alive : v # w /\ mine[v] = mine[w] => mine[v] = None
  /\ \A c \in reply : client[c] \in {"waiting", "closed"} /\ c \notin unread

(* Webserver.c reaps at most one child per connection, and that is enough: *)
(* there are never more than one child, dead or alive, above the number    *)
(* that were once alive together.                                          *)
ZombiesBounded ==
  kind = "Webserver.c" => Cardinality({w \in Workers : worker[w] # "none"}) <= peak + 1

(* A worker answers its client, whatever the others do.                    *)
Answered == \A w \in Workers :
  []<>(~Busy(w) \/ raced \/ mine[w] = None \/ client[mine[w]] # "waiting")

=============================================================================
