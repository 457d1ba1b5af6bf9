----------------------------- MODULE ForkServer ------------------------------
(***************************************************************************)
(* The two servers that fork a child per connection and keep a book of     *)
(* their pids: main2 of LinuxC/socket/TCP/server.c, and server.c of        *)
(* LinuxC/socket/UNIXDomainSocketIPC with serv_accept.c (unixDomain).      *)
(*                                                                         *)
(* The server scans its book and waits for each pid in it without          *)
(* blocking, accepts, forks, closes its copy of the connection and writes  *)
(* the pid into the first empty entry.  No entry is ever emptied again; a  *)
(* child too many is written behind the array, and what the server does    *)
(* after that is undefined (pc "overrun").                                 *)
(*                                                                         *)
(* A read or write on a connection that was reset fails or kills the       *)
(* child by SIGPIPE; either way it ends.  The listening descriptor, which  *)
(* every child closes first, is left out.                                  *)
(***************************************************************************)
EXTENDS Naturals, Functions

CONSTANTS Pids,       \* bound: a pid may be used again once it is reaped
          BookSize,   \* 20 in the code
          Clients,    \* bound: the clients there are at one time
          Server, None

VARIABLES pid_book,   \* None (0 in the code) or a pid
          i,          \* the entry that is scanned next
          connfd,     \* the connection accepted, None if serv_accept failed
          pid,        \* what fork returned
          pc,         \* of the server
          child,      \* of each pid: "none", "read", "write" or "zombie"
          fd,         \* the connection a child talks on, None if it has none
          held,       \* the connections each process has a descriptor of
          client,     \* "out", "idle", "asking" or "closed"
          queue,      \* the clients connected and not accepted yet
          old,        \* history: the zombies there were when the scan began
          unixDomain  \* whether this is the UNIX domain server

server == <<unixDomain, pid_book, i, connfd, pid, pc, old>>
vars == <<server, child, fd, held, client, queue>>

Processes == Pids \cup {Server}
Book == 0..BookSize-1
zombies == {p \in Pids : child[p] = "zombie"}

Goto(from, to) == pc = from /\ pc' = to

Init == /\ unixDomain \in BOOLEAN
        /\ pid_book = [n \in Book |-> None]
        /\ i = 0 /\ connfd = None /\ pid = None
        /\ pc = "scan"
        /\ child = [p \in Pids |-> "none"]
        /\ fd = [p \in Pids |-> None]
        /\ held = [q \in Processes |-> {}]
        /\ client = [c \in Clients |-> "out"]
        /\ queue = {}
        /\ old = {}

(* waitpid(pid_book[i], NULL, WNOHANG)                                     *)
Scan == /\ pc = "scan"
        /\ child' = [p \in Pids |-> IF p = pid_book[i] /\ child[p] = "zombie"
                                    THEN "none" ELSE child[p]]
        /\ i' = i + 1
        /\ pc' = IF i' = BookSize THEN "accept" ELSE "scan"
        /\ UNCHANGED <<pid_book, connfd, pid, old, fd, held, client, queue>>

Accept == /\ Goto("accept", "fork")
          /\ \E c \in queue : /\ connfd' = c
                              /\ queue' = queue \ {c}
                              /\ held' = [held EXCEPT ![Server] = @ \cup {c}]
          /\ UNCHANGED <<pid_book, i, pid, old, child, fd, client>>

(* Accept of wrap.c ends the process; serv_accept returns a negative       *)
(* number, having closed the connection if it was accepted, and the UNIX   *)
(* domain server goes on with it.                                          *)
AcceptFails == /\ pc = "accept" /\ queue # {}
               /\ pc' = IF unixDomain THEN "fork" ELSE "stopped"
               /\ connfd' = None
               /\ queue' \in {queue} \cup {queue \ {c} : c \in queue}
               /\ UNCHANGED <<pid_book, i, pid, old, child, fd, held, client>>

Fork(p) == /\ Goto("fork", "close")
           /\ child[p] = "none"
           /\ pid' = p
           /\ child' = [child EXCEPT ![p] = "read"]
           /\ fd' = [fd EXCEPT ![p] = connfd]
           /\ held' = [held EXCEPT ![p] = held[Server]]
           /\ UNCHANGED <<pid_book, i, connfd, old, client, queue>>

(* exit(1): the server is gone with its descriptors, the children stay.    *)
ForkFails == /\ Goto("fork", "stopped")
             /\ held' = [held EXCEPT ![Server] = {}]
             /\ UNCHANGED <<pid_book, i, connfd, pid, old, child, fd, client, queue>>

Close == /\ Goto("close", "find")
         /\ held' = [held EXCEPT ![Server] = @ \ {connfd}]
         /\ UNCHANGED <<pid_book, i, connfd, pid, old, child, fd, client, queue>>

(* Seeded fault: the pid is written over the first entry that is taken.    *)
EmptyTaken(n) == /\ pid_book[n] # None \/ n = 0
                 /\ \A m \in 0..n-1 : pid_book[m] = None

(* The first empty entry.                                                  *)
Empty(n) == pid_book[n] = None /\ \A m \in 0..n-1 : pid_book[m] # None

Enter(n) == /\ Goto("find", "scan")
            /\ Empty(n)
            /\ pid_book' = [pid_book EXCEPT ![n] = pid]
            /\ i' = 0 /\ old' = zombies
            /\ UNCHANGED <<connfd, pid, child, fd, held, client, queue>>

Overrun == /\ Goto("find", "overrun")
           /\ \A n \in Book : ~Empty(n)
           /\ UNCHANGED <<pid_book, i, connfd, pid, old, child, fd, held, client, queue>>

Main == /\ \/ Scan \/ Accept \/ AcceptFails \/ ForkFails \/ Close \/ Overrun
           \/ \E p \in Pids : Fork(p)
           \/ \E n \in Book : Enter(n)
        /\ UNCHANGED unixDomain

-----------------------------------------------------------------------------
(* The child that serves connection c = fd[p].                             *)

ReadRequest(p) == /\ child[p] = "read" /\ fd[p] # None
                  /\ client[fd[p]] = "asking"
                  /\ child' = [child EXCEPT ![p] = "write"]
                  /\ UNCHANGED <<server, fd, held, client, queue>>

Write(p) == /\ child[p] = "write"
            /\ client[fd[p]] = "asking"
            /\ client' = [client EXCEPT ![fd[p]] = "idle"]
            /\ child' = [child EXCEPT ![p] = "read"]
            /\ UNCHANGED <<server, fd, held, queue>>

(* read returns 0 and the child closes connfd and exits, or the connection *)
(* was reset and it ends in read or write.  A child whose connfd is        *)
(* negative reads and writes in vain for ever.                             *)
End(p) == /\ child[p] \in {"read", "write"} /\ fd[p] # None
          /\ client[fd[p]] = "closed"
          /\ child' = [child EXCEPT ![p] = "zombie"]
          /\ held' = [held EXCEPT ![p] = {}]
          /\ fd' = [fd EXCEPT ![p] = None]
          /\ UNCHANGED <<server, client, queue>>

Child(p) == ReadRequest(p) \/ Write(p) \/ End(p)

-----------------------------------------------------------------------------
(* The clients: client.c of either directory.                              *)

Connected(c) == c \in queue \/ \E q \in Processes : c \in held[q]

Connect(c) == /\ client[c] = "out" /\ pc \notin {"stopped", "overrun"}
              /\ client' = [client EXCEPT ![c] = "idle"]
              /\ queue' = queue \cup {c}
              /\ UNCHANGED <<server, child, fd, held>>

Ask(c) == /\ client[c] = "idle"
          /\ client' = [client EXCEPT ![c] = "asking"]
          /\ UNCHANGED <<server, child, fd, held, queue>>

(* Its input ends, it is killed, or it sees the end of the connection.     *)
CloseClient(c) == /\ client[c] \in {"idle", "asking"}
                  /\ client' = [client EXCEPT ![c] = "closed"]
                  /\ UNCHANGED <<server, child, fd, held, queue>>

(* Nobody holds the connection any more; the client may come again.        *)
Gone(c) == /\ client[c] = "closed"
           /\ ~Connected(c) \/ (c \in queue /\ pc = "stopped")
           /\ client' = [client EXCEPT ![c] = "out"]
           /\ queue' = queue \ {c}
           /\ UNCHANGED <<server, child, fd, held>>

Kernel == \E c \in Clients : Gone(c)

(* The server waits in accept for ever if no client comes; or it is gone,  *)
(* or its behaviour is no longer defined.                                  *)
Stopped == pc \in {"accept", "stopped", "overrun"} /\ UNCHANGED vars

Next == \/ Main \/ Kernel \/ Stopped
        \/ \E p \in Pids : Child(p)
        \/ \E c \in Clients : Connect(c) \/ Ask(c) \/ CloseClient(c)

Spec == Init /\ [][Next]_vars

(* Every process runs; clients need not do anything.                       *)
FairSpec == /\ Spec
            /\ WF_vars(Main) /\ WF_vars(Kernel)
            /\ \A p \in Pids : WF_vars(Child(p))

-----------------------------------------------------------------------------
TypeOK == /\ unixDomain \in BOOLEAN
          /\ pid_book \in [Book -> Pids \cup {None}]
          /\ i \in 0..BookSize
          /\ connfd \in Clients \cup {None}
          /\ pid \in Pids \cup {None}
          /\ pc \in {"scan", "accept", "fork", "close", "find", "stopped", "overrun"}
          /\ child \in [Pids -> {"none", "read", "write", "zombie"}]
          /\ fd \in [Pids -> Clients \cup {None}]
          /\ held \in [Processes -> SUBSET Clients]
          /\ client \in [Clients -> {"out", "idle", "asking", "closed"}]
          /\ queue \in SUBSET Clients
          /\ old \in SUBSET Pids

(* The book knows every child, so that each can be waited for: the one     *)
(* just forked excepted, until the server has written it down or has run   *)
(* out of entries (server.c:146-151).                                      *)
ChildrenInBook ==
  \A p \in Pids : \/ child[p] = "none" \/ p \in Range(pid_book)
                  \/ p = pid /\ pc \in {"close", "find", "overrun"}

(* A scan leaves no child behind that had exited when it began, also if    *)
(* pids are in the book twice (server.c:119-123).                          *)
ScanReaps == pc = "accept" => old \cap zombies = {}

(* No process holds a connection that is not its own: a client sees the    *)
(* end of its connection when its own child ends.                          *)
OnlyItsOwn == \A c \in Clients : \A p \in Pids : c \in held[p] => fd[p] = c

(* All three.                                                              *)
ChildrenInOrder == ChildrenInBook /\ ScanReaps /\ OnlyItsOwn

(* A connection that its client has closed is let go by everybody.         *)
ConnectionsEnd == \A c \in Clients : []<>(client[c] # "closed" \/ pc = "overrun")

(* The child of a client answers it, however many others there are.        *)
Answered == \A p \in Pids : []<>(fd[p] = None \/ client[fd[p]] # "asking")

(* Both.                                                                   *)
EveryClientServed == ConnectionsEnd /\ Answered

=============================================================================
