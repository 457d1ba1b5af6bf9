----------------------------- MODULE SelectServer -----------------------------
(***************************************************************************)
(* LinuxC/socket/TCP/server.c, main: one process serves many TCP clients   *)
(* with select, echoing what each sends in upper case.  The accepted       *)
(* descriptors are in client[], maxi bounds the entries in use, allset is  *)
(* the set to select on, and nready counts the ready descriptors not dealt *)
(* with yet, to leave the loops early.                                     *)
(*                                                                         *)
(* The clients and the kernel's side of the connections are environment;   *)
(* bytes are only counted.  Clients are taken to read their echoes, and a  *)
(* connection that is broken off while it waits is still accepted, so that *)
(* Accept of wrap.c need not try again (ECONNABORTED).  Program counters:  *)
(* select; listen (the test of listenfd); scan (the head of the loop over  *)
(* client[], at i); write (has read n bytes from client[i]).               *)
(***************************************************************************)
EXTENDS Integers, Sequences, FiniteSetsExt

CONSTANTS Clients,       \* the connections of the run
          FD_SETSIZE,    \* size of client[] and limit of descriptors (1024)
          MaxBytes,      \* bound: what one client sends in all
          Nobody

listenfd == 3
Fds == listenfd+1 .. FD_SETSIZE-1       \* what accept may return
Slots == 0..FD_SETSIZE-1

ASSUME SelectServerAssumption ==
  /\ IsFiniteSet(Clients) /\ Nobody \notin Clients
  /\ FD_SETSIZE \in Nat /\ FD_SETSIZE > listenfd
  /\ MaxBytes \in Nat

VARIABLES client, maxi, maxfd, allset, rset, nready, i, n, pc,   \* the server's
          running,     \* FALSE once perr_exit or SIGPIPE has ended the server
          backlog,     \* connections waiting to be accepted
          conn,        \* the connection behind each descriptor, or Nobody
          peer,        \* each client: "away", "up", "fin" (closed), "rst" (reset)
          sent,        \* how many bytes each client has sent
          unread,      \* how many of them the server has not read
          echoed       \* how many it has written back

locals == <<client, maxi, maxfd, allset, rset, nready, i, n, pc, running>>
net == <<backlog, conn, peer, sent, unread, echoed>>
vars == <<locals, net>>

Open == {fd \in Fds : conn[fd] # Nobody}
Used == {k \in Slots : client[k] >= 0}

(* Descriptors select reports: a pending connection, unread data, or the   *)
(* end of a connection.                                                    *)
Readable(fd) == IF fd = listenfd THEN backlog # <<>>
                ELSE unread[conn[fd]] > 0 \/ peer[conn[fd]] # "up"

(* Seeded fault: the entries of client[] start as 0, not as -1.            *)
InitZeroed == /\ client = [k \in Slots |-> 0]
              /\ maxi = -1 /\ maxfd = listenfd /\ allset = {listenfd}
              /\ rset = {} /\ nready = 0 /\ i = 0 /\ n = 0
              /\ pc = "select" /\ running = TRUE
              /\ backlog = <<>> /\ conn = [fd \in Fds |-> Nobody]
              /\ peer = [c \in Clients |-> "away"] /\ sent = [c \in Clients |-> 0]
              /\ unread = [c \in Clients |-> 0] /\ echoed = [c \in Clients |-> 0]

Init == /\ client = [k \in Slots |-> -1]
        /\ maxi = -1 /\ maxfd = listenfd /\ allset = {listenfd}
        /\ rset = {} /\ nready = 0 /\ i = 0 /\ n = 0
        /\ pc = "select" /\ running = TRUE
        /\ backlog = <<>>
        /\ conn = [fd \in Fds |-> Nobody]
        /\ peer = [c \in Clients |-> "away"]
        /\ sent = [c \in Clients |-> 0]
        /\ unread = [c \in Clients |-> 0]
        /\ echoed = [c \in Clients |-> 0]

-----------------------------------------------------------------------------
(* The clients: connect, send, close, or break the connection.             *)
Connect(c) == /\ peer[c] = "away"
              /\ peer' = [peer EXCEPT ![c] = "up"]
              /\ backlog' = Append(backlog, c)
              /\ UNCHANGED <<locals, conn, sent, unread, echoed>>

Send(c) == /\ peer[c] = "up" /\ sent[c] < MaxBytes
           /\ sent' = [sent EXCEPT ![c] = @ + 1]
           /\ unread' = [unread EXCEPT ![c] = @ + 1]
           /\ UNCHANGED <<locals, backlog, conn, peer, echoed>>

CloseClient(c) == /\ peer[c] = "up"
                  /\ peer' = [peer EXCEPT ![c] = "fin"]
                  /\ UNCHANGED <<locals, backlog, conn, sent, unread, echoed>>

(* A reset drops what the server has not read.                             *)
Reset(c) == /\ peer[c] = "up"
            /\ peer' = [peer EXCEPT ![c] = "rst"]
            /\ unread' = [unread EXCEPT ![c] = 0]
            /\ UNCHANGED <<locals, backlog, conn, sent, echoed>>

-----------------------------------------------------------------------------
Exit == running' = FALSE /\ UNCHANGED <<client, maxi, maxfd, allset, rset, nready, i, n, pc, net>>

(* select blocks until something is ready; it fails, and the server exits, *)
(* if a descriptor of the set is not open.                                 *)
Select == /\ pc = "select"
          /\ IF allset \subseteq Open \cup {listenfd}
             THEN /\ rset' = {fd \in allset : fd <= maxfd /\ Readable(fd)}
                  /\ rset' # {}
                  /\ nready' = Cardinality(rset')
                  /\ pc' = "listen"
                  /\ UNCHANGED <<client, maxi, maxfd, allset, i, n, running, net>>
             ELSE Exit

NoNewClient == /\ pc = "listen" /\ listenfd \notin rset
               /\ i' = 0 /\ pc' = "scan"
               /\ UNCHANGED <<client, maxi, maxfd, allset, rset, nready, n, running, net>>

(* Seeded fault: maxi follows the last slot filled, also downwards.        *)
NewClientMaxi(slot) == slot

(* if (i > maxi) maxi = i                                                  *)
NewMaxi(slot) == IF slot > maxi THEN slot ELSE maxi

(* Seeded fault: the accepted connection is not counted as dealt with.     *)
NreadyAfterAcceptKept == nready

NreadyAfterAccept == nready - 1

(* The kernel hands out the lowest free descriptor; the first free entry   *)
(* of client[] takes it.                                                   *)
NewClient == /\ pc = "listen" /\ listenfd \in rset
             /\ Open # Fds
             /\ LET connfd == Min(Fds \ Open)
                    slot == Min(Slots \ Used)
                IN /\ conn' = [conn EXCEPT ![connfd] = Head(backlog)]
                   /\ client' = [client EXCEPT ![slot] = connfd]
                   /\ allset' = allset \cup {connfd}
                   /\ maxfd' = IF connfd > maxfd THEN connfd ELSE maxfd
                   /\ maxi' = NewMaxi(slot)
             /\ backlog' = Tail(backlog)
             /\ nready' = NreadyAfterAccept
             /\ i' = 0
             /\ pc' = IF nready' = 0 THEN "select" ELSE "scan"
             /\ UNCHANGED <<rset, n, running, peer, sent, unread, echoed>>

(* Accept fails for want of a descriptor: perr_exit.                       *)
NoDescriptor == /\ pc = "listen" /\ listenfd \in rset
                /\ Open = Fds
                /\ Exit

(* The loop over client[].  An entry that is free or not ready is skipped. *)
Skip == /\ pc = "scan" /\ i <= maxi
        /\ client[i] \notin rset
        /\ i' = i + 1
        /\ UNCHANGED <<client, maxi, maxfd, allset, rset, nready, n, pc, running, net>>

ScanDone == /\ pc = "scan" /\ i > maxi
            /\ pc' = "select"
            /\ UNCHANGED <<client, maxi, maxfd, allset, rset, nready, i, n, running, net>>

(* if (--nready == 0) break;                                               *)
Advance == /\ nready' = nready - 1
           /\ i' = i + 1
           /\ pc' = IF nready' = 0 THEN "select" ELSE "scan"

At == conn[client[i]]
Ready == pc = "scan" /\ i <= maxi /\ client[i] \in rset

(* Seeded fault: the closed descriptor stays in allset (no FD_CLR).        *)
ReadEndKeepsBit == /\ Ready /\ unread[At] = 0 /\ peer[At] = "fin"
                   /\ conn' = [conn EXCEPT ![client[i]] = Nobody]
                   /\ client' = [client EXCEPT ![i] = -1]
                   /\ Advance
                   /\ UNCHANGED <<maxi, maxfd, allset, rset, n, running,
                                  backlog, peer, sent, unread, echoed>>

(* Seeded fault: the descriptor is not closed.                             *)
ReadEndNoClose == /\ Ready /\ unread[At] = 0 /\ peer[At] = "fin"
                  /\ allset' = allset \ {client[i]}
                  /\ client' = [client EXCEPT ![i] = -1]
                  /\ Advance
                  /\ UNCHANGED <<conn, maxi, maxfd, rset, n, running,
                                 backlog, peer, sent, unread, echoed>>

(* Read returns 0: Close, FD_CLR, free the entry.                          *)
ReadEnd == /\ Ready /\ unread[At] = 0 /\ peer[At] = "fin"
           /\ conn' = [conn EXCEPT ![client[i]] = Nobody]
           /\ allset' = allset \ {client[i]}
           /\ client' = [client EXCEPT ![i] = -1]
           /\ Advance
           /\ UNCHANGED <<maxi, maxfd, rset, n, running, backlog, peer, sent, unread, echoed>>

(* Read returns some of the bytes.                                         *)
ReadData == /\ Ready
            /\ \E k \in 1..unread[At] :
                 /\ n' = k
                 /\ unread' = [unread EXCEPT ![At] = @ - k]
            /\ pc' = "write"
            /\ UNCHANGED <<client, maxi, maxfd, allset, rset, nready, i, running,
                           backlog, conn, peer, sent, echoed>>

(* Read returns -1 once after a reset and 0 from then on.  The server then *)
(* calls Write with length -1, which fails without effect; it keeps the    *)
(* entry, to find the end of the connection in the next round.             *)
ReadError == /\ Ready /\ peer[At] = "rst"
             /\ peer' = [peer EXCEPT ![At] = "fin"]
             /\ Advance
             /\ UNCHANGED <<client, maxi, maxfd, allset, rset, n, running,
                            backlog, conn, sent, unread, echoed>>

(* Seeded fault: one byte of what was read is not written back.            *)
WriteShort == /\ pc = "write"
              /\ echoed' = [echoed EXCEPT ![At] = @ + n - 1]
              /\ n' = 0
              /\ Advance
              /\ UNCHANGED <<client, maxi, maxfd, allset, rset, running,
                             backlog, conn, peer, sent, unread>>

(* The echo is written.  The call blocks, and with it the whole server,    *)
(* as long as a client leaves too much unread: clients here do not.        *)
Write == /\ pc = "write"
         /\ echoed' = [echoed EXCEPT ![At] = @ + n]
         /\ n' = 0
         /\ Advance
         /\ UNCHANGED <<client, maxi, maxfd, allset, rset, running,
                        backlog, conn, peer, sent, unread>>

(* Writing to a client that has gone may fail, which the server ignores    *)
(* (-1 from Write), or end it with SIGPIPE, which it does not handle.      *)
WriteFails == /\ pc = "write" /\ peer[At] # "up"
              /\ n' = 0
              /\ Advance
              /\ UNCHANGED <<client, maxi, maxfd, allset, rset, running, net>>

WriteKills == /\ pc = "write" /\ peer[At] # "up"
              /\ Exit

Server == running /\ ( \/ Select \/ NoNewClient \/ NewClient \/ NoDescriptor
                       \/ Skip \/ ScanDone \/ ReadEnd \/ ReadData \/ ReadError
                       \/ Write \/ WriteFails \/ WriteKills )

Environment == \E c \in Clients : Connect(c) \/ Send(c) \/ CloseClient(c) \/ Reset(c)

(* With no client left to come the server waits in select for ever.        *)
Idle == (~running \/ pc = "select") /\ UNCHANGED vars

Next == Server \/ Environment \/ Idle

Spec == Init /\ [][Next]_vars

(* The server runs; clients do as they like.                               *)
FairSpec == Spec /\ WF_vars(Server)

-----------------------------------------------------------------------------
TypeOK == /\ client \in [Slots -> Fds \cup {-1}]
          /\ maxi \in -1..FD_SETSIZE-1 /\ maxfd \in listenfd..FD_SETSIZE-1
          /\ allset \subseteq Fds \cup {listenfd} /\ rset \subseteq Fds \cup {listenfd}
          /\ nready \in 0..FD_SETSIZE /\ i \in 0..FD_SETSIZE /\ n \in 0..MaxBytes
          /\ pc \in {"select", "listen", "scan", "write"}
          /\ running \in BOOLEAN
          /\ backlog \in Seq(Clients)
          /\ conn \in [Fds -> Clients \cup {Nobody}]
          /\ peer \in [Clients -> {"away", "up", "fin", "rst"}]
          /\ sent \in [Clients -> 0..MaxBytes] /\ unread \in [Clients -> 0..MaxBytes]
          /\ echoed \in [Clients -> 0..MaxBytes]

(* The server's four tables say the same: client[] holds each open         *)
(* connection once, allset exactly those and listenfd, and maxi and maxfd  *)
(* bound them, so no client is overlooked by select or by the loop.        *)
TablesAgree ==
  /\ {client[k] : k \in Used} = Open
  /\ \A j, k \in Used : j # k => client[j] # client[k]
  /\ allset = Open \cup {listenfd}
  /\ \A k \in Used : k <= maxi /\ client[k] <= maxfd

(* nready is the number of ready entries from i on, so leaving the loop    *)
(* when it reaches 0 (lines 67 and 84) skips nobody; and a descriptor that *)
(* has just been accepted is never taken for one select reported.          *)
NothingSkipped ==
  pc \in {"scan", "write"} =>
     /\ nready = Cardinality({k \in i..maxi : client[k] \in rset})
     /\ nready > 0

(* Nothing a client sent is lost or written twice while it stays           *)
(* connected.                                                              *)
EveryByteAccountedFor == \A c \in Clients :
  peer[c] = "up" => sent[c] = unread[c] + echoed[c] + (IF pc = "write" /\ At = c THEN n ELSE 0)

(* The server never fails in select: it ends only for want of a descriptor *)
(* or by a write to a client that has gone.                                *)
EndsOnlyWhen ==
  [][running /\ ~running' => \/ Open = Fds
                             \/ pc = "write" /\ peer[At] # "up"]_vars

(* What a client has sent is read, and a client that has gone is dropped,  *)
(* as long as the server lives: no client that reads its echoes can keep   *)
(* it from the others.                                                     *)
ServedAndDropped ==
  /\ \A c \in Clients : []<>(unread[c] = 0 \/ ~running)
  /\ \A fd \in Fds : []<>(conn[fd] = Nobody \/ peer[conn[fd]] = "up" \/ ~running)

=============================================================================
