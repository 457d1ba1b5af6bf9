------------------------------- MODULE UnixConn --------------------------------
(***************************************************************************)
(* How a client and the server of LinuxC/socket/UNIXDomainSocketIPC meet:  *)
(* cli_conn.c, serv_listen.c and serv_accept.c.  A client binds its socket *)
(* to a path made of its pid, so that the server can see who is calling;   *)
(* the server looks the path up and removes it.  Nobody else removes it,   *)
(* and a pid, and so a path, is used again when its process has ended,     *)
(* also while its connection still waits to be accepted.                   *)
(*                                                                         *)
(* One server and one user are running; what is said over the connection   *)
(* is in ForkServer.                                                       *)
(***************************************************************************)
EXTENDS Sequences, SequencesExt

CONSTANTS Clients, Pids, None

VARIABLES cpc,      \* of a client: "none", "unlink", "bind", "connect", "waiting",
                    \* "served", "refused" or "ended"
          pid,      \* of each client
          path,     \* for each pid: the client that made the path, None if there is none
          backlog,  \* the clients connected and not accepted
          spc,      \* of the server: "listen", "accept", "stat" or "unlink"
          clifd,    \* the client it has accepted
          reused    \* history: the clients that took a pid whose earlier owner was
                    \* still in the backlog or being accepted

server == <<spc, clifd>>
vars == <<cpc, pid, path, backlog, server, reused>>

Running(c) == cpc[c] \notin {"none", "refused", "ended"}
Calling == ToSet(backlog) \cup {clifd}

Init == /\ cpc = [c \in Clients |-> "none"] /\ pid = [c \in Clients |-> None]
        /\ path = [p \in Pids |-> None]
        /\ backlog = <<>> /\ spc = "listen" /\ clifd = None /\ reused = {}

-----------------------------------------------------------------------------
(* cli_conn                                                                *)

Client(c, from, to) == cpc[c] = from /\ cpc' = [cpc EXCEPT ![c] = to]

Start(c, p) == /\ Client(c, "none", "unlink")
               /\ \A d \in Clients : Running(d) => pid[d] # p
               /\ pid' = [pid EXCEPT ![c] = p]
               /\ UNCHANGED <<path, backlog, server, reused>>

(* Seeded fault: a path that already exists is left alone.                 *)
UnlinkNot(c) == /\ Client(c, "unlink", "bind")
                /\ UNCHANGED <<pid, path, backlog, server, reused>>

Unlink(c) == /\ Client(c, "unlink", "bind")
             /\ path' = [path EXCEPT ![pid[c]] = None]
             /\ UNCHANGED <<pid, backlog, server, reused>>

Bind(c) == /\ Client(c, "bind", "connect")
           /\ path' = [path EXCEPT ![pid[c]] = c]
           /\ reused' = IF \E d \in Calling \ {None} : pid[d] = pid[c]
                        THEN reused \cup {c} ELSE reused
           /\ UNCHANGED <<pid, backlog, server>>

Connect(c) == /\ Client(c, "connect", "waiting") /\ spc # "listen"
              /\ backlog' = Append(backlog, c)
              /\ UNCHANGED <<pid, path, server, reused>>

(* The server is not there yet.  The path stays.                           *)
ConnectFails(c) == /\ Client(c, "connect", "ended") /\ spc = "listen"
                   /\ UNCHANGED <<pid, path, backlog, server, reused>>

(* The process ends, with its connection or on the way to it.              *)
Exit(c) == /\ Running(c) /\ cpc' = [cpc EXCEPT ![c] = "ended"]
           /\ UNCHANGED <<pid, path, backlog, server, reused>>

-----------------------------------------------------------------------------
(* The server: serv_listen, then serv_accept again and again.              *)

Listen == /\ spc = "listen" /\ spc' = "accept"
          /\ UNCHANGED <<cpc, pid, path, backlog, clifd, reused>>

Accept == /\ spc = "accept" /\ backlog # <<>>
          /\ spc' = "stat" /\ clifd' = Head(backlog) /\ backlog' = Tail(backlog)
          /\ UNCHANGED <<cpc, pid, path, reused>>

Stat == /\ spc = "stat" /\ path[pid[clifd]] # None
        /\ spc' = "unlink"
        /\ UNCHANGED <<cpc, pid, path, backlog, clifd, reused>>

(* The connection is closed: return -2.                                    *)
StatFails == /\ spc = "stat" /\ path[pid[clifd]] = None
             /\ spc' = "accept" /\ clifd' = None
             /\ cpc' = [cpc EXCEPT ![clifd] = IF @ = "waiting" THEN "refused" ELSE @]
             /\ UNCHANGED <<pid, path, backlog, reused>>

UnlinkPath == /\ spc = "unlink" /\ spc' = "accept" /\ clifd' = None
              /\ path' = [path EXCEPT ![pid[clifd]] = None]
              /\ cpc' = [cpc EXCEPT ![clifd] = IF @ = "waiting" THEN "served" ELSE @]
              /\ UNCHANGED <<pid, backlog, reused>>

Server == Listen \/ Accept \/ Stat \/ StatFails \/ UnlinkPath

(* The server waits for clients, and there are no more.                    *)
Idle == spc = "accept" /\ backlog = <<>> /\ UNCHANGED vars

Next == \/ Server \/ Idle
        \/ \E c \in Clients : \/ Unlink(c) \/ Bind(c) \/ Connect(c) \/ ConnectFails(c) \/ Exit(c)
                              \/ \E p \in Pids : Start(c, p)

Spec == Init /\ [][Next]_vars

FairSpec == Spec /\ WF_vars(Server)

-----------------------------------------------------------------------------
TypeOK == /\ cpc \in [Clients -> {"none", "unlink", "bind", "connect", "waiting",
                                  "served", "refused", "ended"}]
          /\ pid \in [Clients -> Pids \cup {None}] /\ path \in [Pids -> Clients \cup {None}]
          /\ backlog \in Seq(Clients)
          /\ spc \in {"listen", "accept", "stat", "unlink"} /\ clifd \in Clients \cup {None}
          /\ reused \subseteq Clients

(* A client never finds its path taken when it binds.  Its own path is in  *)
(* place until the server has looked it up, and the server does not refuse *)
(* it; only the reuse of a pid whose earlier owner is still queued can     *)
(* break that.                                                             *)
PathsInOrder ==
  \A c \in Clients : /\ cpc[c] = "bind" => path[pid[c]] = None
                     /\ c \notin reused => /\ cpc[c] # "refused"
                                           /\ cpc[c] = "waiting" => path[pid[c]] = c

(* Every client is accepted or turned away.                                *)
Accepted == \A c \in Clients : []<>(cpc[c] # "waiting")

=============================================================================
