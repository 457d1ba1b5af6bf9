---------------------------- MODULE ProcessProofs ----------------------------
(***************************************************************************)
(* The programs around processes and descriptors, for any number of        *)
(* children, clients, descriptors, readers and writers, any sizes of book, *)
(* buffer, pipe and line, and any number of signals: the safety properties *)
(* of ProcessPrograms.  Each program has an inductive invariant of its own *)
(* (FInv to SKept; IInv of ChildReaperProofs), which its own steps keep;   *)
(* the steps of the others do not touch it.                                *)
(***************************************************************************)
EXTENDS ProcessPrograms, ChildReaperProofs, Lemmas

-----------------------------------------------------------------------------
(* ForkServer: main2 of TCP/server.c, server.c of UNIXDomainSocketIPC      *)

(* What had exited when the scan began is still ahead of it or reaped, and *)
(* the server holds the connection it has just accepted only.              *)
FScans == /\ pc = "scan" => i < BookSize
          /\ pc = "accept" => i = BookSize
          /\ pc \in {"scan", "accept"} =>
               \A q \in old : \/ child[q] = "none"
                              \/ child[q] = "zombie" /\ \E k \in i..BookSize-1 : pid_book[k] = q
FHolds == held[Server] \subseteq IF pc \in {"fork", "close"} THEN {connfd} ELSE {}
FInv == /\ F!TypeOK /\ F!ChildrenInBook /\ F!OnlyItsOwn
        /\ FScans /\ FHolds

LEMMA FTypes == /\ BookSize \in Nat \ {0} /\ Server \notin Pids
                /\ None \notin Pids /\ None \notin Clients
  BY ProcessProgramsAssumption

LEMMA FInit == F!Init => FInv
<1> SUFFICES ASSUME F!Init PROVE FInv
  OBVIOUS
<1> USE FTypes DEF F!Init
<1>1. F!TypeOK
  BY DEF F!TypeOK, F!Book, F!Processes
<1>2. F!ChildrenInBook /\ F!OnlyItsOwn
  BY DEF F!ChildrenInBook, F!OnlyItsOwn, F!Processes
<1>3. FScans /\ FHolds
  BY DEF FScans, FHolds, F!Processes
<1> QED
  BY <1>1, <1>2, <1>3 DEF FInv

LEMMA FInOrder == FInv => F!ChildrenInOrder
  BY FTypes DEF FInv, FScans, F!TypeOK, F!ChildrenInOrder, F!ScanReaps, F!zombies

LEMMA FNext == FInv /\ [F!Next]_fvars => FInv'
<1> SUFFICES ASSUME FInv, [F!Next]_fvars PROVE FInv'
  OBVIOUS
<1> USE FTypes
<1>t. /\ pid_book \in [F!Book -> Pids \cup {None}]
      /\ i \in 0..BookSize /\ connfd \in Clients \cup {None} /\ pid \in Pids \cup {None}
      /\ pc \in {"scan", "accept", "fork", "close", "find", "stopped", "overrun"}
      /\ child \in [Pids -> {"none", "read", "write", "zombie"}]
      /\ fd \in [Pids -> Clients \cup {None}]
      /\ held \in [F!Processes -> SUBSET Clients]
      /\ client \in [Clients -> {"out", "idle", "asking", "closed"}]
      /\ queue \in SUBSET Clients /\ old \in SUBSET Pids
      /\ Pids \subseteq F!Processes /\ Server \in F!Processes
  BY DEF FInv, F!TypeOK, F!Processes
<1>i. F!ChildrenInBook /\ F!OnlyItsOwn /\ FScans /\ FHolds
  BY DEF FInv
<1>1. CASE UNCHANGED fvars \/ F!Stopped
  BY <1>1 DEF fvars, F!Stopped, F!vars, F!server, FInv, F!TypeOK, F!ChildrenInBook, F!OnlyItsOwn,
              FScans, FHolds, F!Range, F!zombies
<1>2. ASSUME UNCHANGED <<pid_book, i, connfd, pid, pc, child, fd, held, old>>,
             client' \in [Clients -> {"out", "idle", "asking", "closed"}],
             queue' \in SUBSET Clients
      PROVE  FInv'
  BY <1>t, <1>i, <1>2 DEF FInv, F!TypeOK, F!ChildrenInBook, F!OnlyItsOwn, FScans, FHolds, F!Range
<1>3. ASSUME NEW x \in Clients, F!Connect(x) \/ F!Ask(x) \/ F!CloseClient(x) \/ F!Gone(x)
      PROVE  FInv'
  BY <1>t, <1>2, <1>3 DEF F!Connect, F!Ask, F!CloseClient, F!Gone, F!server
<1>4. CASE F!Scan
  <2>1. /\ pc = "scan" /\ i < BookSize /\ i' = i + 1
        /\ pc' = IF i' = BookSize THEN "accept" ELSE "scan"
        /\ \A q \in Pids : child'[q] = IF q = pid_book[i] /\ child[q] = "zombie" THEN "none" ELSE child[q]
        /\ child' \in [Pids -> {"none", "read", "write", "zombie"}]
        /\ UNCHANGED <<pid_book, connfd, pid, old, fd, held, client, queue>>
    BY <1>t, <1>i, <1>4 DEF F!Scan, FScans
  <2>2. F!TypeOK'
    BY <1>t, <2>1 DEF F!TypeOK
  <2>3. F!ChildrenInBook' /\ F!OnlyItsOwn' /\ FHolds'
    BY <1>t, <1>i, <2>1 DEF F!ChildrenInBook, F!OnlyItsOwn, FHolds, F!Range
  <2>4. ASSUME NEW q \in old
        PROVE  \/ child'[q] = "none"
               \/ child'[q] = "zombie" /\ \E k \in i+1..BookSize-1 : pid_book[k] = q
    BY <1>t, <1>i, <2>1, <2>4 DEF FScans
  <2>5. FScans'
    BY <1>t, <2>1, <2>4 DEF FScans
  <2> QED
    BY <2>2, <2>3, <2>5 DEF FInv
<1>5. CASE F!Accept \/ F!AcceptFails \/ F!ForkFails \/ F!Close \/ F!Overrun
  <2>1. F!TypeOK'
    BY <1>t, <1>5 DEF F!TypeOK, F!Accept, F!AcceptFails, F!ForkFails, F!Close, F!Overrun, F!Goto
  <2>2. /\ UNCHANGED <<pid_book, pid, child, fd>>
        /\ \A q \in Pids : held'[q] = held[q]
        /\ pc \in {"close", "find", "overrun"} => pc' \in {"close", "find", "overrun"}
        /\ pc' \notin {"scan", "accept"}
    BY <1>t, <1>5 DEF F!Accept, F!AcceptFails, F!ForkFails, F!Close, F!Overrun, F!Goto
  <2>3. F!ChildrenInBook' /\ F!OnlyItsOwn' /\ FScans'
    BY <1>t, <1>i, <2>2 DEF F!ChildrenInBook, F!OnlyItsOwn, FScans, F!Range
  <2>4. FHolds'
    BY <1>t, <1>i, <1>5 DEF F!Accept, F!AcceptFails, F!ForkFails, F!Close, F!Overrun, F!Goto, FHolds
  <2> QED
    BY <2>1, <2>3, <2>4 DEF FInv
<1>6. ASSUME NEW q \in Pids, F!Fork(q) PROVE FInv'
  <2>1. /\ pc = "fork" /\ pc' = "close" /\ pid' = q
        /\ child' = [child EXCEPT ![q] = "read"] /\ fd' = [fd EXCEPT ![q] = connfd]
        /\ held' = [held EXCEPT ![q] = held[Server]]
        /\ UNCHANGED <<pid_book, i, connfd, old, client, queue>>
    BY <1>6 DEF F!Fork, F!Goto
  <2>2. F!TypeOK'
    BY <1>t, <2>1 DEF F!TypeOK
  <2>3. F!ChildrenInBook'
    BY <1>t, <1>i, <2>1 DEF F!ChildrenInBook, F!Range
  <2>4. F!OnlyItsOwn'
    BY <1>t, <1>i, <2>1 DEF F!OnlyItsOwn, FHolds
  <2>5. FScans' /\ FHolds'
    BY <1>t, <1>i, <2>1 DEF FScans, FHolds
  <2> QED
    BY <2>2, <2>3, <2>4, <2>5 DEF FInv
<1>7. ASSUME NEW k \in F!Book, F!Enter(k) PROVE FInv'
  <2>1. /\ pc = "find" /\ pc' = "scan" /\ pid_book[k] = None
        /\ pid_book' = [pid_book EXCEPT ![k] = pid] /\ i' = 0 /\ old' = F!zombies
        /\ UNCHANGED <<connfd, pid, child, fd, held, client, queue>>
    BY <1>7 DEF F!Enter, F!Goto, F!Empty
  <2>2. F!TypeOK'
    BY <1>t, <2>1 DEF F!TypeOK, F!zombies
  <2>3. \A q \in Pids : child[q] # "none" => \E j \in F!Book : pid_book'[j] = q
    <3>1. ASSUME NEW q \in Pids, child[q] # "none" PROVE \E j \in F!Book : pid_book'[j] = q
      <4>1. CASE q = pid
        BY <1>t, <2>1, <4>1
      <4>2. CASE q # pid
        <5>1. PICK j \in F!Book : pid_book[j] = q
          BY <1>t, <1>i, <2>1, <3>1, <4>2 DEF F!ChildrenInBook, F!Range
        <5> QED
          BY <1>t, <2>1, <5>1
      <4> QED
        BY <4>1, <4>2
    <3> QED
      BY <3>1
  <2>4. F!ChildrenInBook'
    BY <1>t, <2>1, <2>3 DEF F!ChildrenInBook, F!Range
  <2>5. F!OnlyItsOwn' /\ FHolds'
    BY <1>t, <1>i, <2>1 DEF F!OnlyItsOwn, FHolds
  <2>6. FScans'
    BY <1>t, <2>1, <2>3 DEF FScans, F!zombies, F!Book
  <2> QED
    BY <2>2, <2>4, <2>5, <2>6 DEF FInv
<1>8. ASSUME NEW q \in Pids, F!Child(q) PROVE FInv'
  <2>1. /\ UNCHANGED <<pid_book, i, connfd, pid, pc, old, queue>>
        /\ child[q] \in {"read", "write"}
        /\ \E w \in {"read", "write", "zombie"} : child' = [child EXCEPT ![q] = w]
        /\ \/ UNCHANGED <<fd, held>>
           \/ fd' = [fd EXCEPT ![q] = None] /\ held' = [held EXCEPT ![q] = {}]
    BY <1>8 DEF F!Child, F!ReadRequest, F!Write, F!End, F!server
  <2>2. client' \in [Clients -> {"out", "idle", "asking", "closed"}]
    BY <1>t, <1>8 DEF F!Child, F!ReadRequest, F!Write, F!End, F!server
  <2>3. F!TypeOK'
    BY <1>t, <2>1, <2>2 DEF F!TypeOK
  <2>4. F!ChildrenInBook'
    BY <1>t, <1>i, <2>1 DEF F!ChildrenInBook, F!Range
  <2>5. F!OnlyItsOwn' /\ FHolds'
    BY <1>t, <1>i, <2>1 DEF F!OnlyItsOwn, FHolds
  <2>6. FScans'
    BY <1>t, <1>i, <2>1 DEF FScans
  <2> QED
    BY <2>3, <2>4, <2>5, <2>6 DEF FInv
<1> QED
  BY <1>1, <1>3, <1>4, <1>5, <1>6, <1>7, <1>8 DEF F!Next, F!Main, F!Kernel

-----------------------------------------------------------------------------
(* WrapIO: wrap.c                                                          *)

(* Each call is where the code of its routine is.                          *)
WPlaces ==
  /\ op # "none" => wfd \in Fds
  /\ wpc = "readn" => op = "Readn"
  /\ wpc = "writen" => op = "Writen"
  /\ wpc \in {"readline", "fill"} => op = "Readline"
  /\ wpc = "fill" => read_buf = <<>>

(* What the call has stored so far.                                        *)
WOut ==
  /\ read_buf \in Seq(W!Bytes)
  /\ op = "none" => out = <<>>
  /\ op = "Readn" =>
       /\ out \in Seq(W!Bytes) /\ Len(out) = count - nleft
       /\ \A m \in 1..Len(out) : out[m] = <<wfd, taken[wfd] - Len(out) + m>>
  /\ op = "Writen" =>
       /\ out \in Seq(Nat) /\ Len(out) = count - nleft
       /\ \A m \in 1..Len(out) : out[m] = m
  /\ op = "Readline" =>
       /\ out \in Seq(W!Bytes) /\ Len(out) + 1 <= count
       /\ wpc # "idle" => \A m \in 1..Len(out) : ~ W!Ends(out[m])

(* What two entries of one history are to each other, and an entry to a    *)
(* byte that a Readline has yet to hand out.                               *)
WFollows(e, g) == /\ e.number # g.number
                  /\ e.number < g.number \/ (e.by = "Readn" /\ g.by = "Readline")
WAfter == {eg \in W!Given \X W!Given : WFollows(eg[1], eg[2])}
WPast(e, b) == e.number # b[2] /\ (e.number < b[2] \/ e.by = "Readn")

(* The buffer holds the bytes of a descriptor in order.                    *)
WBefore(b, d) == b[1] = d[1] => b[2] < d[2]

(* Each byte taken is somewhere, and each history goes on in order with    *)
(* what is in the buffer.                                                  *)
WOrder ==
  /\ given \in [Fds -> Seq(W!Given)]
  /\ \A f \in Fds : Pairwise(given[f], Len(given[f]), WAfter)
  /\ \A b \in W!Bytes : b[2] <= taken[b[1]] <=> W!HandedOut(b) \/ b \in W!Range(read_buf)
  /\ \A j, k \in 1..Len(read_buf) : j < k => WBefore(read_buf[j], read_buf[k])
  /\ \A b \in W!Range(read_buf) : \A m \in 1..Len(given[b[1]]) : WPast(given[b[1]][m], b)

(* A Readline hands out first what it found in the buffer.                 *)
WWhose ==
  op = "Readline" =>
    /\ \A b \in W!Range(out) \cup W!Range(read_buf) : b[1] = wfd \/ b \in W!Range(kept)
    /\ W!Range(kept) \subseteq W!Range(out) \cup W!Range(read_buf)
    /\ \/ W!Range(kept) \subseteq W!Range(out)
       \/ W!Range(out) \cup W!Range(read_buf) \subseteq W!Range(kept)

WInv == W!TypeOK /\ W!ReturnAgrees /\ WPlaces /\ WOut /\ WOrder /\ WWhose

LEMMA WTypes ==
  ASSUME WInv
  PROVE  /\ newline \in [Fds -> SUBSET (1..Length)]
         /\ taken \in [Fds -> 0..Length]
         /\ read_buf \in Seq(W!Bytes) /\ Len(read_buf) \in Nat
         /\ count \in 0..MaxCount /\ nleft \in 0..MaxCount
         /\ given \in [Fds -> Seq(W!Given)]
         /\ op # "none" => wfd \in Fds
         /\ op \in {"none", "Readn", "Writen", "Readline"}
         /\ Len(out) \in Nat
         /\ op # "Writen" => out \in Seq(W!Bytes)
<1>1. op # "Writen" => out \in Seq(W!Bytes)
  <2>1. CASE op = "none"
    BY <2>1 DEF WInv, WOut
  <2>2. CASE op \in {"Readn", "Readline"}
    BY <2>2 DEF WInv, WOut
  <2> QED
    BY <2>1, <2>2 DEF WInv, W!TypeOK
<1>2. Len(out) \in Nat
  <2>1. CASE op = "Writen"
    BY <2>1 DEF WInv, WOut
  <2>2. CASE op # "Writen"
    BY <2>2, <1>1
  <2> QED
    BY <2>1, <2>2
<1>3. read_buf \in Seq(W!Bytes) /\ given \in [Fds -> Seq(W!Given)]
  BY DEF WInv, WOut, WOrder
<1>4. newline \in [Fds -> SUBSET (1..Length)]
  BY ProcessProgramsAssumption DEF WInv, W!TypeOK
<1> QED
  BY <1>1, <1>2, <1>3, <1>4 DEF WInv, W!TypeOK, WPlaces

LEMMA WInit == W!Init => WInv
<1> SUFFICES ASSUME W!Init PROVE WInv
  OBVIOUS
<1> USE ProcessProgramsAssumption
<1> USE DEF W!Init
<1>1. W!TypeOK
  <2>1. DOMAIN given = Fds /\ (\A f \in Fds : DOMAIN given[f] = {})
    OBVIOUS
  <2>2. Len(read_buf) = 0 /\ DOMAIN read_buf = {} /\ Len(out) = 0 /\ DOMAIN kept = {}
    OBVIOUS
  <2>3. ret \in -1..MaxCount /\ count \in 0..MaxCount /\ nleft \in 0..MaxCount
    OBVIOUS
  <2>4. taken \in [Fds -> 0..Length]
    OBVIOUS
  <2> QED
    BY <2>1, <2>2, <2>3, <2>4 DEF W!TypeOK
<1>2. WOrder
  <2>1. given \in [Fds -> Seq(W!Given)] /\ \A f \in Fds : Len(given[f]) = 0
    OBVIOUS
  <2>2. W!Range(read_buf) = {}
    BY DEF W!Range
  <2>3. ASSUME NEW b \in W!Bytes PROVE ~ (b[2] <= taken[b[1]]) /\ ~ W!HandedOut(b)
    BY DEF W!Bytes, W!HandedOut
  <2>4. Len(read_buf) = 0
    OBVIOUS
  <2> QED
    BY <2>1, <2>2, <2>3, <2>4 DEF WOrder, Pairwise
<1>3. W!ReturnAgrees
  BY DEF W!ReturnAgrees
<1>4. WPlaces /\ WOut /\ WWhose
  BY DEF WPlaces, WOut, WWhose
<1> QED
  BY <1>1, <1>2, <1>3, <1>4 DEF WInv

(* The elements of a sequence.                                             *)
LEMMA WRange ==
  ASSUME NEW T, NEW s \in Seq(T)
  PROVE  \A x : x \in W!Range(s) <=> \E m \in 1..Len(s) : x = s[m]
BY DEF W!Range

(* Two entries that may stand in this order in a history.                  *)
LEMMA WAfterIs ==
  ASSUME NEW e \in W!Given, NEW g \in W!Given
  PROVE  <<e, g>> \in WAfter <=> WFollows(e, g)
BY DEF WAfter

(* The invariant gives the four parts of the property.                     *)
LEMMA WAccounted == WInv => W!BytesAccountedFor
<1> SUFFICES ASSUME WInv PROVE W!NoByteLost /\ W!InOrder /\ W!WhoseBytes
  BY DEF WInv, W!BytesAccountedFor
<1>1. /\ given \in [Fds -> Seq(W!Given)] /\ read_buf \in Seq(W!Bytes)
      /\ \A f \in Fds : Len(given[f]) \in Nat /\ DOMAIN given[f] = 1..Len(given[f])
  BY WTypes
<1>2. ASSUME NEW f \in Fds, NEW m \in 1..Len(given[f]), NEW n \in 1..Len(given[f]), m < n
      PROVE  /\ given[f][m].number # given[f][n].number
             /\ \/ given[f][m].number < given[f][n].number
                \/ given[f][m].by = "Readn" /\ given[f][n].by = "Readline"
  <2>1. <<given[f][m], given[f][n]>> \in WAfter
    BY <1>2 DEF WInv, WOrder, Pairwise
  <2>2. given[f][m] \in W!Given /\ given[f][n] \in W!Given
    BY <1>1
  <2> QED
    BY <2>1, <2>2, WAfterIs DEF WFollows
<1>3. W!InOrder
  <2> SUFFICES ASSUME NEW f \in Fds, NEW m \in DOMAIN given[f], NEW n \in DOMAIN given[f], m < n
               PROVE  \/ given[f][m].number < given[f][n].number
                      \/ given[f][m].by = "Readn" /\ given[f][n].by = "Readline"
    BY DEF W!InOrder
  <2>1. m \in 1..Len(given[f]) /\ n \in 1..Len(given[f])
    BY <1>1
  <2> QED
    BY <1>2, <2>1
<1>4. W!NoByteLost
  <2>1. \A b \in W!Bytes : b[2] <= taken[b[1]] <=> W!HandedOut(b) \/ b \in W!Range(read_buf)
    BY DEF WInv, WOrder
  <2>2. ASSUME NEW b \in W!Range(read_buf) PROVE ~ W!HandedOut(b)
    <3>1. \A m \in 1..Len(given[b[1]]) : given[b[1]][m].number # b[2]
      BY DEF WInv, WOrder, WPast
    <3>2. b[1] \in Fds
      BY <1>1 DEF W!Range, W!Bytes
    <3> QED
      BY <1>1, <3>1, <3>2 DEF W!HandedOut
  <2>3. W!IsInjective(read_buf)
    <3>1. ASSUME NEW j \in 1..Len(read_buf), NEW k \in 1..Len(read_buf), j < k
          PROVE  read_buf[j] # read_buf[k]
      <4>1. WBefore(read_buf[j], read_buf[k])
        BY <3>1 DEF WInv, WOrder
      <4>2. read_buf[j][2] \in Int
        BY <1>1, ProcessProgramsAssumption DEF W!Bytes
      <4> QED
        BY <4>1, <4>2 DEF WBefore
    <3>2. \A j, k \in 1..Len(read_buf) : j = k \/ j < k \/ k < j
      BY <1>1
    <3>3. DOMAIN read_buf = 1..Len(read_buf)
      BY <1>1
    <3> QED
      BY <3>1, <3>2, <3>3 DEF W!IsInjective
  <2>4. ASSUME NEW f \in Fds, NEW m \in 1..Len(given[f]), NEW n \in 1..Len(given[f]),
               given[f][m].number = given[f][n].number
        PROVE  m = n
    <3>1. m < n \/ n < m \/ m = n
      BY <1>1
    <3>2. ~ (m < n) /\ ~ (n < m)
      BY <1>2, <2>4
    <3> QED
      BY <3>1, <3>2
  <2> QED
    BY <1>1, <2>1, <2>2, <2>3, <2>4 DEF W!NoByteLost
<1>5. W!WhoseBytes
  <2>1. op \in {"Readn", "Writen"} => out = [m \in 1..Len(out) |-> out[m]]
    <3>1. CASE op = "Readn"
      BY <3>1, WTypes
    <3>2. CASE op = "Writen"
      BY <3>2 DEF WInv, WOut
    <3> QED
      BY <3>1, <3>2
  <2>2. op = "Readn" => \A m \in 1..Len(out) : out[m] = <<wfd, taken[wfd] - Len(out) + m>>
    BY DEF WInv, WOut
  <2>3. op = "Writen" => \A m \in 1..Len(out) : out[m] = m
    BY DEF WInv, WOut
  <2> QED
    BY <2>1, <2>2, <2>3 DEF W!WhoseBytes, WInv, WWhose
<1> QED
  BY <1>3, <1>4, <1>5

(* What one read takes.                                                    *)
LEMMA WTake ==
  ASSUME WInv, op # "none", NEW k \in Nat \ {0}, k <= W!left,
         NEW more, more = [taken EXCEPT ![wfd] = @ + k],
         NEW s, s = W!Next_k(k)
  PROVE  /\ more \in [Fds -> 0..Length] /\ more[wfd] = taken[wfd] + k
         /\ s \in Seq(W!Bytes) /\ Len(s) = k
         /\ \A m \in 1..k : s[m] = <<wfd, taken[wfd] + m>>
         /\ \A d \in W!Bytes : d[2] <= more[d[1]] <=> d[2] <= taken[d[1]] \/ d \in W!Range(s)
<1> PICK c : c = taken[wfd]
  OBVIOUS
<1>1. /\ wfd \in Fds /\ c \in Nat /\ c + k <= Length /\ Length \in Nat
      /\ taken \in [Fds -> 0..Length]
  BY WTypes, ProcessProgramsAssumption DEF W!left
<1>2. more \in [Fds -> 0..Length] /\ more[wfd] = c + k
  BY <1>1
<1>3. \A m \in 1..k : c + m \in 1..Length
  BY <1>1
<1>4. s = [m \in 1..k |-> <<wfd, c + m>>]
  BY DEF W!Next_k
<1>5. s \in [1..k -> W!Bytes]
  BY <1>1, <1>3, <1>4 DEF W!Bytes
<1>6. s \in Seq(W!Bytes) /\ Len(s) = k
  BY <1>5, FunctionIsSeq
<1>7. DOMAIN s = 1..k /\ \A m \in 1..k : s[m] = <<wfd, c + m>>
  BY <1>4
<1>8. W!Range(s) = {<<wfd, c + m>> : m \in 1..k}
  BY <1>7 DEF W!Range
<1>9. ASSUME NEW f \in Fds, NEW g \in 1..Length
      PROVE  g <= more[f] <=> g <= taken[f] \/ <<f, g>> \in W!Range(s)
  <2>1. <<f, g>> \in W!Range(s) <=> f = wfd /\ \E m \in 1..k : g = c + m
    BY <1>8
  <2>2. (\E m \in 1..k : g = c + m) <=> c < g /\ g <= c + k
    <3>1. ASSUME c < g /\ g <= c + k PROVE g - c \in 1..k /\ g = c + (g - c)
      BY <1>1, <3>1
    <3>2. ASSUME NEW m \in 1..k, g = c + m PROVE c < g /\ g <= c + k
      BY <1>1, <3>2
    <3> QED
      BY <3>1, <3>2, Zenon
  <2>3. CASE f = wfd
    BY <2>1, <2>2, <2>3, <1>1, <1>2
  <2>4. CASE f # wfd
    <3>1. more[f] = taken[f]
      BY <2>4, <1>1
    <3> QED
      BY <2>1, <2>4, <3>1
  <2> QED
    BY <2>3, <2>4
<1>10. ASSUME NEW d \in W!Bytes
       PROVE  d[2] <= more[d[1]] <=> d[2] <= taken[d[1]] \/ d \in W!Range(s)
  <2>1. PICK f \in Fds, g \in 1..Length : d = <<f, g>>
    BY DEF W!Bytes
  <2> QED
    BY <2>1, <1>9
<1> QED
  BY <1>2, <1>6, <1>7, <1>10

(* A byte that has been handed out was taken before.                       *)
LEMMA WHanded ==
  ASSUME WInv, NEW f \in Fds, NEW m \in 1..Len(given[f])
  PROVE  given[f][m] \in W!Given /\ given[f][m].number <= taken[f]
<1>1. given[f] \in Seq(W!Given)
  BY WTypes
<1>2. given[f][m] \in W!Given /\ m \in DOMAIN given[f]
  BY <1>1
<1>3. <<f, given[f][m].number>> \in W!Bytes
  BY <1>2 DEF W!Bytes, W!Given
<1>4. W!HandedOut(<<f, given[f][m].number>>)
  BY <1>2 DEF W!HandedOut
<1> QED
  BY <1>2, <1>3, <1>4 DEF WInv, WOrder

(* Where nothing was moved, all is as it was.                              *)
LEMMA WSame == ASSUME WOrder, UNCHANGED <<taken, read_buf, given>> PROVE WOrder'
<1>1. W!Bytes' = W!Bytes /\ W!Given' = W!Given /\ WAfter' = WAfter
  BY DEF W!Bytes, W!Given, WAfter
<1>2. W!Range(read_buf)' = W!Range(read_buf)
  BY DEF W!Range
<1>3. \A b : W!HandedOut(b)' <=> W!HandedOut(b)
  BY DEF W!HandedOut
<1>4. given' \in [Fds -> Seq(W!Given')] /\ \A f \in Fds : Pairwise(given'[f], Len(given'[f]), WAfter')
  BY <1>1 DEF WOrder
<1>5. \A b \in W!Bytes' : b[2] <= taken'[b[1]] <=> W!HandedOut(b)' \/ b \in W!Range(read_buf)'
  BY <1>1, <1>2, <1>3 DEF WOrder
<1>6. /\ \A j, k \in 1..Len(read_buf') : j < k => WBefore(read_buf'[j], read_buf'[k])
      /\ \A b \in W!Range(read_buf)' : \A m \in 1..Len(given'[b[1]]) : WPast(given'[b[1]][m], b)
  BY <1>2 DEF WOrder
<1> QED
  BY <1>4, <1>5, <1>6 DEF WOrder, WBefore, WPast

(* The entries of the bytes s.                                             *)
WLabelled(t, s, k) == \A h \in 1..k : t[h].number = s[h][2] /\ t[h].by = op
WEntriesOf(t, s) == t = [m \in DOMAIN s |-> [number |-> s[m][2], by |-> op]]

(* There is one entry for each byte, in the same order.                    *)
LEMMA WEntries ==
  ASSUME op \in {"Readn", "Readline"}, NEW s \in Seq(W!Bytes), NEW k, k = Len(s),
         NEW t, WEntriesOf(t, s)
  PROVE  /\ t \in Seq(W!Given) /\ k = Len(t)
         /\ WLabelled(t, s, k)
<1>1. DOMAIN s = 1..k /\ k \in Nat
  OBVIOUS
<1>2. \A h \in 1..k : s[h] \in W!Bytes /\ s[h][2] \in 1..Length
  BY DEF W!Bytes
<1>3. \A h \in 1..k : t[h] = [number |-> s[h][2], by |-> op]
  BY <1>1 DEF WEntriesOf
<1>4. ASSUME NEW h \in 1..k PROVE t[h] \in W!Given /\ t[h].number = s[h][2] /\ t[h].by = op
  <2>1. t[h] = [number |-> s[h][2], by |-> op] /\ s[h][2] \in 1..Length
    BY <1>2, <1>3
  <2> QED
    BY <2>1 DEF W!Given
<1>5. t \in [1..k -> W!Given]
  BY <1>1, <1>4 DEF WEntriesOf
<1> QED
  BY <1>1, <1>4, <1>5, FunctionIsSeq DEF WLabelled

(* The bytes s of descriptor f, in order, after all that was handed out.   *)
WFits(f, s, k) ==
  /\ \A h \in 1..k : s[h][1] = f
  /\ \A g, h \in 1..k : g < h => s[g][2] < s[h][2]
  /\ \A m \in 1..Len(given[f]), h \in 1..k :
       /\ given[f][m].number # s[h][2]
       /\ given[f][m].number < s[h][2] \/ (given[f][m].by = "Readn" /\ op = "Readline")

(* What becomes of the histories then: nothing but the history of f grows, *)
(* by these entries.                                                       *)
WGrown(more, f, t) == more = [given EXCEPT ![f] = @ \o t]

WStored(more, f, s, k, t) ==
  /\ more \in [Fds -> Seq(W!Given)]
  /\ \A e \in Fds : Pairwise(more[e], Len(more[e]), WAfter)
  /\ \A e \in Fds : e # f => more[e] = given[e]
  /\ \A m \in 1..Len(more[f]) :
       (\E g \in 1..Len(given[f]) : more[f][m] = given[f][g]) \/ (\E h \in 1..k : more[f][m] = t[h])
  /\ \A b \in W!Bytes : (\E m \in DOMAIN more[b[1]] : more[b[1]][m].number = b[2])
                          <=> W!HandedOut(b) \/ b \in W!Range(s)

(* Store does this to the histories, when the bytes fit.                   *)
LEMMA WStore ==
  ASSUME WInv, op \in {"Readn", "Readline"},
         NEW f \in Fds, NEW s \in Seq(W!Bytes), NEW k, k = Len(s),
         WFits(f, s, k),
         NEW t \in Seq(W!Given), k = Len(t),
         WLabelled(t, s, k),
         NEW more, WGrown(more, f, t)
  PROVE  WStored(more, f, s, k, t)
<1>a. PICK a : a = Len(given[f])
  OBVIOUS
<1>1. /\ given \in [Fds -> Seq(W!Given)] /\ given[f] \in Seq(W!Given) /\ a \in Nat /\ k \in Nat
      /\ DOMAIN s = 1..k
  <2>1. k \in Nat /\ DOMAIN s = 1..k
    BY Places, Zenon
  <2>2. given \in [Fds -> Seq(W!Given)]
    BY WTypes
  <2> QED
    BY <1>a, <2>1, <2>2
<1>2. ASSUME NEW h \in 1..k PROVE s[h] \in W!Bytes /\ s[h] = <<f, s[h][2]>> /\ s[h][2] \in 1..Length
  <2>1. s[h] \in W!Bytes /\ s[h][1] = f
    BY <1>1 DEF WFits
  <2> QED
    BY <2>1 DEF W!Bytes
<1>3. \A h \in 1..k : t[h] \in W!Given
  BY <1>1
<1>5. /\ given[f] \o t \in Seq(W!Given) /\ Len(given[f] \o t) = a + k
      /\ \A g \in 1..a : (given[f] \o t)[g] = given[f][g]
      /\ \A h \in 1..k : (given[f] \o t)[a + h] = t[h]
  BY <1>a, <1>1, Joined
<1>u. PICK u : u = given[f] \o t
  OBVIOUS
<1>6. /\ more \in [Fds -> Seq(W!Given)] /\ more[f] = u
      /\ \A e \in Fds : e # f => more[e] = given[e]
  <2>1. more = [given EXCEPT ![f] = u] /\ u \in Seq(W!Given)
    BY <1>u, <1>5 DEF WGrown
  <2> QED
    BY <2>1, <1>1
<1>7. /\ Len(more[f]) = a + k /\ DOMAIN more[f] = 1..a + k
      /\ \A g \in 1..a : more[f][g] = given[f][g]
      /\ \A h \in 1..k : more[f][a + h] = t[h]
  <2>1. /\ u \in Seq(W!Given) /\ Len(u) = a + k
        /\ \A g \in 1..a : u[g] = given[f][g]
        /\ \A h \in 1..k : u[a + h] = t[h]
    BY <1>u, <1>5
  <2>2. DOMAIN u = 1..a + k
    BY <2>1
  <2> QED
    BY <2>1, <2>2, <1>6
<1>8. ASSUME NEW e \in Fds PROVE Pairwise(more[e], Len(more[e]), WAfter)
  <2>1. CASE e # f
    BY <2>1, <1>6 DEF WInv, WOrder
  <2>2. CASE e = f
    <3>1. Pairwise(given[f], a, WAfter)
      BY <1>a DEF WInv, WOrder
    <3>2. Pairwise(t, k, WAfter)
      <4>1. ASSUME NEW g \in 1..k, NEW h \in 1..k, g < h PROVE <<t[g], t[h]>> \in WAfter
        <5>1. s[g][2] < s[h][2] /\ s[g][2] \in Int /\ s[h][2] \in Int
          BY <4>1, <1>2, ProcessProgramsAssumption DEF WFits
        <5>2. s[g][2] # s[h][2]
          BY <5>1
        <5>3. t[g] \in W!Given /\ t[h] \in W!Given /\ t[g].number = s[g][2] /\ t[h].number = s[h][2]
          BY <1>3 DEF WLabelled
        <5> QED
          BY <5>1, <5>2, <5>3, WAfterIs DEF WFollows
      <4> QED
        BY <4>1 DEF Pairwise
    <3>3. ASSUME NEW m \in 1..a, NEW h \in 1..k PROVE <<given[f][m], t[h]>> \in WAfter
      <4>1. given[f][m] \in W!Given
        BY <1>1, <1>a
      <4>2. /\ given[f][m].number # s[h][2]
            /\ \/ given[f][m].number < s[h][2]
               \/ given[f][m].by = "Readn" /\ op = "Readline"
        BY <1>a DEF WFits
      <4>3. t[h] \in W!Given /\ t[h].number = s[h][2] /\ t[h].by = op
        BY <1>3 DEF WLabelled
      <4> QED
        BY <4>1, <4>2, <4>3, WAfterIs DEF WFollows
    <3>4. Follows(more[f], given[f], a, t, k)
      BY <1>7 DEF Follows
    <3>5. Pairwise(more[f], a + k, WAfter)
      BY <1>1, <3>1, <3>2, <3>3, <3>4, PairwiseOn
    <3> QED
      BY <2>2, <3>5, <1>7
  <2> QED
    BY <2>1, <2>2
<1>9. ASSUME NEW m \in 1..a + k
      PROVE  \/ \E g \in 1..a : more[f][m] = given[f][g]
             \/ \E h \in 1..k : more[f][m] = t[h]
  <2>1. m \in 1..a \/ (m > a /\ m - a \in 1..k /\ m = a + (m - a))
    BY <1>1, Halves
  <2>2. CASE m \in 1..a
    BY <2>2, <1>7
  <2>3. CASE m - a \in 1..k /\ m = a + (m - a)
    <3>1. more[f][m] = t[m - a]
      BY <2>3, <1>7, Zenon
    <3> QED
      BY <2>3, <3>1
  <2> QED
    BY <2>1, <2>2, <2>3
<1>10. ASSUME NEW b \in W!Bytes
       PROVE  (\E m \in DOMAIN more[b[1]] : more[b[1]][m].number = b[2])
                <=> W!HandedOut(b) \/ b \in W!Range(s)
  <2>1. b[1] \in Fds /\ b = <<b[1], b[2]>>
    BY DEF W!Bytes
  <2>2. b \in W!Range(s) <=> \E h \in 1..k : s[h] = b
    BY <1>1 DEF W!Range
  <2>3. CASE b[1] # f
    <3>1. b \notin W!Range(s)
      BY <2>2, <2>3 DEF WFits
    <3> QED
      BY <3>1, <2>1, <2>3, <1>6 DEF W!HandedOut
  <2>4. CASE b[1] = f
    <3>1. DOMAIN given[f] = 1..a
      BY <1>a, <1>1
    <3>2. \A h \in 1..k : s[h] = b <=> s[h][2] = b[2]
      BY <1>2, <2>1, <2>4
    <3>3. ASSUME NEW m \in 1..a + k, more[f][m].number = b[2]
          PROVE  (\E g \in 1..a : given[f][g].number = b[2]) \/ \E h \in 1..k : s[h][2] = b[2]
      <4>1. CASE \E g \in 1..a : more[f][m] = given[f][g]
        BY <3>3, <4>1
      <4>2. CASE \E h \in 1..k : more[f][m] = t[h]
        <5>1. PICK h \in 1..k : more[f][m] = t[h]
          BY <4>2
        <5> QED
          BY <3>3, <5>1 DEF WLabelled
      <4> QED
        BY <4>1, <4>2, <1>9
    <3>4. ASSUME NEW g \in 1..a, given[f][g].number = b[2]
          PROVE  \E m \in 1..a + k : more[f][m].number = b[2]
      <4>1. g \in 1..a + k
        BY <1>1
      <4> QED
        BY <3>4, <4>1, <1>7
    <3>5. ASSUME NEW h \in 1..k, s[h][2] = b[2]
          PROVE  \E m \in 1..a + k : more[f][m].number = b[2]
      <4>1. a + h \in 1..a + k
        BY <1>1
      <4>2. more[f][a + h] = t[h] /\ t[h].number = s[h][2]
        BY <1>3, <1>7 DEF WLabelled
      <4> QED
        BY <3>5, <4>1, <4>2
    <3>6. W!HandedOut(b) <=> \E g \in 1..a : given[f][g].number = b[2]
      BY <2>4, <3>1 DEF W!HandedOut
    <3>7. b \in W!Range(s) <=> \E h \in 1..k : s[h][2] = b[2]
      BY <2>2, <3>2
    <3>8. (\E m \in DOMAIN more[b[1]] : more[b[1]][m].number = b[2])
            <=> \E m \in 1..a + k : more[f][m].number = b[2]
      BY <2>4, <1>7
    <3> QED
      BY <3>3, <3>4, <3>5, <3>6, <3>7, <3>8
  <2> QED
    BY <2>3, <2>4
<1>11. \A m \in 1..Len(more[f]) :
         (\E g \in 1..Len(given[f]) : more[f][m] = given[f][g]) \/ (\E h \in 1..k : more[f][m] = t[h])
  BY <1>a, <1>7, <1>9
<1> QED
  BY <1>6, <1>8, <1>10, <1>11, Zenon DEF WStored

(* A call that returns changes nothing else.                               *)
LEMMA WReturn ==
  ASSUME WInv,
         UNCHANGED <<newline, taken, read_buf, wfd, count, op, nleft, out, given, kept>>,
         wpc' = "idle", ret' \in -1..MaxCount, W!ReturnAgrees'
  PROVE  WInv'
<1>1. W!TypeOK'
  BY DEF WInv, W!TypeOK, W!Bytes, W!Given
<1>2. WPlaces'
  BY DEF WInv, WPlaces
<1>3. WOut'
  BY DEF WInv, WOut, W!Bytes
<1>4. WOrder'
  BY WSame DEF WInv
<1>5. WWhose'
  BY DEF WInv, WWhose, W!Range
<1> QED
  BY <1>1, <1>2, <1>3, <1>4, <1>5 DEF WInv

(* Readn takes what is next and stores it.                                 *)
LEMMA WReadnRead == ASSUME WInv, W!ReadnRead PROVE WInv'
<1>1. /\ wpc = "readn" /\ nleft > 0 /\ wpc' = wpc
      /\ UNCHANGED <<newline, read_buf, wfd, count, op, kept, ret>>
  BY DEF W!ReadnRead, W!call
<1>2. PICK k \in 1..nleft : /\ k <= W!left
                            /\ W!Take(k) /\ W!Store(wfd, W!Next_k(k))
                            /\ nleft' = nleft - k
  BY DEF W!ReadnRead
<1>s. PICK s : s = W!Next_k(k)
  OBVIOUS
<1>m. PICK more : more = taken'
  OBVIOUS
<1>3. op = "Readn"
  BY <1>1 DEF WInv, WPlaces
<1>4. k \in Nat \ {0} /\ nleft \in 0..MaxCount /\ count \in 0..MaxCount /\ MaxCount \in Nat
  BY <1>2, WTypes, ProcessProgramsAssumption
<1>5. /\ taken' \in [Fds -> 0..Length] /\ taken'[wfd] = taken[wfd] + k
      /\ s \in Seq(W!Bytes) /\ Len(s) = k
      /\ \A m \in 1..k : s[m] = <<wfd, taken[wfd] + m>>
      /\ \A d \in W!Bytes : d[2] <= taken'[d[1]] <=> d[2] <= taken[d[1]] \/ d \in W!Range(s)
  <2>1. op # "none" /\ k \in Nat \ {0} /\ k <= W!left
    BY <1>2, <1>3, <1>4
  <2>2. more = [taken EXCEPT ![wfd] = @ + k] /\ s = W!Next_k(k)
    BY <1>s, <1>m, <1>2 DEF W!Take
  <2> QED
    <3>1. /\ more \in [Fds -> 0..Length] /\ more[wfd] = taken[wfd] + k
          /\ s \in Seq(W!Bytes) /\ Len(s) = k
          /\ \A m \in 1..k : s[m] = <<wfd, taken[wfd] + m>>
          /\ \A d \in W!Bytes : d[2] <= more[d[1]] <=> d[2] <= taken[d[1]] \/ d \in W!Range(s)
      BY <1>s, <1>m, <2>1, <2>2, WTake
    <3> QED
      BY <3>1, <1>m
<1>t. PICK t : t = [m \in DOMAIN s |-> [number |-> s[m][2], by |-> op]]
  OBVIOUS
<1>6. out' = out \o s /\ WGrown(given', wfd, t)
  BY <1>s, <1>t, <1>2 DEF W!Store, WGrown
<1> PICK a : a = Len(out)
  OBVIOUS
<1>7. out \in Seq(W!Bytes) /\ a \in Nat
  BY <1>3, WTypes
<1>8. /\ out' \in Seq(W!Bytes) /\ Len(out') = a + k
      /\ \A g \in 1..a : out'[g] = out[g]
      /\ \A h \in 1..k : out'[a + h] = s[h]
  <2>1. s \in Seq(W!Bytes) /\ k = Len(s)
    BY <1>5
  <2>2. /\ out \o s \in Seq(W!Bytes) /\ Len(out \o s) = a + k /\ a \in Nat /\ k \in Nat
        /\ \A g \in 1..a : (out \o s)[g] = out[g]
        /\ \A h \in 1..k : (out \o s)[a + h] = s[h]
    BY <2>1, <1>7, Joined
  <2> QED
    BY <2>2, <1>6
<1>9. a + k = count - nleft' /\ nleft' \in 0..MaxCount /\ a + k <= MaxCount
  <2>1. a = count - nleft
    BY <1>3 DEF WInv, WOut
  <2> QED
    BY <2>1, <1>2, <1>4, <1>7
<1>10. wfd \in Fds /\ taken[wfd] \in 0..Length /\ Length \in Nat
  BY <1>3, WTypes, ProcessProgramsAssumption
<1>11. WFits(wfd, s, k)
  <2>c. PICK c : c = taken[wfd]
    OBVIOUS
  <2>1. \A h \in 1..k : s[h] = <<wfd, c + h>>
    BY <2>c, <1>5
  <2>2. c \in Nat
    BY <2>c, <1>10
  <2>3. ASSUME NEW g \in 1..k, NEW h \in 1..k, g < h PROVE s[g][2] < s[h][2]
    BY <2>1, <2>2, <2>3
  <2>4. ASSUME NEW m \in 1..Len(given[wfd]), NEW h \in 1..k
        PROVE  given[wfd][m].number # s[h][2] /\ given[wfd][m].number < s[h][2]
    <3>1. given[wfd][m] \in W!Given /\ given[wfd][m].number <= c
      BY <2>c, <1>10, WHanded
    <3>2. given[wfd][m].number \in Int
      BY <3>1, <1>10 DEF W!Given
    <3> QED
      BY <2>1, <2>2, <3>1, <3>2
  <2> QED
    BY <2>1, <2>3, <2>4 DEF WFits
<1>12. WStored(given', wfd, s, k, t) /\ WLabelled(t, s, k)
  <2>1. op \in {"Readn", "Readline"} /\ s \in Seq(W!Bytes) /\ k = Len(s) /\ wfd \in Fds
    BY <1>3, <1>5, <1>10
  <2>2. WEntriesOf(t, s)
    BY <1>t DEF WEntriesOf
  <2>3. t \in Seq(W!Given) /\ k = Len(t) /\ WLabelled(t, s, k)
    BY <2>1, <2>2, WEntries
  <2> QED
    BY <2>1, <2>3, <1>6, <1>11, WStore
<1>13. WOrder'
  <2>1. W!Bytes' = W!Bytes /\ W!Given' = W!Given /\ WAfter' = WAfter
    BY DEF W!Bytes, W!Given, WAfter
  <2>2. W!Range(read_buf)' = W!Range(read_buf)
    BY <1>1 DEF W!Range
  <2>3. \A b \in W!Bytes : W!HandedOut(b)' <=> W!HandedOut(b) \/ b \in W!Range(s)
    BY <1>12 DEF W!HandedOut, WStored
  <2>4. \A b \in W!Bytes : b[2] <= taken'[b[1]] <=> W!HandedOut(b)' \/ b \in W!Range(read_buf)
    BY <2>3, <1>5 DEF WInv, WOrder
  <2>5. ASSUME NEW b \in W!Range(read_buf), NEW m \in 1..Len(given'[b[1]])
        PROVE  WPast(given'[b[1]][m], b)
    <3>1. \A g \in 1..Len(given[b[1]]) : WPast(given[b[1]][g], b)
      BY DEF WInv, WOrder
    <3>2. b \in W!Bytes /\ b[1] \in Fds
      BY WTypes DEF W!Range, W!Bytes
    <3>3. CASE b[1] # wfd
      BY <3>1, <3>2, <3>3, <1>12 DEF WStored
    <3>4. CASE b[1] = wfd
      <4>1. CASE \E g \in 1..Len(given[wfd]) : given'[wfd][m] = given[wfd][g]
        BY <4>1, <3>1, <3>4
      <4>2. CASE \E h \in 1..k : given'[wfd][m] = t[h]
        <5>1. PICK h \in 1..k : given'[wfd][m] = t[h]
          BY <4>2
        <5>2. t[h].by = "Readn" /\ t[h].number = s[h][2]
          BY <1>3, <1>12 DEF WLabelled
        <5>3. b[2] <= taken[wfd]
          BY <3>2, <3>4 DEF WInv, WOrder
        <5>4. s[h][2] = taken[wfd] + h /\ b[2] \in Int
          BY <1>5, <1>10, <3>2 DEF W!Bytes
        <5> QED
          BY <5>1, <5>2, <5>3, <5>4, <3>4, <1>10 DEF WPast
      <4> QED
        BY <4>1, <4>2, <1>12, <3>4 DEF WStored
    <3> QED
      BY <3>3, <3>4
  <2>6. \A j, h \in 1..Len(read_buf) : j < h => WBefore(read_buf[j], read_buf[h])
    BY DEF WInv, WOrder
  <2> QED
    BY <2>1, <2>2, <2>4, <2>5, <2>6, <1>1, <1>12 DEF WStored, WOrder, WBefore, WPast
<1>14. W!TypeOK'
  <2>1. DOMAIN given' = Fds /\ \A e \in Fds : \A m \in DOMAIN given'[e] : given'[e][m] \in W!Given
    BY <1>12 DEF WStored
  <2> QED
    BY <1>1, <1>3, <1>5, <1>8, <1>9, <2>1 DEF WInv, W!TypeOK, W!Bytes, W!Given
<1>15. WOut'
  <2>c. PICK c : c = taken[wfd]
    OBVIOUS
  <2>1. c \in Int
    BY <2>c, <1>3, WTypes, ProcessProgramsAssumption
  <2>2. \A m \in 1..a : out[m] = <<wfd, c - a + m>>
    BY <2>c, <1>3 DEF WInv, WOut
  <2>3. \A m \in 1..a + k : out'[m] = <<wfd, (c + k) - (a + k) + m>>
    <3>1. a \in Nat /\ k \in Nat
      BY <1>4, <1>7
    <3>2. PICK d : d = c - a
      OBVIOUS
    <3>3. d \in Int /\ d + a = c /\ (c + k) - (a + k) = d
      BY <2>1, <3>1, <3>2
    <3>4. Numbered(out, a, wfd, d) /\ Numbered(s, k, wfd, d + a)
      BY <2>c, <2>2, <3>2, <3>3, <1>5 DEF Numbered
    <3>5. Follows(out', out, a, s, k)
      BY <1>8 DEF Follows
    <3>6. Numbered(out', a + k, wfd, d)
      BY <3>1, <3>3, <3>4, <3>5, NumberedOn, Zenon
    <3> QED
      BY <3>3, <3>6 DEF Numbered
  <2>4. read_buf' \in Seq(W!Bytes')
    BY <1>1, WTypes DEF W!Bytes
  <2>5. W!Bytes' = W!Bytes
    BY DEF W!Bytes
  <2>6. taken'[wfd'] = c + k
    BY <2>c, <1>1, <1>5
  <2> QED
    BY <1>1, <1>3, <1>8, <1>9, <2>3, <2>4, <2>5, <2>6 DEF WOut
<1> QED
  <2>1. WPlaces' /\ WWhose' /\ W!ReturnAgrees'
    BY <1>1, <1>3 DEF WInv, WPlaces, WWhose, W!ReturnAgrees
  <2> QED
    BY <2>1, <1>13, <1>14, <1>15 DEF WInv

(* A call begins with nothing stored and the buffer as it was left.        *)
LEMMA WCall ==
  ASSUME WInv, NEW f \in Fds, NEW n \in 1..MaxCount, W!Call(f, n) PROVE WInv'
<1>1. /\ wfd' = f /\ count' = n /\ nleft' = n /\ out' = <<>>
      /\ ret' = 0 /\ kept' = read_buf
      /\ UNCHANGED <<newline, taken, read_buf, given>>
      /\ \/ op' = "Readn" /\ wpc' = "readn"
         \/ op' = "Writen" /\ wpc' = "writen"
         \/ op' = "Readline" /\ wpc' = "readline"
  BY DEF W!Call
<1>2. n \in 0..MaxCount /\ n - n = 0 /\ 0 + 1 <= n /\ MaxCount \in Nat
  BY ProcessProgramsAssumption
<1>3. W!TypeOK'
  <2>1. Len(out') = 0 /\ Len(out') <= MaxCount
    BY <1>1, <1>2
  <2> QED
    BY <1>1, <1>2, <2>1 DEF WInv, W!TypeOK, W!Bytes, W!Given
<1>4. WOut'
  <2>1. Len(out') = 0 /\ out' \in Seq(W!Bytes') /\ out' \in Seq(Nat)
    BY <1>1
  <2>2. read_buf' \in Seq(W!Bytes')
    BY <1>1, WTypes DEF W!Bytes
  <2> QED
    BY <1>1, <1>2, <2>1, <2>2 DEF WOut
<1>5. WPlaces' /\ W!ReturnAgrees'
  BY <1>1 DEF WInv, WPlaces, W!ReturnAgrees
<1>6. WWhose'
  <2>1. W!Range(out)' = {} /\ W!Range(read_buf)' = W!Range(kept)'
    BY <1>1 DEF W!Range
  <2> QED
    BY <2>1 DEF WWhose
<1>7. WOrder'
  BY <1>1, WSame DEF WInv
<1> QED
  BY <1>3, <1>4, <1>5, <1>6, <1>7 DEF WInv

(* Writen passes on what is next.                                          *)
LEMMA WWritenWrite == ASSUME WInv, W!WritenWrite PROVE WInv'
<1>1. /\ wpc = "writen" /\ nleft > 0 /\ wpc' = wpc
      /\ UNCHANGED <<newline, taken, read_buf, wfd, count, op, given, kept, ret>>
  BY DEF W!WritenWrite, W!call
<1>2. PICK k \in 1..nleft : /\ out' = out \o [m \in 1..k |-> count - nleft + m]
                            /\ nleft' = nleft - k
  BY DEF W!WritenWrite
<1>s. PICK s : s = [m \in 1..k |-> count - nleft + m]
  OBVIOUS
<1>3. op = "Writen"
  BY <1>1 DEF WInv, WPlaces
<1>4. k \in Nat \ {0} /\ nleft \in 0..MaxCount /\ count \in 0..MaxCount /\ MaxCount \in Nat
  BY <1>2, WTypes, ProcessProgramsAssumption
<1>a. PICK a : a = Len(out)
  OBVIOUS
<1>5. out \in Seq(Nat) /\ a \in Nat /\ \A m \in 1..a : out[m] = m
  BY <1>a, <1>3 DEF WInv, WOut
<1>6. a = count - nleft
  BY <1>a, <1>3 DEF WInv, WOut
<1>7. s \in Seq(Nat) /\ Len(s) = k /\ \A m \in 1..k : s[m] = a + m
  <2>1. s = [m \in 1..k |-> a + m]
    BY <1>s, <1>6
  <2>2. \A m \in 1..k : a + m \in Nat
    BY <1>4, <1>5
  <2>3. s \in [1..k -> Nat]
    BY <2>1, <2>2
  <2> QED
    BY <2>1, <2>3, <1>4, FunctionIsSeq
<1>8. /\ out' \in Seq(Nat) /\ Len(out') = a + k
      /\ \A g \in 1..a : out'[g] = out[g]
      /\ \A h \in 1..k : out'[a + h] = s[h]
  <2>1. s \in Seq(Nat) /\ k = Len(s)
    BY <1>7
  <2>2. /\ out \o s \in Seq(Nat) /\ Len(out \o s) = a + k /\ a \in Nat /\ k \in Nat
        /\ \A g \in 1..a : (out \o s)[g] = out[g]
        /\ \A h \in 1..k : (out \o s)[a + h] = s[h]
    BY <2>1, <1>a, <1>5, Joined
  <2> QED
    BY <2>2, <1>2, <1>s
<1>9. a + k = count - nleft' /\ nleft' \in 0..MaxCount /\ a + k <= MaxCount
  BY <1>2, <1>4, <1>6
<1>10. ASSUME NEW m \in 1..a + k PROVE out'[m] = m
  <2>1. m \in 1..a \/ (m > a /\ m - a \in 1..k /\ m = a + (m - a))
    BY <1>4, <1>5, Halves
  <2>2. CASE m \in 1..a
    BY <2>2, <1>5, <1>8
  <2>3. CASE m - a \in 1..k /\ m = a + (m - a)
    <3>1. out'[m] = s[m - a] /\ s[m - a] = a + (m - a)
      BY <2>3, <1>7, <1>8, Zenon
    <3> QED
      BY <3>1, <2>3
  <2> QED
    BY <2>1, <2>2, <2>3
<1>11. W!TypeOK'
  BY <1>1, <1>3, <1>8, <1>9 DEF WInv, W!TypeOK, W!Bytes, W!Given
<1>12. WOut'
  <2>1. read_buf' \in Seq(W!Bytes')
    BY <1>1, WTypes DEF W!Bytes
  <2> QED
    BY <1>1, <1>3, <1>8, <1>9, <1>10, <2>1 DEF WOut
<1>13. WPlaces' /\ WWhose' /\ W!ReturnAgrees'
  BY <1>1, <1>3 DEF WInv, WPlaces, WWhose, W!ReturnAgrees
<1>14. WOrder'
  BY <1>1, WSame DEF WInv
<1> QED
  BY <1>11, <1>12, <1>13, <1>14 DEF WInv

(* my_read fills its empty buffer.                                         *)
LEMMA WFill == ASSUME WInv, W!Fill PROVE WInv'
<1>1. /\ wpc = "fill" /\ wpc' = "readline"
      /\ UNCHANGED <<newline, wfd, count, op, nleft, out, given, kept, ret>>
  BY DEF W!Fill, W!call
<1>2. PICK k \in 1..BufSize : k <= W!left /\ W!Take(k) /\ read_buf' = W!Next_k(k)
  BY DEF W!Fill
<1>s. PICK s : s = W!Next_k(k)
  OBVIOUS
<1>m. PICK more : more = taken'
  OBVIOUS
<1>3. op = "Readline" /\ read_buf = <<>>
  BY <1>1 DEF WInv, WPlaces
<1>4. k \in Nat \ {0} /\ k <= BufSize
  BY <1>2, ProcessProgramsAssumption
<1>5. /\ more \in [Fds -> 0..Length] /\ more[wfd] = taken[wfd] + k
      /\ s \in Seq(W!Bytes) /\ Len(s) = k
      /\ \A m \in 1..k : s[m] = <<wfd, taken[wfd] + m>>
      /\ \A d \in W!Bytes : d[2] <= more[d[1]] <=> d[2] <= taken[d[1]] \/ d \in W!Range(s)
  <2>1. op # "none" /\ k \in Nat \ {0} /\ k <= W!left
    BY <1>2, <1>3, <1>4
  <2>2. more = [taken EXCEPT ![wfd] = @ + k] /\ s = W!Next_k(k)
    BY <1>s, <1>m, <1>2 DEF W!Take
  <2> QED
    BY <1>s, <1>m, <2>1, <2>2, WTake
<1>6. read_buf' = s
  BY <1>2, <1>s
<1>7. W!Range(read_buf) = {}
  BY <1>3 DEF W!Range
<1>8. W!TypeOK'
  <2>1. \A m \in DOMAIN s : s[m] \in W!Bytes
    BY <1>5
  <2> QED
    BY <1>1, <1>4, <1>5, <1>6, <1>m, <2>1 DEF WInv, W!TypeOK, W!Bytes, W!Given
<1>9. WOut'
  BY <1>1, <1>3, <1>5, <1>6 DEF WInv, WOut, W!Bytes, W!Ends
<1>c. PICK c : c = taken[wfd]
  OBVIOUS
<1>10. c \in Nat /\ wfd \in Fds /\ \A h \in 1..k : s[h] = <<wfd, c + h>>
  BY <1>c, <1>3, <1>5, WTypes, ProcessProgramsAssumption
<1>11. ASSUME NEW b PROVE b \in W!Range(s) <=> \E h \in 1..k : b = <<wfd, c + h>>
  <2>1. b \in W!Range(s) <=> \E h \in 1..k : b = s[h]
    BY <1>5, WRange
  <2> QED
    BY <2>1, <1>10
<1>12. WOrder'
  <2>1. W!Bytes' = W!Bytes /\ W!Given' = W!Given /\ WAfter' = WAfter
    BY DEF W!Bytes, W!Given, WAfter
  <2>2. ASSUME NEW j \in 1..k, NEW h \in 1..k, j < h PROVE WBefore(s[j], s[h])
    <3>1. c + j < c + h
      BY <1>4, <1>10, <2>2
    <3> QED
      BY <3>1, <1>10 DEF WBefore
  <2>3. \A b \in W!Bytes : W!HandedOut(b)' <=> W!HandedOut(b)
    BY <1>1 DEF W!HandedOut
  <2>4. ASSUME NEW b \in W!Bytes
        PROVE  b[2] <= taken'[b[1]] <=> W!HandedOut(b)' \/ b \in W!Range(s)
    <3>1. b[2] <= taken'[b[1]] <=> b[2] <= taken[b[1]] \/ b \in W!Range(s)
      BY <1>m, <1>5
    <3>2. b[2] <= taken[b[1]] <=> W!HandedOut(b)
      BY <1>7 DEF WInv, WOrder
    <3> QED
      BY <2>3, <3>1, <3>2
  <2>5. ASSUME NEW b \in W!Range(s), NEW m \in 1..Len(given[b[1]])
        PROVE  WPast(given[b[1]][m], b)
    <3>1. PICK h \in 1..k : b = <<wfd, c + h>>
      BY <1>11
    <3>2. given[wfd][m] \in W!Given /\ given[wfd][m].number <= c
      BY <3>1, <1>c, <1>10, WHanded
    <3>3. given[wfd][m].number \in Int
      BY <3>2, ProcessProgramsAssumption DEF W!Given
    <3>4. given[wfd][m].number < c + h
      BY <3>2, <3>3, <1>10
    <3> QED
      BY <3>1, <3>3, <3>4 DEF WPast
  <2>6. W!Range(read_buf)' = W!Range(s)
    BY <1>6 DEF W!Range
  <2>7. given \in [Fds -> Seq(W!Given)] /\ \A e \in Fds : Pairwise(given[e], Len(given[e]), WAfter)
    BY DEF WInv, WOrder
  <2> QED
    BY <2>1, <2>2, <2>4, <2>5, <2>6, <2>7, <1>1, <1>5, <1>6 DEF WOrder, WBefore, WPast
<1>13. WWhose'
  <2>1. W!Range(out)' = W!Range(out) /\ W!Range(kept)' = W!Range(kept) /\ W!Range(read_buf)' = W!Range(s)
    BY <1>1, <1>6 DEF W!Range
  <2>2. W!Range(kept) \subseteq W!Range(out)
    BY <1>3, <1>7 DEF WInv, WWhose
  <2>3. \A b \in W!Range(s) : b[1] = wfd
    BY <1>11
  <2>4. \A b \in W!Range(out) : b[1] = wfd \/ b \in W!Range(kept)
    BY <1>3 DEF WInv, WWhose
  <2> QED
    BY <2>1, <2>2, <2>3, <2>4, <1>1 DEF WWhose
<1>14. WPlaces' /\ W!ReturnAgrees'
  BY <1>1, <1>3 DEF WInv, WPlaces, W!ReturnAgrees
<1> QED
  BY <1>8, <1>9, <1>12, <1>13, <1>14 DEF WInv

(* Readline moves a byte from the buffer to the line.                      *)
LEMMA WReadlineByte == ASSUME WInv, W!ReadlineByte PROVE WInv'
<1>1. /\ wpc = "readline" /\ Len(out) + 1 < count /\ read_buf # <<>>
      /\ read_buf' = Tail(read_buf)
      /\ IF W!Ends(Head(read_buf)) THEN wpc' = "idle" /\ ret' = Len(out) + 1
                                   ELSE UNCHANGED <<wpc, ret>>
      /\ UNCHANGED <<newline, taken, wfd, count, op, kept, nleft>>
  BY DEF W!ReadlineByte, W!call, W!Return
<1>2. out' = out \o <<Head(read_buf)>> /\ W!Store(Head(read_buf)[1], <<Head(read_buf)>>)
  BY DEF W!ReadlineByte, W!Store
<1>3. op = "Readline"
  BY <1>1 DEF WInv, WPlaces
<1>x. PICK x : x = read_buf[1]
  OBVIOUS
<1>a. PICK a, b : a = Len(out) /\ b = Len(read_buf)
  OBVIOUS
<1>4. /\ out \in Seq(W!Bytes) /\ read_buf \in Seq(W!Bytes) /\ count \in 0..MaxCount
      /\ MaxCount \in Nat
  BY <1>3, WTypes, ProcessProgramsAssumption
<1>5. a \in Nat /\ b \in Nat /\ b >= 1 /\ b <= BufSize /\ BufSize \in Nat
  BY <1>a, <1>1, <1>4, ProcessProgramsAssumption DEF WInv, W!TypeOK
<1>6. /\ Head(read_buf) = x /\ x \in W!Bytes
      /\ read_buf' \in Seq(W!Bytes) /\ Len(read_buf') = b - 1
      /\ \A j \in 1..b-1 : read_buf'[j] = read_buf[j + 1]
  <2>1. Head(read_buf) = read_buf[1] /\ read_buf[1] \in W!Bytes
    BY <1>1, <1>4
  <2>2. /\ Tail(read_buf) \in Seq(W!Bytes) /\ Len(Tail(read_buf)) = b - 1
        /\ \A j \in 1..b-1 : Tail(read_buf)[j] = read_buf[j + 1]
    BY <1>1, <1>4, <1>a, HeadTailProperties
  <2> QED
    BY <2>1, <2>2, <1>1, <1>x
<1>7. /\ out' \in Seq(W!Bytes) /\ Len(out') = a + 1
      /\ \A g \in 1..a : out'[g] = out[g]
      /\ out'[a + 1] = x
  <2>1. out' = Append(out, x)
    BY <1>2, <1>4, <1>6
  <2>2. /\ Append(out, x) \in Seq(W!Bytes) /\ Len(Append(out, x)) = a + 1
        /\ \A g \in 1..a : Append(out, x)[g] = out[g]
        /\ Append(out, x)[a + 1] = x
    BY <1>4, <1>6, <1>a
  <2> QED
    BY <2>1, <2>2
<1>s. PICK s : s = <<x>>
  OBVIOUS
<1>t. PICK t : t = [m \in DOMAIN s |-> [number |-> s[m][2], by |-> op]]
  OBVIOUS
<1>f. PICK f : f = x[1]
  OBVIOUS
<1>8. /\ f \in Fds /\ x = <<f, x[2]>> /\ x[2] \in Int
      /\ s \in Seq(W!Bytes) /\ 1 = Len(s) /\ s[1] = x
      /\ \A d : d \in W!Range(s) <=> d = x
  <2>1. x \in W!Bytes
    BY <1>6
  <2>2. f \in Fds /\ x = <<f, x[2]>> /\ x[2] \in Int
    BY <2>1, <1>f, ProcessProgramsAssumption DEF W!Bytes
  <2>3. s \in Seq(W!Bytes) /\ 1 = Len(s) /\ s[1] = x
    BY <2>1, <1>s
  <2>4. \A d : d \in W!Range(s) <=> d = x
    BY <2>3, <1>s DEF W!Range
  <2> QED
    BY <2>2, <2>3, <2>4
<1>9. /\ \A j \in 1..b-1 : j \in 1..b /\ j + 1 \in 1..b /\ 1 < j + 1
      /\ 1 \in 1..b /\ a + 1 \in 1..a+1
  BY <1>5
<1>10. W!Range(read_buf) = {x} \cup W!Range(read_buf)'
  <2>1. W!Range(read_buf) = {read_buf[j] : j \in 1..b}
    BY <1>4, <1>a DEF W!Range
  <2>2. W!Range(read_buf)' = {read_buf[j + 1] : j \in 1..b-1}
    BY <1>6 DEF W!Range
  <2>3. \A j \in 1..b : j = 1 \/ (j - 1 \in 1..b-1 /\ j = (j - 1) + 1)
    BY <1>5
  <2>4. ASSUME NEW j \in 1..b PROVE read_buf[j] = x \/ read_buf[j] \in W!Range(read_buf)'
    <3>1. CASE j = 1
      BY <3>1, <1>x
    <3>2. CASE j - 1 \in 1..b-1 /\ j = (j - 1) + 1
      BY <3>2, <2>2, Zenon
    <3> QED
      BY <2>3, <3>1, <3>2
  <2>5. \A j \in 1..b-1 : read_buf[j + 1] \in W!Range(read_buf)
    BY <2>1, <1>9
  <2>6. x \in W!Range(read_buf)
    BY <2>1, <1>9, <1>x
  <2> QED
    BY <2>1, <2>2, <2>4, <2>5, <2>6
<1>11. WFits(f, s, 1)
  <2>1. x \in W!Range(read_buf)
    BY <1>10
  <2>2. \A m \in 1..Len(given[f]) : WPast(given[f][m], x)
    BY <2>1, <1>f DEF WInv, WOrder
  <2>3. \A h \in 1..1 : h = 1 /\ s[h] = x
    BY <1>8
  <2>4. ASSUME NEW m \in 1..Len(given[f]), NEW h \in 1..1
        PROVE  /\ given[f][m].number # s[h][2]
               /\ given[f][m].number < s[h][2] \/ (given[f][m].by = "Readn" /\ op = "Readline")
    BY <2>2, <2>3, <1>3 DEF WPast
  <2>5. \A g, h \in 1..1 : ~ (g < h)
    OBVIOUS
  <2> QED
    BY <2>3, <2>4, <2>5, <1>f DEF WFits
<1>12. WStored(given', f, s, 1, t) /\ WLabelled(t, s, 1)
  <2>1. op \in {"Readn", "Readline"} /\ s \in Seq(W!Bytes) /\ 1 = Len(s) /\ f \in Fds
    BY <1>3, <1>8
  <2>2. WEntriesOf(t, s)
    BY <1>t DEF WEntriesOf
  <2>3. t \in Seq(W!Given) /\ 1 = Len(t) /\ WLabelled(t, s, 1)
    BY <2>1, <2>2, WEntries
  <2>4. WGrown(given', f, t)
    BY <1>2, <1>6, <1>f, <1>s, <1>t DEF W!Store, WGrown
  <2> QED
    BY <2>1, <2>3, <2>4, <1>11, WStore
<1>13. a + 1 + 1 <= count /\ a + 1 <= MaxCount /\ a + 1 \in -1..MaxCount /\ b - 1 <= BufSize
       /\ a + 1 > 0
  BY <1>1, <1>4, <1>5, <1>a
<1>14. W!TypeOK'
  <2>1. \A m \in DOMAIN read_buf' : read_buf'[m] \in W!Bytes
    BY <1>6
  <2>2. ret' \in -1..MaxCount /\ wpc' \in {"idle", "readline"}
    BY <1>1, <1>13, <1>a DEF WInv, W!TypeOK
  <2>3. DOMAIN given' = Fds /\ \A e \in Fds : \A m \in DOMAIN given'[e] : given'[e][m] \in W!Given
    BY <1>12 DEF WStored
  <2> QED
    BY <1>1, <1>3, <1>6, <1>7, <1>13, <2>1, <2>2, <2>3 DEF WInv, W!TypeOK, W!Bytes, W!Given
<1>15. \A j \in 1..a : ~ W!Ends(out[j])
  BY <1>1, <1>3, <1>a DEF WInv, WOut
<1>16. \A j \in 1..a+1 : j \in 1..a \/ j = a + 1
  BY <1>5
<1>17. WOut'
  <2>2. wpc' # "idle" => \A j \in 1..a+1 : ~ W!Ends(out'[j])
    <3>1. wpc' # "idle" => ~ W!Ends(x)
      BY <1>1, <1>6
    <3> QED
      BY <3>1, <1>7, <1>15, <1>16 DEF W!Ends
  <2>3. wpc' # "idle" => \A j \in 1..a+1 : ~ W!Ends(out[j])'
    BY <2>2, <1>1 DEF W!Ends
  <2> QED
    BY <2>3, <1>1, <1>3, <1>6, <1>7, <1>13 DEF WOut, W!Bytes
<1>18. WOrder'
  <2>1. W!Bytes' = W!Bytes /\ W!Given' = W!Given /\ WAfter' = WAfter
    BY DEF W!Bytes, W!Given, WAfter
  <2>2. \A j, h \in 1..b : j < h => WBefore(read_buf[j], read_buf[h])
    BY <1>a DEF WInv, WOrder
  <2>3. ASSUME NEW j \in 1..b-1, NEW h \in 1..b-1, j < h PROVE WBefore(read_buf'[j], read_buf'[h])
    <3>1. j + 1 < h + 1
      BY <2>3
    <3> QED
      BY <3>1, <2>2, <1>6, <1>9
  <2>4. ASSUME NEW d \in W!Range(read_buf)' PROVE WBefore(x, d)
    <3>1. PICK h \in 1..b-1 : d = read_buf[h + 1]
      BY <1>6 DEF W!Range
    <3> QED
      BY <3>1, <2>2, <1>9, <1>x
  <2>5. \A d \in W!Bytes : W!HandedOut(d)' <=> W!HandedOut(d) \/ d = x
    BY <1>8, <1>12 DEF W!HandedOut, WStored
  <2>6. \A d \in W!Bytes : d[2] <= taken[d[1]] <=> W!HandedOut(d)' \/ d \in W!Range(read_buf)'
    BY <2>5, <1>10 DEF WInv, WOrder
  <2>7. ASSUME NEW d \in W!Range(read_buf)', NEW m \in 1..Len(given'[d[1]])
        PROVE  WPast(given'[d[1]][m], d)
    <3>1. d \in W!Range(read_buf)
      BY <1>10
    <3>2. \A g \in 1..Len(given[d[1]]) : WPast(given[d[1]][g], d)
      BY <3>1 DEF WInv, WOrder
    <3>3. d \in W!Bytes /\ d[1] \in Fds
      BY <3>1, <1>4 DEF W!Range, W!Bytes
    <3>4. CASE d[1] # f
      BY <3>2, <3>3, <3>4, <1>12 DEF WStored
    <3>5. CASE d[1] = f
      <4>1. CASE \E g \in 1..Len(given[f]) : given'[f][m] = given[f][g]
        BY <4>1, <3>2, <3>5
      <4>2. CASE \E h \in 1..1 : given'[f][m] = t[h]
        <5>1. given'[f][m] = t[1] /\ t[1].number = x[2]
          BY <4>2, <1>8, <1>12 DEF WLabelled
        <5>2. x[2] < d[2]
          BY <2>4, <3>5, <1>f DEF WBefore
        <5>3. d[2] \in Int
          BY <3>3, ProcessProgramsAssumption DEF W!Bytes
        <5> QED
          BY <5>1, <5>2, <5>3, <3>5, <1>8 DEF WPast
      <4> QED
        BY <4>1, <4>2, <1>12, <3>5 DEF WStored
    <3> QED
      BY <3>4, <3>5
  <2> QED
    BY <2>1, <2>3, <2>6, <2>7, <1>1, <1>6, <1>12 DEF WOrder, WStored, WBefore, WPast
<1>19. WWhose'
  <2>1. W!Range(kept)' = W!Range(kept)
    BY <1>1 DEF W!Range
  <2>2. ASSUME NEW d PROVE d \in W!Range(out)' <=> d \in W!Range(out) \/ d = x
    <3>1. d \in W!Range(out) <=> \E g \in 1..a : d = out[g]
      BY <1>4, <1>a, WRange
    <3>2. d \in W!Range(out)' <=> \E g \in 1..a+1 : d = out'[g]
      BY <1>7 DEF W!Range
    <3>3. \A g \in 1..a : g \in 1..a+1
      BY <1>5
    <3> QED
      BY <3>1, <3>2, <3>3, <1>7, <1>9, <1>16
  <2>3. ASSUME NEW d
        PROVE  d \in W!Range(out)' \cup W!Range(read_buf)' <=> d \in W!Range(out) \cup W!Range(read_buf)
    BY <2>2, <1>10
  <2>4. /\ \A d \in W!Range(out) \cup W!Range(read_buf) : d[1] = wfd \/ d \in W!Range(kept)
        /\ W!Range(kept) \subseteq W!Range(out) \cup W!Range(read_buf)
        /\ \/ W!Range(kept) \subseteq W!Range(out)
           \/ W!Range(out) \cup W!Range(read_buf) \subseteq W!Range(kept)
    BY <1>3 DEF WInv, WWhose
  <2>5. W!Range(out)' \cup W!Range(read_buf)' = W!Range(out) \cup W!Range(read_buf)
    BY <2>3
  <2>6. W!Range(out) \subseteq W!Range(out)'
    BY <2>2
  <2> QED
    BY <2>1, <2>4, <2>5, <2>6, <1>1 DEF WWhose
<1>20. WPlaces'
  BY <1>1, <1>3 DEF WInv, WPlaces
<1>21. W!ReturnAgrees'
  <2>1. CASE wpc' # "idle"
    BY <2>1 DEF W!ReturnAgrees
  <2>2. CASE wpc' = "idle"
    <3>1. W!Ends(x) /\ ret' = a + 1
      BY <2>2, <1>1, <1>6, <1>a
    <3>2. \A j \in 1..(a + 1)-1 : j \in 1..a
      BY <1>5
    <3>3. \A j \in 1..(a + 1)-1 : ~ W!Ends(out[j])'
      BY <3>2, <1>1, <1>7, <1>15 DEF W!Ends
    <3>4. W!Ends(out[ret])'
      BY <3>1, <1>1, <1>7 DEF W!Ends
    <3> QED
      BY <3>1, <3>3, <3>4, <1>1, <1>3, <1>7, <1>13 DEF W!ReturnAgrees
  <2> QED
    BY <2>1, <2>2
<1> QED
  BY <1>14, <1>17, <1>18, <1>19, <1>20, <1>21 DEF WInv

(* Every step of the three routines keeps the invariant.                   *)
LEMMA WNext == WInv /\ [W!Next]_wvars => WInv'
<1> SUFFICES ASSUME WInv, [W!Next]_wvars PROVE WInv'
  OBVIOUS
<1>t. /\ count \in 0..MaxCount /\ nleft \in 0..MaxCount /\ Len(out) \in Nat /\ MaxCount \in Nat
      /\ ret \in -1..MaxCount
  BY WTypes, ProcessProgramsAssumption DEF WInv, W!TypeOK
<1>m. -1 \in -1..MaxCount /\ (\A g \in 0..MaxCount : g \in -1..MaxCount)
  BY <1>t
<1>1. CASE UNCHANGED wvars
  <2>1. W!TypeOK' /\ W!ReturnAgrees'
    BY <1>1 DEF wvars, WInv, W!TypeOK, W!Bytes, W!Given, W!ReturnAgrees, W!Ends, W!left
  <2>2. WPlaces' /\ WOut'
    BY <1>1 DEF wvars, WInv, WPlaces, WOut, W!Bytes, W!Ends
  <2>3. WWhose'
    BY <1>1 DEF wvars, WInv, WWhose, W!Range
  <2>4. WOrder'
    BY <1>1, WSame DEF wvars, WInv
  <2> QED
    BY <2>1, <2>2, <2>3, <2>4 DEF WInv
<1>2. CASE \E f \in Fds, n \in 1..MaxCount : W!Call(f, n)
  BY <1>2, WCall
<1>3. CASE W!ReadnRead \/ W!WritenWrite \/ W!ReadlineByte \/ W!Fill
  BY <1>3, WReadnRead, WWritenWrite, WReadlineByte, WFill
<1>4. CASE W!ReadnReturn
  <2>1. /\ wpc' = "idle" /\ ret' = count - nleft /\ (nleft = 0 \/ W!left = 0) /\ wpc = "readn"
        /\ UNCHANGED <<newline, taken, read_buf, wfd, count, op, nleft, out, given, kept>>
    BY <1>4 DEF W!ReadnReturn, W!Return, W!call
  <2>2. op = "Readn"
    BY <2>1 DEF WInv, WPlaces
  <2>3. Len(out) = count - nleft
    BY <2>2 DEF WInv, WOut
  <2>4. count - nleft \in -1..MaxCount /\ (count - nleft < count => W!left = 0)
    BY <2>1, <2>3, <1>t
  <2>5. W!left' = W!left
    BY <2>1 DEF W!left
  <2> QED
    BY <2>1, <2>2, <2>3, <2>4, <2>5, WReturn DEF W!ReturnAgrees
<1>5. CASE W!ReadnFails \/ W!WritenFails \/ W!FillFails
  <2>1. /\ wpc' = "idle" /\ ret' = -1
        /\ UNCHANGED <<newline, taken, read_buf, wfd, count, op, nleft, out, given, kept>>
    BY <1>5 DEF W!ReadnFails, W!WritenFails, W!FillFails, W!Return, W!call
  <2> QED
    BY <2>1, <1>m, WReturn DEF W!ReturnAgrees
<1>6. CASE W!WritenReturn
  <2>1. /\ wpc' = "idle" /\ ret' = count /\ nleft = 0 /\ wpc = "writen"
        /\ UNCHANGED <<newline, taken, read_buf, wfd, count, op, nleft, out, given, kept>>
    BY <1>6 DEF W!WritenReturn, W!Return, W!call
  <2>2. op = "Writen"
    BY <2>1 DEF WInv, WPlaces
  <2>3. out \in Seq(Nat) /\ Len(out) = count - nleft /\ \A m \in 1..Len(out) : out[m] = m
    BY <2>2 DEF WInv, WOut
  <2>4. Len(out) = count
    BY <2>1, <2>3, <1>t
  <2>5. out = [m \in 1..count |-> m]
    BY <2>3, <2>4
  <2> QED
    BY <2>1, <2>2, <2>5, <1>t, <1>m, WReturn DEF W!ReturnAgrees
<1>7. CASE W!ReadlineFull
  <2>1. /\ wpc' = "idle" /\ ret' = Len(out) + 1 /\ wpc = "readline" /\ Len(out) + 1 >= count
        /\ UNCHANGED <<newline, taken, read_buf, wfd, count, op, nleft, out, given, kept>>
    BY <1>7 DEF W!ReadlineFull, W!Return, W!call
  <2>2. op = "Readline"
    BY <2>1 DEF WInv, WPlaces
  <2>3. Len(out) + 1 <= count /\ \A m \in 1..Len(out) : ~ W!Ends(out[m])
    BY <2>1, <2>2 DEF WInv, WOut
  <2>4. Len(out) + 1 = count /\ Len(out) = count - 1 /\ count \in -1..MaxCount
    BY <2>1, <2>3, <1>t
  <2>5. \A m \in 1..Len(out)-1 : m \in 1..Len(out)
    BY <1>t
  <2>6. \A m \in 1..Len(out)-1 : ~ W!Ends(out[m])'
    BY <2>1, <2>3, <2>5 DEF W!Ends
  <2> QED
    BY <2>1, <2>2, <2>4, <2>6, WReturn DEF W!ReturnAgrees
<1>8. CASE W!ReadlineEmpty
  <2>1. /\ wpc' = "fill" /\ wpc = "readline" /\ read_buf = <<>>
        /\ UNCHANGED <<newline, taken, read_buf, wfd, count, op, nleft, out, given, kept, ret>>
    BY <1>8 DEF W!ReadlineEmpty, W!call
  <2>2. W!TypeOK' /\ W!ReturnAgrees'
    BY <2>1 DEF WInv, W!TypeOK, W!Bytes, W!Given, W!ReturnAgrees
  <2>3. WPlaces' /\ WOut'
    BY <2>1 DEF WInv, WPlaces, WOut, W!Bytes, W!Ends
  <2>4. W!Range(out)' = W!Range(out) /\ W!Range(kept)' = W!Range(kept) /\ W!Range(read_buf)' = W!Range(read_buf)
    BY <2>1 DEF W!Range
  <2>5. WWhose'
    BY <2>1, <2>4 DEF WInv, WWhose
  <2>6. WOrder'
    BY <2>1, WSame DEF WInv
  <2> QED
    BY <2>2, <2>3, <2>4, <2>5, <2>6 DEF WInv
<1>9. CASE W!FillEnd
  <2>1. /\ wpc' = "idle" /\ ret' = Len(out) /\ wpc = "fill" /\ W!left = 0
        /\ UNCHANGED <<newline, taken, read_buf, wfd, count, op, nleft, out, given, kept>>
    BY <1>9 DEF W!FillEnd, W!Return, W!call
  <2>2. op = "Readline" /\ read_buf = <<>>
    BY <2>1 DEF WInv, WPlaces
  <2>3. Len(out) + 1 <= count /\ \A m \in 1..Len(out) : ~ W!Ends(out[m])
    BY <2>1, <2>2 DEF WInv, WOut
  <2>4. Len(out) \in -1..MaxCount
    BY <2>3, <1>t
  <2>5. \A m \in 1..Len(out)-1 : m \in 1..Len(out)
    BY <1>t
  <2>6. (\A m \in 1..Len(out)-1 : ~ W!Ends(out[m])') /\ W!left' = 0
    BY <2>1, <2>3, <2>5 DEF W!Ends, W!left
  <2> QED
    BY <2>1, <2>2, <2>4, <2>6, WReturn DEF W!ReturnAgrees
<1> QED
  BY <1>1, <1>2, <1>3, <1>4, <1>5, <1>6, <1>7, <1>8, <1>9 DEF W!Next

-----------------------------------------------------------------------------
(* Pipes: pipe.c, pipe2.c                                                  *)

(* Where each process may be, and the ends it holds there: ps both, as     *)
(* long as it lives, and main both until it has forked.                    *)
PPlaces ==
  /\ ppc["main"] \in {"pipe", "fork1", "close", "ended"} \cup
       IF program = "pipe2.c" THEN {"fork2", "waitps", "waitgrep"} ELSE {"write", "killed"}
  /\ ppc["ps"] \in {"none", "start"} \cup
       IF program = "pipe2.c" THEN {"write", "failed", "done"} ELSE {"pause"}
  /\ ppc["grep"] \in {"none"} \cup
       IF program = "pipe2.c" THEN {"start", "read", "failed", "done"} ELSE {}
  /\ ppc["ps"] # "none" => ppc["main"] \notin {"pipe", "fork1"}
  /\ ppc["grep"] # "none" => ppc["main"] \notin {"pipe", "fork1", "fork2"}
PEnds ==
  /\ ppc["main"] \in {"fork1", "fork2", "close"} => ends["main"] = {"r", "w"}
  /\ ppc["ps"] \in {"start", "write"} => ends["ps"] = {"r", "w"}
PRead == ppc["grep"] = "done" => /\ data = 0 /\ ppc["ps"] \in {"none", "failed", "done"}
                                 /\ ppc["main"] \in {"waitps", "waitgrep", "ended"}
PInv == P!TypeOK /\ PPlaces /\ PEnds /\ PRead

LEMMA PTypes == PipeSize \in Nat /\ MaxOutput \in Nat /\ 1 \in 0..MaxOutput
  BY ProcessProgramsAssumption

LEMMA PInit == P!Init => PInv
<1> SUFFICES ASSUME P!Init PROVE PInv
  OBVIOUS
<1> USE PTypes DEF P!Init, P!Processes, P!Forked
<1>1. P!TypeOK
  BY DEF P!TypeOK
<1>2. PPlaces /\ PEnds /\ PRead
  BY DEF PPlaces, PEnds, PRead
<1> QED
  BY <1>1, <1>2 DEF PInv

LEMMA PWhole == PInv => P!NothingCutOff
  BY DEF PInv, PPlaces, PRead, P!NothingCutOff, P!Living, P!Zombies, P!Processes, P!Forked

LEMMA PNext == PInv /\ [P!Next]_pvars /\ program' = program => PInv'
<1> SUFFICES ASSUME PInv, [P!Next]_pvars, program' = program PROVE PInv'
  OBVIOUS
<1> USE PTypes
<1> DEFINE Procs == {"main", "ps", "grep"}
           Labels == {"none", "pipe", "fork1", "fork2", "close", "waitps", "waitgrep", "start",
                      "write", "read", "pause", "failed", "done", "killed", "ended"}
<1>t. /\ ppc \in [Procs -> Labels] /\ ends \in [Procs -> SUBSET {"r", "w"}]
      /\ data \in 0..PipeSize /\ output \in 0..MaxOutput
      /\ ppid \in [{"ps", "grep"} -> {"ps", "grep", "none", "-1"}]
      /\ P!Processes = Procs /\ P!Forked = {"ps", "grep"}
  BY DEF PInv, P!TypeOK, P!Processes, P!Forked
<1>i. PPlaces /\ PEnds /\ PRead
  BY DEF PInv
<1>u. ASSUME ppc' \in [Procs -> Labels], ends' \in [Procs -> SUBSET {"r", "w"}],
             data' \in 0..PipeSize, output' \in 0..MaxOutput,
             ppid' \in [{"ps", "grep"} -> {"ps", "grep", "none", "-1"}],
             PPlaces', PEnds', PRead'
      PROVE  PInv'
  <2>1. (program = "pipe2.c")' \in BOOLEAN
    OBVIOUS
  <2>2. P!TypeOK'
    BY <1>u, <2>1 DEF P!TypeOK, P!Processes, P!Forked
  <2> QED
    BY <1>u, <2>2 DEF PInv
<1> USE <1>t, <1>i, <1>u DEF PPlaces, PEnds, PRead, P!Step, P!Goto, P!Closes, P!Exit
<1>1. CASE UNCHANGED pvars \/ P!Idle
  BY <1>1 DEF pvars, P!vars, P!Idle
<1>2. CASE P!Pipe \/ P!PipeFails
  BY <1>2 DEF P!Pipe, P!PipeFails
<1>3. CASE P!Fork1
  BY <1>3 DEF P!Fork1, P!Fork
<1>4. CASE P!Fork2
  BY <1>4 DEF P!Fork2, P!Fork
<1>5. CASE P!Close
  BY <1>5 DEF P!Close
<1>6. CASE P!Wait("ps", "waitps", "waitgrep") \/ P!Wait("grep", "waitgrep", "ended")
  BY <1>6 DEF P!Wait
<1>7. ASSUME NEW q \in {"main", "ps"}, P!Write(q) \/ P!Written(q) \/ P!SigPipe(q) PROVE PInv'
  <2>1. CASE P!Write(q)
    BY <1>7, <2>1 DEF P!Write
  <2>2. CASE P!Written(q)
    BY <1>7, <2>2 DEF P!Written
  <2>3. CASE P!SigPipe(q)
    BY <1>7, <2>3 DEF P!SigPipe, P!held
  <2> QED
    BY <1>7, <2>1, <2>2, <2>3
<1>8. CASE P!StartPs \/ P!StartChild \/ P!StartGrep
  BY <1>8 DEF P!StartPs, P!StartChild, P!StartGrep
<1>9. CASE P!Read
  BY <1>9 DEF P!Read
<1>10. CASE P!ReadEnd
  BY <1>10 DEF P!ReadEnd, P!held
<1>11. ASSUME NEW q \in {"ps", "grep"}, P!ExecFails(q) PROVE PInv'
  BY <1>11 DEF P!ExecFails
<1> QED
  BY <1>1, <1>2, <1>3, <1>4, <1>5, <1>6, <1>7, <1>8, <1>9, <1>10, <1>11
     DEF P!Next, P!Main, P!Writer, P!Child

-----------------------------------------------------------------------------
(* Fifo: fifo_read.c, fifo_write.c                                         *)

(* The words are numbered in the order of writing; each is printed, in the *)
(* pipe or lost, and the pipe is behind what was printed.  While nobody    *)
(* reads, the pipe holds late words only.  A word typed is a word written  *)
(* later, so there are never too many.                                     *)
NWriting == {v \in Writers : npc[v] = "write"}
NIncreasing(s) == \A g, h \in 1..Len(s) : g < h => s[g] < s[h]
NSeen(x) == (\E g \in 1..Len(got) : got[g] = x) \/ (\E h \in 1..Len(pipe) : pipe[h] = x)
NOrdered == /\ NIncreasing(got) /\ NIncreasing(pipe)
            /\ \A g \in 1..Len(got), h \in 1..Len(pipe) : got[g] < pipe[h]
NWords == /\ got \in Seq(Nat) /\ pipe \in Seq(Nat)
          /\ \A x \in Nat : x \in 1..words <=> NSeen(x) \/ x \in lost
          /\ words + Cardinality(NWriting) <= MaxWords
NLate == /\ lost \subseteq late
         /\ N!Reading = {} => \A h \in 1..Len(pipe) : pipe[h] \in late
         /\ N!Open(Readers \cup Writers) = {} => pipe = <<>>
NInv == N!TypeOK /\ NOrdered /\ NWords /\ NLate

LEMMA NTypes == /\ Readers \cap Writers = {} /\ IsFiniteSet(Writers)
                /\ FifoSize \in Nat \ {0} /\ MaxWords \in Nat
  BY ProcessProgramsAssumption

LEMMA NCounts == \A s : N!Cardinality(s) = Cardinality(s)
  BY DEF N!Cardinality, Cardinality

LEMMA NFinite == IsFiniteSet(NWriting) /\ Cardinality(NWriting) \in Nat
<1>1. NWriting \subseteq Writers
  BY DEF NWriting
<1> QED
  BY <1>1, NTypes, FS_Subset, FS_CardinalityType

LEMMA NInit == N!Init => NInv
<1> SUFFICES ASSUME N!Init PROVE NInv
  OBVIOUS
<1> USE NTypes DEF N!Init
<1>1. N!TypeOK
  BY DEF N!TypeOK
<1>2. NOrdered
  BY DEF NOrdered, NIncreasing
<1>3. NWriting = {}
  BY DEF NWriting
<1>4. NWords
  BY <1>3, FS_EmptySet DEF NWords, NSeen
<1>5. NLate
  BY DEF NLate
<1> QED
  BY <1>1, <1>2, <1>4, <1>5 DEF NInv

LEMMA NOnlyLateLost == NInv => N!OnlyLateLost
<1> SUFFICES ASSUME NInv PROVE N!OnlyLateLost
  OBVIOUS
<1> DEFINE a == Len(got)
           b == Len(pipe)
           seen == got \o pipe
<1>1. /\ got \in Seq(Nat) /\ pipe \in Seq(Nat) /\ a \in Nat /\ b \in Nat
      /\ \A x \in Nat : x \in 1..words <=> NSeen(x) \/ x \in lost
      /\ NOrdered /\ NLate /\ words \in Nat /\ late \subseteq 1..words
  BY NTypes DEF NInv, NWords, N!TypeOK
<1>2. /\ seen \in Seq(Nat) /\ Len(seen) = a + b
      /\ \A k \in 1..a + b : seen[k] = IF k <= a THEN got[k] ELSE pipe[k - a]
  BY <1>1, ConcatProperties
<1>s. \A x : NSeen(x) <=> \/ \E g \in 1..a : got[g] = x
                          \/ \E h \in 1..b : pipe[h] = x
  BY DEF NSeen
<1>o. /\ \A g, h \in 1..a : g < h => got[g] < got[h]
      /\ \A g, h \in 1..b : g < h => pipe[g] < pipe[h]
      /\ \A g \in 1..a, h \in 1..b : got[g] < pipe[h]
  BY <1>1 DEF NOrdered, NIncreasing
<1>n. a \in Nat /\ b \in Nat
  BY <1>1
<1>e. (\A g \in 1..a : got[g] \in Nat) /\ (\A h \in 1..b : pipe[h] \in Nat)
  BY <1>1
<1> HIDE DEF seen, a, b
<1>3. /\ \A g \in 1..a : g \in 1..a + b /\ seen[g] = got[g] /\ seen[g] \in Nat
      /\ \A h \in 1..b : a + h \in 1..a + b /\ seen[a + h] = pipe[h] /\ seen[a + h] \in Nat
  <2>1. \A g \in 1..a : g \in 1..a + b /\ g <= a
    BY <1>n
  <2>2. \A h \in 1..b : a + h \in 1..a + b /\ ~(a + h <= a) /\ (a + h) - a = h
    BY <1>n
  <2> QED
    BY <1>2, <1>e, <2>1, <2>2
<1>4. ASSUME NEW k \in 1..a + b
      PROVE  k \in 1..a \/ (k > a /\ \E h \in 1..b : k = a + h)
  <2>1. k <= a => k \in 1..a
    BY <1>n
  <2>2. k > a => \E h \in 1..b : k = a + h
    <3>1. k > a => k - a \in 1..b /\ k = a + (k - a)
      BY <1>n
    <3> QED
      BY <3>1, Zenon
  <2>3. k <= a \/ k > a
    BY <1>n
  <2> QED
    BY <2>1, <2>2, <2>3
<1>5. \A x : x \in N!ToSet(seen) <=> NSeen(x)
  <2>1. \A x : x \in N!ToSet(seen) <=> \E k \in 1..a + b : seen[k] = x
    BY <1>2 DEF N!ToSet
  <2> QED
    BY <1>3, <1>4, <1>s, <2>1
<1>6. N!ToSet(seen) \cup lost = 1..words
  <2>1. \A x : NSeen(x) \/ x \in lost => x \in Nat
    <3>1. \A x : NSeen(x) => x \in Nat
      BY <1>e, <1>s
    <3>2. lost \subseteq 1..words /\ 1..words \subseteq Nat
      BY <1>1 DEF NLate
    <3> QED
      BY <3>1, <3>2
  <2> QED
    BY <1>1, <1>5, <2>1
<1>7. \A m, n \in 1..Len(seen) : m < n => seen[m] < seen[n]
  <2> SUFFICES ASSUME NEW m \in 1..a + b, NEW n \in 1..a + b, m < n PROVE seen[m] < seen[n]
    BY <1>2
  <2>1. /\ \A g, h \in 1..a : g < h => seen[g] < seen[h]
        /\ \A g \in 1..a, h \in 1..b : seen[g] < seen[a + h]
        /\ \A g, h \in 1..b : g < h => seen[a + g] < seen[a + h]
    BY <1>3, <1>o
  <2>2. CASE m \in 1..a /\ n \in 1..a
    BY <2>1, <2>2
  <2>3. ASSUME m \in 1..a, NEW h \in 1..b, n = a + h PROVE seen[m] < seen[n]
    BY <2>1, <2>3
  <2>4. ASSUME NEW g \in 1..b, m = a + g, NEW h \in 1..b, n = a + h PROVE seen[m] < seen[n]
    <3>1. g < h
      BY <1>n, <2>4
    <3> QED
      BY <2>1, <2>4, <3>1
  <2>5. m > a => n \notin 1..a
    BY <1>n
  <2> QED
    BY <1>4, <2>2, <2>3, <2>4, <2>5
<1> QED
  BY <1>1, <1>6, <1>7 DEF NLate, N!OnlyLateLost, seen

(* What a process leaves behind when it is the last one, and else nothing. *)
LEMMA NLeave == ASSUME NInv, NEW q \in Readers \cup Writers, N!Leave(q),
                       q \in N!Open(Readers \cup Writers), q \notin N!Reading
                PROVE  NInv'
<1> DEFINE Labels == {"away", "open", "read", "eof", "scanf", "write", "ended"}
           All == Readers \cup Writers
<1>t. /\ npc \in [All -> Labels] /\ words \in 0..MaxWords /\ Len(pipe) <= FifoSize
      /\ late \subseteq 1..words /\ NOrdered /\ NWords /\ NLate
  BY DEF NInv, N!TypeOK
<1>1. /\ npc' = [npc EXCEPT ![q] = "ended"] /\ UNCHANGED <<words, got, late>>
      /\ IF N!Open(All) = {q} THEN lost' = lost \cup N!ToSet(pipe) /\ pipe' = <<>>
                              ELSE UNCHANGED <<lost, pipe>>
  BY DEF N!Leave
<1>2. npc' \in [All -> Labels]
  BY <1>t, <1>1
<1>3. N!Open(All)' = N!Open(All) \ {q}
  BY <1>t, <1>1 DEF N!Open
<1>4. N!Reading' = N!Reading
  BY <1>t, <1>1 DEF N!Reading
<1>5. words + Cardinality(NWriting)' <= MaxWords
  <2>1. NWriting' = NWriting \ {q}
    BY <1>t, <1>1 DEF NWriting
  <2>2. Cardinality(NWriting') \in Nat /\ Cardinality(NWriting') <= Cardinality(NWriting)
    BY <2>1, NFinite, FS_RemoveElement, FS_Subset, FS_CardinalityType
  <2> QED
    BY <1>t, <2>2, NFinite, NTypes DEF NWords
<1>6. CASE N!Open(All) = {q}
  <2>1. N!Reading = {}
    BY <1>t, <1>6 DEF N!Reading, N!Open
  <2>2. \A x : x \in lost' <=> x \in lost \/ \E h \in 1..Len(pipe) : pipe[h] = x
    BY <1>t, <1>1, <1>6 DEF N!ToSet, NWords
  <2>3. lost' \subseteq late' /\ late' \subseteq 1..words'
    BY <1>t, <1>1, <2>1, <2>2 DEF NLate
  <2>4. /\ pipe' = <<>> /\ Len(pipe') = 0 /\ got' = got /\ words' = words
    BY <1>1, <1>6
  <2>5. NOrdered'
    BY <1>t, <2>4 DEF NOrdered, NIncreasing
  <2>6. NWords'
    <3>1. \A x : NSeen(x)' \/ x \in lost' <=> NSeen(x) \/ x \in lost
      BY <2>2, <2>4 DEF NSeen
    <3> QED
      BY <1>t, <1>5, <2>4, <3>1 DEF NWords
  <2>7. NLate'
    BY <2>3, <2>4 DEF NLate
  <2>8. N!TypeOK'
    BY <1>t, <1>2, <2>3, <2>4, NTypes DEF N!TypeOK
  <2> QED
    BY <2>5, <2>6, <2>7, <2>8 DEF NInv
<1>7. CASE N!Open(All) # {q}
  <2>1. N!Open(All)' # {}
    BY <1>3, <1>7
  <2>2. UNCHANGED <<words, got, late, lost, pipe>>
    BY <1>1, <1>7
  <2>3. NOrdered' /\ NWords'
    BY <1>t, <1>5, <2>2 DEF NOrdered, NIncreasing, NWords, NSeen
  <2>4. NLate'
    BY <1>t, <1>4, <2>1, <2>2 DEF NLate
  <2>5. N!TypeOK'
    BY <1>t, <1>2, <2>2 DEF N!TypeOK, NLate
  <2> QED
    BY <2>3, <2>4, <2>5 DEF NInv
<1> QED
  BY <1>6, <1>7

LEMMA NNext == NInv /\ [N!Next]_nvars => NInv'
<1> DEFINE Labels == {"away", "open", "read", "eof", "scanf", "write", "ended"}
           All == Readers \cup Writers
<1> SUFFICES ASSUME NInv, [N!Next]_nvars PROVE NInv'
  OBVIOUS
<1>t. /\ npc \in [All -> Labels] /\ words \in 0..MaxWords /\ Len(pipe) <= FifoSize
      /\ late \subseteq 1..words /\ lost \subseteq late /\ NOrdered /\ NWords /\ NLate
      /\ got \in Seq(Nat) /\ pipe \in Seq(Nat) /\ words \in Nat
  <2>1. /\ npc \in [All -> Labels] /\ words \in 0..MaxWords /\ Len(pipe) <= FifoSize
        /\ late \subseteq 1..words /\ NOrdered /\ NWords /\ NLate
    BY DEF NInv, N!TypeOK
  <2>2. lost \subseteq late /\ got \in Seq(Nat) /\ pipe \in Seq(Nat)
    BY <2>1 DEF NLate, NWords
  <2>3. words \in Nat
    BY <2>1, NTypes
  <2> QED
    BY <2>1, <2>2, <2>3
<1>1. CASE UNCHANGED nvars \/ N!Idle
  BY <1>1 DEF nvars, N!vars, N!Idle, NInv, N!TypeOK, NOrdered, NIncreasing, NWords, NSeen, NWriting,
              NLate, N!Reading, N!Open
(* Steps that change program counters only.                                *)
<1>2. ASSUME npc' \in [All -> Labels], UNCHANGED <<pipe, words, got, late, lost>>,
             words + Cardinality(NWriting)' <= MaxWords,
             N!Reading' = {} => N!Reading = {} \/ pipe = <<>>,
             N!Open(All)' = {} => N!Open(All) = {}
      PROVE  NInv'
  <2>1. NOrdered' /\ NWords'
    BY <1>t, <1>2 DEF NOrdered, NIncreasing, NWords, NSeen
  <2>2. NLate'
    <3>1. pipe = <<>> => \A h \in 1..Len(pipe) : pipe[h] \in late
      OBVIOUS
    <3> QED
      BY <1>t, <1>2, <3>1 DEF NLate
  <2>3. N!TypeOK'
    BY <1>t, <1>2 DEF N!TypeOK
  <2> QED
    BY <2>1, <2>2, <2>3 DEF NInv
<1>3. ASSUME NEW mine \in {Readers, Writers}, NEW q \in mine, N!OpenFails(q) PROVE NInv'
  <2>1. /\ npc[q] = "away" /\ npc' = [npc EXCEPT ![q] = "ended"]
        /\ UNCHANGED <<pipe, words, got, late, lost>>
    BY <1>3 DEF N!OpenFails, N!Step
  <2>2. NWriting' = NWriting /\ N!Reading' = N!Reading /\ N!Open(All)' = N!Open(All)
    BY <1>t, <1>3, <2>1 DEF NWriting, N!Reading, N!Open
  <2> QED
    BY <1>t, <1>2, <1>3, <2>1, <2>2 DEF NWords
<1>4. ASSUME NEW q \in All, N!OpenRead(q) \/ N!OpenWrite(q) PROVE NInv'
  <2>1. /\ npc[q] = "away" /\ npc' \in [All -> Labels] /\ npc'[q] \in {"open", "read", "scanf"}
        /\ q \in Writers => npc'[q] # "read"
        /\ \A x \in All : npc'[x] = npc[x] \/ (npc[x] \in {"away", "open"} /\ npc'[x] # "write")
        /\ UNCHANGED <<pipe, words, got, late, lost>>
    <3>1. CASE N!OpenRead(q)
      <4>1. /\ q \in Readers /\ npc[q] = "away" /\ UNCHANGED <<pipe, words, got, late, lost>>
            /\ npc' = [x \in All |->
                         IF x = q THEN IF N!Open(Writers) = {} THEN "open" ELSE "read"
                         ELSE IF x \in Writers /\ npc[x] = "open" THEN "scanf" ELSE npc[x]]
        BY <1>t, <3>1 DEF N!OpenRead, N!OpenOne
      <4>2. npc' \in [All -> Labels]
        BY <1>t, <4>1
      <4>3. npc'[q] \in {"open", "read", "scanf"} /\ (q \in Writers => npc'[q] # "read")
        BY <1>t, <1>4, <4>1, NTypes
      <4>4. \A x \in All : npc'[x] = npc[x] \/ (npc[x] \in {"away", "open"} /\ npc'[x] # "write")
        BY <1>t, <4>1
      <4> QED
        BY <4>1, <4>2, <4>3, <4>4
    <3>2. CASE N!OpenWrite(q)
      <4>1. /\ q \in Writers /\ npc[q] = "away" /\ UNCHANGED <<pipe, words, got, late, lost>>
            /\ npc' = [x \in All |->
                         IF x = q THEN IF N!Open(Readers) = {} THEN "open" ELSE "scanf"
                         ELSE IF x \in Readers /\ npc[x] = "open" THEN "read" ELSE npc[x]]
        BY <1>t, <3>2 DEF N!OpenWrite, N!OpenOne
      <4>2. npc' \in [All -> Labels]
        BY <1>t, <4>1
      <4>3. npc'[q] \in {"open", "read", "scanf"} /\ (q \in Writers => npc'[q] # "read")
        BY <1>t, <1>4, <4>1, NTypes
      <4>4. \A x \in All : npc'[x] = npc[x] \/ (npc[x] \in {"away", "open"} /\ npc'[x] # "write")
        BY <1>t, <4>1
      <4> QED
        BY <4>1, <4>2, <4>3, <4>4
    <3> QED
      BY <1>4, <3>1, <3>2
  <2>2. NWriting' = NWriting /\ N!Reading \subseteq N!Reading' /\ N!Open(All)' # {}
    BY <1>t, <1>4, <2>1 DEF NWriting, N!Reading, N!Open
  <2> QED
    BY <1>t, <1>2, <2>1, <2>2 DEF NWords
<1>5. ASSUME NEW r \in Readers, N!ReadEnd(r) PROVE NInv'
  <2>1. /\ npc[r] = "read" /\ npc' = [npc EXCEPT ![r] = "eof"] /\ pipe = <<>>
        /\ UNCHANGED <<pipe, words, got, late, lost>>
    BY <1>5 DEF N!ReadEnd, N!Step
  <2>2. NWriting' = NWriting /\ N!Open(All)' # {} /\ npc' \in [All -> Labels]
    BY <1>t, <1>5, <2>1 DEF NWriting, N!Open
  <2> QED
    BY <1>t, <1>2, <2>1, <2>2 DEF NWords
<1>6. ASSUME NEW w \in Writers, N!Scanf(w) PROVE NInv'
  <2>1. /\ npc[w] = "scanf" /\ npc' = [npc EXCEPT ![w] = "write"]
        /\ words + Cardinality(NWriting) < MaxWords
        /\ UNCHANGED <<pipe, words, got, late, lost>>
    BY <1>6, NCounts DEF N!Scanf, N!Step, NWriting
  <2>2. N!Reading' = N!Reading /\ N!Open(All)' # {} /\ npc' \in [All -> Labels]
    BY <1>t, <1>6, <2>1, NTypes DEF N!Reading, N!Open
  <2>3. NWriting' = NWriting \cup {w} /\ w \notin NWriting
    BY <1>t, <1>6, <2>1 DEF NWriting
  <2>4. Cardinality(NWriting') = Cardinality(NWriting) + 1
    BY <2>3, NFinite, FS_AddElement
  <2>5. words + Cardinality(NWriting') <= MaxWords
    BY <1>t, <2>1, <2>4, NFinite, NTypes
  <2> QED
    BY <1>2, <2>1, <2>2, <2>5
<1>7. ASSUME NEW r \in Readers, N!Read(r) PROVE NInv'
  <2>1. PICK k \in 1..Len(pipe) :
          got' = got \o SubSeq(pipe, 1, k) /\ pipe' = SubSeq(pipe, k + 1, Len(pipe))
    BY <1>7 DEF N!Read
  <2>2. UNCHANGED <<npc, words, late, lost>> /\ npc[r] = "read"
    BY <1>7 DEF N!Read
  <2>3. PICK a, b : a = Len(got) /\ b = Len(pipe)
    OBVIOUS
  <2>4. a \in Nat /\ b \in Nat /\ k \in 1..b
    BY <1>t, <2>3
  <2>5. /\ pipe' \in Seq(Nat) /\ Len(pipe') = b - k
        /\ \A h \in 1..b-k : pipe'[h] = pipe[k + h]
    <3>1. \A x \in k+1..b : pipe[x] \in Nat
      BY <1>t, <2>3, <2>4
    <3>2. /\ SubSeq(pipe, k+1, b) \in Seq(Nat)
          /\ Len(SubSeq(pipe, k+1, b)) = IF k+1 <= b THEN b - (k+1) + 1 ELSE 0
          /\ \A x \in 1..b-(k+1)+1 : SubSeq(pipe, k+1, b)[x] = pipe[(k+1)+x-1]
      BY <2>4, <3>1, SubSeqProperties
    <3>3. \A x \in 1..b-k : x \in 1..b-(k+1)+1 /\ (k+1)+x-1 = k + x
      BY <2>4
    <3> QED
      BY <2>1, <2>3, <2>4, <3>2, <3>3
  <2>6. /\ got' \in Seq(Nat) /\ Len(got') = a + k
        /\ \A g \in 1..a : got'[g] = got[g]
        /\ \A h \in 1..k : got'[a + h] = pipe[h]
    <3> DEFINE w == SubSeq(pipe, 1, k)
    <3>1. \A x \in 1..k : pipe[x] \in Nat
      BY <1>t, <2>3, <2>4
    <3>2. w \in Seq(Nat) /\ Len(w) = k /\ \A x \in 1..k : w[x] = pipe[x]
      <4>1. /\ w \in Seq(Nat) /\ Len(w) = IF 1 <= k THEN k - 1 + 1 ELSE 0
            /\ \A x \in 1..k-1+1 : w[x] = pipe[1+x-1]
        BY <2>4, <3>1, SubSeqProperties
      <4>2. \A x \in 1..k : x \in 1..k-1+1 /\ 1+x-1 = x
        BY <2>4
      <4> QED
        BY <2>4, <4>1, <4>2
    <3> HIDE DEF w
    <3>3. /\ got \o w \in Seq(Nat) /\ Len(got \o w) = Len(got) + Len(w)
          /\ \A x \in 1..Len(got) + Len(w) :
               (got \o w)[x] = IF x <= Len(got) THEN got[x] ELSE w[x - Len(got)]
      BY <1>t, <3>2, ConcatProperties
    <3>4. got' = got \o w
      BY <2>1 DEF w
    <3>5. \A g \in 1..a : g \in 1..a + k /\ g <= a
      BY <2>4
    <3>6. \A h \in 1..k : a + h \in 1..a + k /\ ~(a + h <= a) /\ (a + h) - a = h
      BY <2>4
    <3> QED
      BY <2>3, <3>2, <3>3, <3>4, <3>5, <3>6
  <2>7. /\ \A x \in 1..a+k : x \in 1..a \/ (x > a /\ x - a \in 1..k /\ x = a + (x - a))
        /\ \A x \in 1..b : x \in 1..k \/ (x - k \in 1..b-k /\ x = k + (x - k))
        /\ \A h \in 1..b-k : k + h \in 1..b
        /\ \A g \in 1..a : g \in 1..a+k
        /\ \A h \in 1..k : h \in 1..b /\ a + h \in 1..a+k
    <3>1. \A x \in 1..a+k : x \in 1..a \/ (x > a /\ x - a \in 1..k /\ x = a + (x - a))
      <4>1. ASSUME NEW x \in 1..a+k PROVE (x <= a => x \in 1..a) /\ (x <= a \/ x > a)
        BY <2>4
      <4>2. ASSUME NEW x \in 1..a+k, x > a PROVE x - a \in 1..k /\ x = a + (x - a)
        BY <2>4, <4>2
      <4> QED
        BY <4>1, <4>2
    <3>2. \A x \in 1..b : x \in 1..k \/ (x - k \in 1..b-k /\ x = k + (x - k))
      BY <2>4
    <3>3. /\ \A h \in 1..b-k : k + h \in 1..b
          /\ \A g \in 1..a : g \in 1..a+k
          /\ \A h \in 1..k : h \in 1..b /\ a + h \in 1..a+k
      BY <2>4
    <3> QED
      BY <3>1, <3>2, <3>3
  <2>8. /\ \A g, h \in 1..a : g < h => got[g] < got[h]
        /\ \A g, h \in 1..b : g < h => pipe[g] < pipe[h]
        /\ \A g \in 1..a, h \in 1..b : got[g] < pipe[h]
    BY <1>t, <2>3 DEF NOrdered, NIncreasing
  <2>9. NOrdered'
    <3>1. ASSUME NEW g \in 1..b-k, NEW h \in 1..b-k, g < h PROVE pipe'[g] < pipe'[h]
      <4>1. k + g < k + h
        BY <2>4, <3>1
      <4> QED
        BY <2>5, <2>7, <2>8, <4>1
    <3>2. ASSUME NEW g \in 1..a+k, NEW h \in 1..b-k PROVE got'[g] < pipe'[h]
      <4>1. CASE g \in 1..a
        BY <2>5, <2>6, <2>7, <2>8, <4>1
      <4>2. CASE g - a \in 1..k /\ g = a + (g - a)
        <5>1. g - a < k + h
          BY <2>4, <4>2
        <5>2. got'[g] = pipe[g - a]
          BY <2>6, <4>2
        <5> QED
          BY <2>5, <2>7, <2>8, <4>2, <5>1, <5>2
      <4> QED
        BY <2>7, <4>1, <4>2
    <3>3. ASSUME NEW g \in 1..a+k, NEW h \in 1..a+k, g < h PROVE got'[g] < got'[h]
      <4>1. CASE g \in 1..a /\ h \in 1..a
        BY <2>6, <2>8, <3>3, <4>1
      <4>2. CASE g \in 1..a /\ h - a \in 1..k /\ h = a + (h - a)
        <5>1. got'[h] = pipe[h - a]
          BY <2>6, <4>2
        <5> QED
          BY <2>6, <2>7, <2>8, <4>2, <5>1
      <4>3. CASE g - a \in 1..k /\ g = a + (g - a) /\ h - a \in 1..k /\ h = a + (h - a)
        <5>1. got'[g] = pipe[g - a] /\ got'[h] = pipe[h - a]
          BY <2>6, <4>3
        <5>2. g - a < h - a
          BY <2>4, <3>3
        <5> QED
          BY <2>7, <2>8, <4>3, <5>1, <5>2
      <4>4. g > a => h \notin 1..a
        BY <2>4, <3>3
      <4> QED
        BY <2>7, <4>1, <4>2, <4>3, <4>4
    <3> QED
      BY <2>5, <2>6, <3>1, <3>2, <3>3 DEF NOrdered, NIncreasing
  <2>10. \A x : NSeen(x)' <=> NSeen(x)
    <3>1. \A x : NSeen(x)' <=> \/ \E g \in 1..a+k : got'[g] = x
                               \/ \E h \in 1..b-k : pipe'[h] = x
      BY <2>5, <2>6 DEF NSeen
    <3>2. \A x : NSeen(x) <=> \/ \E g \in 1..a : got[g] = x
                              \/ \E h \in 1..b : pipe[h] = x
      BY <2>3 DEF NSeen
    <3>3. \A g \in 1..a+k : \/ g \in 1..a /\ got'[g] = got[g]
                            \/ g - a \in 1..b /\ got'[g] = pipe[g - a]
      BY <2>6, <2>7
    <3>4. \A h \in 1..b : \/ h \in 1..k /\ a + h \in 1..a+k /\ got'[a + h] = pipe[h]
                          \/ h - k \in 1..b-k /\ pipe'[h - k] = pipe[h]
      BY <2>5, <2>6, <2>7
    <3>5. /\ \A g \in 1..a : g \in 1..a+k /\ got'[g] = got[g]
          /\ \A h \in 1..b-k : k + h \in 1..b /\ pipe'[h] = pipe[k + h]
      BY <2>5, <2>6, <2>7
    <3> QED
      BY <3>1, <3>2, <3>3, <3>4, <3>5
  <2>11. NWords'
    <3>1. NWriting' = NWriting
      BY <2>2 DEF NWriting
    <3> QED
      BY <1>t, <2>2, <2>5, <2>6, <2>10, <3>1 DEF NWords
  <2>12. NLate'
    <3>1. r \in N!Reading' /\ r \in N!Open(All)'
      BY <2>2, <1>7 DEF N!Reading, N!Open
    <3> QED
      BY <1>t, <2>2, <3>1 DEF NLate
  <2>13. N!TypeOK'
    <3>1. Len(pipe') <= FifoSize
      <4>1. b <= FifoSize /\ Len(pipe') = b - k
        BY <1>t, <2>3, <2>5
      <4> QED
        BY <2>4, <4>1, NTypes
    <3>2. /\ npc' \in [All -> Labels] /\ words' \in 0..MaxWords
          /\ late' \subseteq 1..words' /\ lost' \subseteq 1..words'
      <4>1. npc' = npc /\ words' = words /\ late' = late /\ lost' = lost
        BY <2>2
      <4> QED
        BY <1>t, <4>1
    <3> QED
      BY <3>1, <3>2 DEF N!TypeOK
  <2> QED
    BY <2>9, <2>11, <2>12, <2>13 DEF NInv
<1>8. ASSUME NEW w \in Writers, N!Write(w) PROVE NInv'
  <2>1. /\ npc[w] = "write" /\ npc' = [npc EXCEPT ![w] = "scanf"]
        /\ Len(pipe) < FifoSize /\ words' = words + 1 /\ pipe' = Append(pipe, words')
        /\ late' = IF N!Reading = {} THEN late \cup {words'} ELSE late
        /\ UNCHANGED <<got, lost>>
    BY <1>8 DEF N!Write, N!Step
  <2>2. PICK a, b, e : a = Len(got) /\ b = Len(pipe) /\ e = words + 1
    OBVIOUS
  <2>3. a \in Nat /\ b \in Nat /\ e \in Nat
    BY <1>t, <2>2
  <2>4. /\ pipe' \in Seq(Nat) /\ Len(pipe') = b + 1 /\ pipe'[b + 1] = e
        /\ \A h \in 1..b : pipe'[h] = pipe[h]
    BY <1>t, <2>1, <2>2, <2>3, AppendProperties
  <2>5. /\ \A g \in 1..a : got[g] < e
        /\ \A h \in 1..b : pipe[h] < e
    <3>1. /\ \A g \in 1..a : got[g] \in Nat /\ NSeen(got[g])
          /\ \A h \in 1..b : pipe[h] \in Nat /\ NSeen(pipe[h])
      BY <1>t, <2>2 DEF NSeen
    <3>2. \A x \in 1..words : x < e
      BY <1>t, <2>2
    <3> QED
      BY <1>t, <3>1, <3>2 DEF NWords
  <2>6. \A h \in 1..b+1 : h \in 1..b \/ h = b + 1
    BY <2>3
  <2>7. NOrdered'
    <3>1. /\ \A g, h \in 1..a : g < h => got[g] < got[h]
          /\ \A g, h \in 1..b : g < h => pipe[g] < pipe[h]
          /\ \A g \in 1..a, h \in 1..b : got[g] < pipe[h]
      BY <1>t, <2>2 DEF NOrdered, NIncreasing
    <3>2. \A g, h \in 1..b+1 : g < h => g \in 1..b
      BY <2>3
    <3>3. \A g, h \in 1..b+1 : g < h => pipe'[g] < pipe'[h]
      BY <2>4, <2>5, <2>6, <3>1, <3>2
    <3>4. \A g \in 1..a, h \in 1..b+1 : got[g] < pipe'[h]
      BY <2>4, <2>5, <2>6, <3>1
    <3> QED
      BY <2>1, <2>2, <2>4, <3>1, <3>3, <3>4 DEF NOrdered, NIncreasing
  <2>8. \A x : NSeen(x)' <=> NSeen(x) \/ x = e
    <3>1. \A x : NSeen(x)' <=> \/ \E g \in 1..a : got[g] = x
                               \/ \E h \in 1..b+1 : pipe'[h] = x
      BY <2>1, <2>2, <2>4 DEF NSeen
    <3>2. \A x : NSeen(x) <=> \/ \E g \in 1..a : got[g] = x
                              \/ \E h \in 1..b : pipe[h] = x
      BY <2>2 DEF NSeen
    <3>3. b + 1 \in 1..b+1 /\ \A h \in 1..b : h \in 1..b+1
      BY <2>3
    <3> QED
      BY <2>4, <2>6, <3>1, <3>2, <3>3
  <2>9. words' + Cardinality(NWriting)' <= MaxWords
    <3>1. NWriting' = NWriting \ {w} /\ w \in NWriting
      BY <1>t, <1>8, <2>1 DEF NWriting
    <3>2. Cardinality(NWriting') = Cardinality(NWriting) - 1
      BY <3>1, NFinite, FS_RemoveElement
    <3> QED
      BY <1>t, <2>1, <3>2, NFinite, NTypes DEF NWords
  <2>10. NWords'
    <3>1. \A x \in Nat : x \in 1..words' <=> x \in 1..words \/ x = e
      BY <1>t, <2>1, <2>2
    <3>2. \A x \in Nat : x \in 1..words <=> NSeen(x) \/ x \in lost
      BY <1>t DEF NWords
    <3> QED
      BY <1>t, <2>1, <2>4, <2>8, <2>9, <3>1, <3>2 DEF NWords
  <2>11. N!Reading' = N!Reading /\ w \in N!Open(All)'
    BY <1>t, <1>8, <2>1, NTypes DEF N!Reading, N!Open
  <2>12. NLate'
    <3>1. N!Reading = {} => \A h \in 1..b+1 : pipe'[h] \in late'
      BY <1>t, <2>1, <2>2, <2>4, <2>6 DEF NLate
    <3> QED
      BY <1>t, <2>1, <2>4, <2>11, <3>1 DEF NLate
  <2>13. N!TypeOK'
    <3>1. npc' \in [All -> Labels]
      BY <1>t, <2>1
    <3>2. words' \in 0..MaxWords
      <4>1. NWriting' \subseteq Writers
        BY DEF NWriting
      <4>2. Cardinality(NWriting') \in Nat
        BY <4>1, NTypes, FS_Subset, FS_CardinalityType
      <4> QED
        BY <1>t, <2>1, <2>9, <4>2, NTypes
    <3>3. late' \subseteq 1..words' /\ lost' \subseteq 1..words'
      BY <1>t, <2>1
    <3>4. Len(pipe') <= FifoSize
      BY <2>1, <2>2, <2>3, <2>4, NTypes
    <3> QED
      BY <3>1, <3>2, <3>3, <3>4 DEF N!TypeOK
  <2> QED
    BY <2>7, <2>10, <2>12, <2>13 DEF NInv
<1>9. ASSUME NEW r \in Readers, N!ReaderEnds(r) PROVE NInv'
  BY <1>t, <1>9, NLeave DEF N!ReaderEnds, N!Open, N!Reading
<1>10. ASSUME NEW w \in Writers, N!SigPipe(w) \/ N!Stopped(w) PROVE NInv'
  BY <1>t, <1>10, NTypes, NLeave DEF N!SigPipe, N!Stopped, N!Open, N!Reading
<1> QED
  BY <1>1, <1>3, <1>4, <1>5, <1>6, <1>7, <1>8, <1>9, <1>10 DEF N!Next, N!Reader, N!Writer

-----------------------------------------------------------------------------
(* Reentrant: bite/signal/main.c                                           *)

(* Until main has stored it, a or b counts the handler's runs; a store     *)
(* loses those since the load, in which the other one is counted.          *)
ROneLostEach ==
  CASE spc \in {"signal", "loada"} -> sa = handled /\ sb = handled /\ sum = 0
    [] spc = "storea" -> sa = handled /\ sb = handled /\ sum = 0 /\ loaded <= handled
    [] spc \in {"sleep", "loadb"} -> sa >= 1 /\ sb = handled /\ sum = 0
    [] spc = "storeb" -> sb = handled /\ loaded <= handled /\ sa >= 1 + handled - loaded /\ sum = 0
    [] spc = "suma" -> sa + sb >= 2 + handled /\ sum = 0
    [] spc = "sumb" -> sum + sb >= 2 + handled /\ sum <= MaxSignals + 1
    [] spc = "ended" -> sum >= 2 + handled /\ sum <= 2 * (MaxSignals + 1)
    [] OTHER -> sum = 0

RInv == /\ spc \in {"signal", "loada", "storea", "sleep", "loadb", "storeb", "suma", "sumb",
                    "killed", "ended"}
        /\ sa \in Nat /\ sb \in Nat /\ loaded \in 0..MaxSignals
        /\ sum \in Nat /\ handled \in 0..MaxSignals
        /\ sa <= handled + 1 /\ sb <= handled + 1
        /\ ROneLostEach

LEMMA RInit == R!Init => RInv
  BY ProcessProgramsAssumption DEF R!Init, RInv, ROneLostEach

LEMMA RNext == RInv /\ [R!Next]_rvars => RInv'
<1> SUFFICES ASSUME RInv, [R!Next]_rvars PROVE RInv'
  OBVIOUS
<1>0. MaxSignals \in Nat
  BY ProcessProgramsAssumption
<1> USE DEF RInv, ROneLostEach, R!Step
<1>1. CASE UNCHANGED rvars \/ R!Over
  BY <1>1 DEF rvars, R!Over, R!vars
<1>2. CASE R!Signal \/ R!Interrupt
  BY <1>2 DEF R!Signal, R!Interrupt
<1>3. CASE R!LoadA
  BY <1>0, <1>3 DEF R!LoadA
<1>4. CASE R!StoreA
  BY <1>0, <1>4 DEF R!StoreA
<1>5. CASE R!Sleep
  BY <1>5 DEF R!Sleep
<1>6. CASE R!LoadB
  BY <1>0, <1>6 DEF R!LoadB
<1>7. CASE R!StoreB
  BY <1>0, <1>7 DEF R!StoreB
<1>8. CASE R!SumA
  BY <1>0, <1>8 DEF R!SumA
<1>9. CASE R!SumB
  BY <1>0, <1>9 DEF R!SumB
<1>10. CASE R!sigcb
  BY <1>0, <1>10 DEF R!sigcb
<1> QED
  BY <1>1, <1>2, <1>3, <1>4, <1>5, <1>6, <1>7, <1>8, <1>9, <1>10 DEF R!Next

LEMMA RTypeOK == RInv => R!TypeOK /\ R!OneLostEach
<1> SUFFICES ASSUME RInv PROVE R!TypeOK /\ R!OneLostEach
  OBVIOUS
<1>0. MaxSignals \in Nat
  BY ProcessProgramsAssumption
<1>1. sum <= 2 * (MaxSignals + 1)
  BY <1>0 DEF RInv, ROneLostEach
<1> QED
  BY <1>0, <1>1 DEF RInv, ROneLostEach, R!TypeOK, R!OneLostEach

-----------------------------------------------------------------------------
(* Shells: shell.c, Myshell.c, mini_shell.c                                *)

(* No line reaches the last cells of the buffer, so the parser stays in    *)
(* the buffer although it steps over the NUL that ends the line.           *)
SShell == IF program \in ShellPrograms THEN program ELSE "shell.c"
SEnd == IF SShell = "mini_shell.c" THEN MaxLine ELSE MaxLine + 2
SInv == /\ S!TypeOK
        /\ argv \in Seq(1..S!Size)
        /\ \A k \in 1..S!Size : k > SEnd => buf[k] = S!NUL

LEMMA SMin == ASSUME NEW T \in SUBSET Nat, T # {} PROVE S!Min(T) \in T /\ \A k \in T : S!Min(T) <= k
<1>1. PICK m \in T : \A k \in T : m <= k
  BY Least
<1> QED
  BY <1>1 DEF S!Min

LEMMA SSize == /\ S!Size = MaxLine + 4 /\ MaxLine \in Nat /\ S!Size \in Nat /\ MaxLine \in 0..MaxLine
               /\ 0 \in 0..MaxLine /\ 0 \in 0..S!Size /\ 1 \in 1..S!Size
               /\ SEnd \in {MaxLine, MaxLine + 2}
  BY ProcessProgramsAssumption DEF S!Size, SEnd

(* The next blank or word begins before the next NUL.                      *)
LEMMA SSkip ==
  ASSUME NEW b, NEW k \in 1..S!Size, NEW e \in k..S!Size, b[e] = S!NUL
  PROVE  S!SkipBlanks(b, k) \in k..e /\ S!SkipWord(b, k) \in k..e
<1> USE SSize
<1>1. S!NUL # S!Blank /\ S!NUL \in {S!Blank, S!NUL}
  BY DEF S!NUL, S!Blank
<1>0. \A n \in k..S!Size : n \in Nat
  OBVIOUS
<1>2. {n \in k..S!Size : b[n] # S!Blank} \in SUBSET Nat /\ e \in {n \in k..S!Size : b[n] # S!Blank}
  BY <1>0, <1>1, Zenon
<1>3. /\ {n \in k..S!Size : b[n] \in {S!Blank, S!NUL}} \in SUBSET Nat
      /\ e \in {n \in k..S!Size : b[n] \in {S!Blank, S!NUL}}
  BY <1>0, <1>1, Zenon
<1>4. S!SkipBlanks(b, k) \in k..S!Size /\ S!SkipBlanks(b, k) <= e
  BY <1>2, SMin DEF S!SkipBlanks
<1>5. S!SkipWord(b, k) \in k..S!Size /\ S!SkipWord(b, k) <= e
  BY <1>3, SMin DEF S!SkipWord
<1> QED
  BY <1>4, <1>5

LEMMA SArgument ==
  ASSUME NEW b \in [1..S!Size -> S!Chars \cup {S!NUL}], NEW k \in 1..S!Size-1,
         b[S!Size - 1] = S!NUL, S!Argument(b, k), argv \in Seq(1..S!Size)
  PROVE  /\ ptr' \in 1..S!Size
         /\ buf' \in [1..S!Size -> S!Chars \cup {S!NUL}]
         /\ \A n \in 1..S!Size : b[n] = S!NUL => buf'[n] = S!NUL
         /\ argv' \in Seq(1..S!Size)
<1> USE SSize
<1>1. CASE b[k] = S!Blank
  <2>1. ptr' = k + 1 /\ buf' = b /\ argv' = argv
    BY <1>1 DEF S!Argument
  <2>2. k + 1 \in 1..S!Size
    OBVIOUS
  <2> QED
    BY <2>1, <2>2
<1>2. CASE b[k] # S!Blank
  <2>1. k \in 1..S!Size /\ S!Size - 1 \in k..S!Size
    OBVIOUS
  <2>2. PICK c : c = S!SkipWord(b, k)
    OBVIOUS
  <2>3. c \in k..S!Size-1
    BY <2>1, <2>2, SSkip
  <2>4. ptr' = c + 1 /\ buf' = [b EXCEPT ![c] = S!NUL] /\ argv' = Append(argv, k)
    BY <1>2, <2>2 DEF S!Argument
  <2>5. c \in 1..S!Size /\ c + 1 \in 1..S!Size
    BY <2>3
  <2> QED
    BY <2>1, <2>4, <2>5
<1> QED
  BY <1>1, <1>2

LEMMA SNowhere == S!Nowhere \in [{"in", "out"} -> 0..S!Size]
  BY SSize DEF S!Nowhere

LEMMA SLines == <<>> \in S!Lines
<1>1. <<>> \in [1..0 -> S!Chars]
  OBVIOUS
<1> QED
  BY <1>1, SSize DEF S!Lines, S!BoundedSeq, S!SeqOf

LEMMA SInit == S!Init => SInv
<1> SUFFICES ASSUME S!Init PROVE SInv
  OBVIOUS
<1> USE SSize
<1>1. PICK c \in IF SShell = "Myshell.c" THEN S!Chars \cup {S!NUL} ELSE {S!NUL} :
        buf = [k \in 1..S!Size |-> IF k > MaxLine + 2 THEN S!NUL ELSE c]
  BY DEF S!Init, S!Found, SShell
<1>2. c \in S!Chars \cup {S!NUL} /\ (SShell = "mini_shell.c" => c = S!NUL)
  BY <1>1
<1>3. \A k \in 1..S!Size : k > SEnd => buf[k] = S!NUL
  <2>1. CASE SShell = "mini_shell.c"
    BY <1>1, <1>2, <2>1
  <2>2. CASE SShell # "mini_shell.c"
    <3>1. SEnd = MaxLine + 2
      BY <2>2 DEF SEnd
    <3> QED
      BY <1>1, <3>1
  <2> QED
    BY <2>1, <2>2
<1>4. buf \in [1..S!Size -> S!Chars \cup {S!NUL}]
  BY <1>1, <1>2
<1>5. argv = <<>> /\ argv \in Seq(1..S!Size) /\ Len(argv) = 0
  BY DEF S!Init
<1>6. S!TypeOK
  BY <1>4, <1>5, SNowhere, SLines DEF S!Init, S!TypeOK
<1> QED
  BY <1>3, <1>5, <1>6 DEF SInv

LEMMA SNext == SInv /\ [S!Next]_svars /\ program' = program => SInv'
<1> SUFFICES ASSUME SInv, [S!Next]_svars, program' = program PROVE SInv'
  OBVIOUS
<1> USE SSize
<1>k. /\ SShell' = SShell /\ SEnd' = SEnd /\ S!Chars' = S!Chars /\ S!Size' = S!Size
      /\ S!NUL' = S!NUL /\ S!Blank' = S!Blank /\ S!Lines' = S!Lines /\ S!Nowhere' = S!Nowhere
  BY DEF SShell, SEnd, S!Chars, S!Size, S!NUL, S!Blank, S!Lines, S!BoundedSeq, S!SeqOf, S!Nowhere
<1>t. /\ SShell \in S!Shells
      /\ cpc \in {"read", "parse", "fork", "open", "exec"}
      /\ line \in S!Lines
      /\ buf \in [1..S!Size -> S!Chars \cup {S!NUL}]
      /\ ptr \in 1..S!Size
      /\ argv \in Seq(1..S!Size)
      /\ flag \in {0, 1, 2, 4, 5, 6}
      /\ name \in [{"in", "out"} -> 0..S!Size] /\ io \in [{"in", "out"} -> 0..S!Size]
  BY DEF SInv, S!TypeOK, SShell
<1>e. \A k \in 1..S!Size : k > SEnd => buf[k] = S!NUL
  BY DEF SInv
<1>u. ASSUME /\ cpc' \in {"read", "parse", "fork", "open", "exec"}
             /\ line' \in S!Lines
             /\ buf' \in [1..S!Size -> S!Chars \cup {S!NUL}]
             /\ ptr' \in 1..S!Size
             /\ argv' \in Seq(1..S!Size)
             /\ flag' \in {0, 1, 2, 4, 5, 6}
             /\ name' \in [{"in", "out"} -> 0..S!Size] /\ io' \in [{"in", "out"} -> 0..S!Size]
             /\ \A k \in 1..S!Size : k > SEnd => buf'[k] = S!NUL
      PROVE  SInv'
  <2>1. SShell' \in S!Shells
    BY <1>t, <1>k
  <2>2. S!TypeOK'
    BY <1>u, <1>k, <2>1 DEF S!TypeOK, SShell, S!Shells
  <2> QED
    BY <1>u, <1>k, <2>2 DEF SInv
<1>0. CASE UNCHANGED svars
  BY <1>0, <1>t, <1>e, <1>u DEF svars
<1>1. CASE S!ReadLine
  <2>1. PICK txt \in S!Lines : S!Fgets(txt, 2)
    BY <1>1 DEF S!ReadLine
  <2>2. PICK m \in 0..MaxLine : txt \in [1..m -> S!Chars]
    BY DEF S!Lines, S!BoundedSeq, S!SeqOf
  <2>3. Len(txt) = m /\ m \in Nat /\ m <= MaxLine
    BY <2>2, FunctionIsSeq
  <2>4. /\ cpc' = "parse" /\ line' = txt
        /\ UNCHANGED <<ptr, argv, flag, name, io>>
        /\ buf' = [k \in 1..S!Size |-> IF k <= m THEN txt[k] ELSE IF k <= m + 2 THEN S!NUL ELSE buf[k]]
    BY <2>1, <2>3 DEF S!Fgets, S!parsed
  <2>5. \A k \in 1..S!Size : k <= m => k \in 1..m
    BY <2>3
  <2>6. buf' \in [1..S!Size -> S!Chars \cup {S!NUL}]
    BY <2>2, <2>4, <2>5, <1>t
  <2>7. ASSUME NEW k \in 1..S!Size, k > SEnd PROVE buf'[k] = S!NUL
    <3>1. ~ (k <= m) /\ buf[k] = S!NUL
      BY <2>3, <2>7, <1>e
    <3> QED
      BY <2>4, <3>1
  <2> QED
    BY <2>4, <2>6, <2>7, <1>t, <1>u
<1>c. S!NUL \notin {S!Blank, "w", "<", ">"} /\ S!Blank \notin {"<", ">"}
      /\ (\A k \in 1..S!Size : buf[k] # S!NUL => k <= SEnd)
      /\ SEnd \in Nat /\ SEnd <= S!Size - 2
  BY <1>e DEF S!NUL, S!Blank
<1>a. /\ S!Size - 1 \in 1..S!Size /\ S!Size - 1 > SEnd
      /\ \A k \in 1..S!Size : k <= SEnd => /\ k \in 1..S!Size-1 /\ k + 1 <= SEnd + 1
                                           /\ k + 1 \in 1..S!Size /\ k + 2 \in 1..S!Size
                                           /\ (k + 1 <= SEnd => k + 2 <= SEnd + 1)
  OBVIOUS
<1>p. ptr \in 1..S!Size
  BY <1>t
<1>2. CASE S!Word
  <2>1. /\ buf[ptr] # S!NUL /\ S!Argument(buf, ptr)
        /\ UNCHANGED <<cpc, line, flag, name, io>>
    BY <1>2 DEF S!Word
  <2>2. /\ ptr \in 1..S!Size-1 /\ S!Size - 1 \in 1..S!Size /\ S!Size - 1 > SEnd
    BY <2>1, <1>p, <1>c, <1>a
  <2>3. buf[S!Size - 1] = S!NUL
    BY <2>2, <1>e
  <2>4. /\ ptr' \in 1..S!Size
        /\ buf' \in [1..S!Size -> S!Chars \cup {S!NUL}]
        /\ \A n \in 1..S!Size : buf[n] = S!NUL => buf'[n] = S!NUL
        /\ argv' \in Seq(1..S!Size)
    BY <2>1, <2>2, <2>3, <1>t, SArgument
  <2> QED
    BY <2>1, <2>4, <1>t, <1>e, <1>u
<1>f. ASSUME NEW which \in {"in", "out"}, NEW k \in 1..S!Size, k <= SEnd + 1, SShell = "mini_shell.c",
             S!Filename(which, k), UNCHANGED <<cpc, line, io>>, flag' \in {0, 1, 2, 4, 5, 6}
      PROVE  SInv'
  <2>1. SEnd = MaxLine
    BY <1>f DEF SEnd
  <2>2. MaxLine + 1 \in k..S!Size /\ MaxLine + 1 \in 1..S!Size /\ MaxLine + 1 > SEnd
    BY <1>f, <2>1
  <2>3. buf[MaxLine + 1] = S!NUL
    BY <2>2, <1>e
  <2>b. PICK begin : begin = S!SkipBlanks(buf, k)
    OBVIOUS
  <2>4. begin \in k..MaxLine+1
    BY <2>2, <2>3, <2>b, SSkip
  <2>5. begin \in 1..S!Size /\ MaxLine + 1 \in begin..S!Size
    BY <2>4
  <2>c. PICK cut : cut = S!SkipWord(buf, begin)
    OBVIOUS
  <2>6. cut \in begin..MaxLine+1
    BY <2>3, <2>5, <2>c, SSkip
  <2>7. cut \in 1..S!Size /\ cut + 1 \in 1..S!Size-1 /\ S!Size - 1 \in 1..S!Size /\ S!Size - 1 > SEnd
        /\ begin \in 0..S!Size
    BY <2>1, <2>4, <2>6
  <2>d. PICK b : b = [buf EXCEPT ![cut] = S!NUL]
    OBVIOUS
  <2>8. name' = [name EXCEPT ![which] = begin] /\ S!Argument(b, cut + 1)
    BY <1>f, <2>b, <2>c, <2>d DEF S!Filename
  <2>9. /\ b \in [1..S!Size -> S!Chars \cup {S!NUL}]
        /\ \A n \in 1..S!Size : buf[n] = S!NUL => b[n] = S!NUL
    BY <2>7, <2>d, <1>t
  <2>10. b[S!Size - 1] = S!NUL
    BY <2>7, <2>9, <1>e
  <2>11. /\ ptr' \in 1..S!Size
         /\ buf' \in [1..S!Size -> S!Chars \cup {S!NUL}]
         /\ \A n \in 1..S!Size : b[n] = S!NUL => buf'[n] = S!NUL
         /\ argv' \in Seq(1..S!Size)
    BY <2>7, <2>8, <2>9, <2>10, <1>t, SArgument
  <2>12. name' \in [{"in", "out"} -> 0..S!Size]
    BY <2>7, <2>8, <1>t
  <2>13. \A n \in 1..S!Size : n > SEnd => buf'[n] = S!NUL
    BY <2>9, <2>11, <1>e
  <2> QED
    BY <1>f, <2>11, <2>12, <2>13, <1>t, <1>u
<1>m. buf[ptr] \in {"<", ">"} => SShell = "mini_shell.c" /\ ptr <= SEnd
  <2>1. S!Chars = IF SShell = "mini_shell.c" THEN {S!Blank, "w", "<", ">"} ELSE {S!Blank, "w"}
    BY DEF S!Chars, SShell
  <2>2. buf[ptr] \in {"<", ">"} => buf[ptr] # S!NUL
    BY <1>c
  <2> QED
    BY <2>1, <2>2, <1>t, <1>c
<1>3. CASE S!RedirectOut
  <2>1. /\ buf[ptr] = ">" /\ flag' = (IF buf[ptr + 1] = ">" THEN 2 ELSE 1)
        /\ S!Filename("out", ptr + flag') /\ UNCHANGED <<cpc, line, io>>
    BY <1>3 DEF S!RedirectOut
  <2>2. ptr <= SEnd /\ SShell = "mini_shell.c" /\ ptr + 1 \in 1..S!Size
    BY <2>1, <1>m, <1>p, <1>a
  <2>3. PICK k : k = ptr + flag'
    OBVIOUS
  <2>4. CASE buf[ptr + 1] = ">"
    <3>1. ptr + 1 <= SEnd
      BY <2>2, <2>4, <1>c
    <3>2. flag' = 2 /\ k = ptr + 2
      BY <2>1, <2>3, <2>4
    <3>3. k \in 1..S!Size /\ k <= SEnd + 1
      BY <3>1, <3>2, <2>2, <1>p, <1>a
    <3>4. S!Filename("out", k)
      BY <2>1, <2>3
    <3> QED
      BY <3>2, <3>3, <3>4, <2>1, <2>2, <1>f
  <2>5. CASE buf[ptr + 1] # ">"
    <3>1. flag' = 1 /\ k = ptr + 1
      BY <2>1, <2>3, <2>5
    <3>2. k \in 1..S!Size /\ k <= SEnd + 1
      BY <3>1, <2>2, <1>p, <1>a
    <3>3. S!Filename("out", k)
      BY <2>1, <2>3
    <3> QED
      BY <3>1, <3>2, <3>3, <2>1, <2>2, <1>f
  <2> QED
    BY <2>4, <2>5
<1>4. CASE S!RedirectIn
  <2>1. /\ buf[ptr] = "<" /\ flag' = (flag % 4) + 4
        /\ S!Filename("in", ptr + 1) /\ UNCHANGED <<cpc, line, io>>
    BY <1>4 DEF S!RedirectIn
  <2>2. ptr + 1 <= SEnd + 1 /\ SShell = "mini_shell.c" /\ ptr + 1 \in 1..S!Size
    BY <2>1, <1>m, <1>p, <1>a
  <2>3. flag' \in {0, 1, 2, 4, 5, 6}
    <3>1. 0 % 4 = 0 /\ 1 % 4 = 1 /\ 2 % 4 = 2 /\ 4 % 4 = 0 /\ 5 % 4 = 1 /\ 6 % 4 = 2
      OBVIOUS
    <3>2. flag % 4 \in {0, 1, 2}
      BY <3>1, <1>t, Zenon
    <3> QED
      BY <3>2, <2>1
  <2> QED
    BY <2>1, <2>2, <2>3, <1>f
<1>5. CASE S!EndOfLine \/ S!Fork
  <2>1. cpc' \in {"fork", "open"} /\ UNCHANGED <<line, buf, ptr, argv, flag, name, io>>
    BY <1>5 DEF S!EndOfLine, S!Fork, S!parsed
  <2> QED
    BY <2>1, <1>t, <1>e, <1>u
<1>6. CASE S!ForkFails \/ S!Wait
  <2>1. S!Prompt
    BY <1>6 DEF S!ForkFails, S!Wait
  <2>2. /\ cpc' = "read" /\ line' = <<>> /\ (buf' = buf \/ buf' = S!Clear)
        /\ ptr' = 1 /\ argv' = <<>> /\ flag' = 0 /\ name' = S!Nowhere /\ io' = S!Nowhere
    BY <2>1 DEF S!Prompt
  <2>3. /\ buf' \in [1..S!Size -> S!Chars \cup {S!NUL}]
        /\ \A k \in 1..S!Size : k > SEnd => buf'[k] = S!NUL
    BY <2>2, <1>t, <1>e DEF S!Clear
  <2> QED
    BY <2>2, <2>3, <1>u, SLines, SNowhere
<1>7. CASE S!OpenFiles
  <2>1. /\ cpc' = "exec" /\ UNCHANGED <<line, buf, ptr, argv, flag, name>>
        /\ io' = [out |-> IF flag % 4 # 0 THEN name.out ELSE 0,
                  in |-> IF flag >= 4 THEN name.in ELSE 0]
    BY <1>7 DEF S!OpenFiles, S!parsed
  <2>2. io' \in [{"in", "out"} -> 0..S!Size]
    BY <2>1, <1>t
  <2> QED
    BY <2>1, <2>2, <1>t, <1>e, <1>u
<1> QED
  BY <1>0, <1>1, <1>2, <1>3, <1>4, <1>5, <1>6, <1>7 DEF S!Next

(* A line with one redirection at most.  Where its arguments begin: at its *)
(* words, and at the empty text behind a redirection that ends it.         *)
SLen == Len(line)
SFit == S!WellFormed /\ \A j, k \in S!Marked : j = k
SWanted == (S!Starts \ S!Marked) \cup
           {S!WordEnd(r) + 2 : r \in {k \in S!Marked : S!WordEnd(k) + 2 > SLen}}

(* The parser has come to p, between two words of the line or behind it,   *)
(* and cut off what is before it in b, which keeps all but the blanks.     *)
SCut(b, p) ==
  /\ \A k \in 1..SLen : k >= p \/ line[k] # S!Blank => b[k] = line[k]
  /\ \A k \in SLen+1..SLen+2 : b[k] = S!NUL
  /\ p > SLen => b[p] = S!NUL
  /\ p <= SLen => p = 1 \/ line[p - 1] = S!Blank
  /\ \A k \in S!Starts : k < p => S!WordEnd(k) + 1 < p /\ b[S!WordEnd(k) + 1] = S!NUL

(* a holds what begins before p, in order.                                 *)
SListed(a, p) ==
  /\ \A n \in 1..Len(a) : a[n] \in SWanted /\ a[n] < p
  /\ \A x \in SWanted : x < p => \E n \in 1..Len(a) : a[n] = x
  /\ \A m, n \in 1..Len(a) : m < n => a[m] < a[n]

(* What these say of a line the program reads.                             *)
LEMMA SLine ==
  ASSUME line \in S!Lines
  PROVE  /\ SLen \in Nat /\ SLen <= MaxLine /\ line \in [1..SLen -> S!Chars]
         /\ S!Chars \subseteq {S!Blank, "w", "<", ">"} /\ S!NUL \notin S!Chars
         /\ SShell # "mini_shell.c" => S!Chars = {S!Blank, "w"}
         /\ S!Marked \subseteq S!Starts
         /\ \A k : k \in S!Starts <=> k \in 1..SLen /\ line[k] # S!Blank /\ (k = 1 \/ line[k - 1] = S!Blank)
<1>1. PICK m \in 0..MaxLine : line \in [1..m -> S!Chars]
  BY DEF S!Lines, S!BoundedSeq, S!SeqOf
<1>2. SLen = m /\ m \in Nat /\ m <= MaxLine
  BY <1>1, SSize, FunctionIsSeq DEF SLen
<1>3. S!Chars = IF SShell = "mini_shell.c" THEN {S!Blank, "w", "<", ">"} ELSE {S!Blank, "w"}
  BY DEF S!Chars, SShell
<1>4. /\ S!Chars \subseteq {S!Blank, "w", "<", ">"} /\ S!NUL \notin S!Chars
      /\ SShell # "mini_shell.c" => S!Chars = {S!Blank, "w"}
  BY <1>3 DEF S!NUL, S!Blank
<1>5. /\ S!Marked \subseteq S!Starts
      /\ \A k : k \in S!Starts <=> k \in 1..SLen /\ line[k] # S!Blank /\ (k = 1 \/ line[k - 1] = S!Blank)
  BY DEF SLen, S!Starts, S!Marked
<1> QED
  BY <1>1, <1>2, <1>4, <1>5

(* A word ends before a blank or with the line, and holds no blank.        *)
LEMMA SWord ==
  ASSUME line \in S!Lines, NEW k \in S!Starts
  PROVE  /\ k \in 1..SLen /\ S!WordEnd(k) \in k..SLen
         /\ S!WordEnd(k) < SLen => line[S!WordEnd(k) + 1] = S!Blank
         /\ \A n \in k..S!WordEnd(k) : line[n] # S!Blank
<1>1. k \in 1..SLen /\ line[k] # S!Blank /\ SLen \in Nat
  BY SLine
<1> DEFINE T == {n \in k..SLen : n = SLen \/ line[n + 1] = S!Blank}
<1>2. T \in SUBSET Nat /\ SLen \in T
  BY <1>1
<1>3. S!Min(T) \in T /\ \A n \in T : S!Min(T) <= n
  BY <1>2, SMin
<1>4. PICK e : e = S!WordEnd(k)
  OBVIOUS
<1>5. e \in T /\ \A n \in T : e <= n
  BY <1>3, <1>4 DEF S!WordEnd, SLen
<1>6. e \in k..SLen /\ (e < SLen => line[e + 1] = S!Blank)
  BY <1>1, <1>5
<1>7. ASSUME NEW n \in k..e, line[n] = S!Blank PROVE FALSE
  <2>1. n # k
    BY <1>1, <1>7
  <2>2. n - 1 \in k..SLen /\ (n - 1) + 1 = n /\ n - 1 < e
    BY <1>1, <1>6, <2>1
  <2>3. n - 1 \in T
    BY <1>7, <2>2
  <2>4. e <= n - 1
    BY <1>5, <2>3
  <2> QED
    BY <1>6, <2>2, <2>4
<1> QED
  BY <1>1, <1>4, <1>6, <1>7

(* ... and the next begins behind the blank.                               *)
LEMMA SApart ==
  ASSUME line \in S!Lines, NEW j \in S!Starts, NEW k \in S!Starts, j < k
  PROVE  S!WordEnd(j) + 1 < k
<1>1. PICK e : e = S!WordEnd(j)
  OBVIOUS
<1>2. /\ j \in 1..SLen /\ e \in j..SLen /\ (e < SLen => line[e + 1] = S!Blank)
      /\ \A n \in j..e : line[n] # S!Blank
  BY <1>1, SWord
<1>3. k \in 1..SLen /\ line[k] # S!Blank /\ (k = 1 \/ line[k - 1] = S!Blank) /\ SLen \in Nat
  BY SLine
<1>4. k # e + 1
  BY <1>2, <1>3
<1>5. ASSUME k <= e PROVE FALSE
  <2>1. k - 1 \in j..e /\ k # 1
    BY <1>2, <1>3, <1>5
  <2> QED
    BY <1>2, <1>3, <2>1
<1> QED
  BY <1>1, <1>2, <1>3, <1>4, <1>5

(* An argument is a word, or behind the line.                              *)
LEMMA SWantedBy ==
  ASSUME line \in S!Lines, NEW x \in SWanted
  PROVE  /\ x \in Nat \ {0}
         /\ \/ x \in S!Starts \ S!Marked
            \/ x > SLen /\ \E r \in S!Marked : x = S!WordEnd(r) + 2
<1>1. SLen \in Nat /\ S!Marked \subseteq S!Starts
  BY SLine
<1>2. CASE x \in S!Starts \ S!Marked
  BY <1>1, <1>2 DEF S!Starts
<1>3. CASE x \notin S!Starts \ S!Marked
  <2>1. PICK r \in S!Marked : x = S!WordEnd(r) + 2 /\ S!WordEnd(r) + 2 > SLen
    BY <1>3 DEF SWanted
  <2>2. r \in 1..SLen /\ S!WordEnd(r) \in r..SLen
    BY <1>1, SWord
  <2> QED
    BY <1>1, <2>1, <2>2
<1> QED
  BY <1>2, <1>3

(* From a word to what is behind the blank after it, nothing else is an    *)
(* argument; and no blank is.                                              *)
LEMMA SOnlyWord ==
  ASSUME line \in S!Lines, SFit, NEW k \in S!Starts, NEW x \in SWanted, k <= x, x < S!WordEnd(k) + 2
  PROVE  x = k /\ k \notin S!Marked
<1>0. SLen \in Nat /\ S!Marked \subseteq S!Starts
  BY SLine
<1>1. PICK e : e = S!WordEnd(k)
  OBVIOUS
<1>2. k \in 1..SLen /\ e \in k..SLen
  BY <1>1, SWord
<1>3. CASE x \in S!Starts \ S!Marked
  <2>1. x \in 1..SLen /\ x < e + 2
    BY <1>1, <1>3, SWord
  <2>2. ~ (k < x)
    BY <1>1, <1>2, <1>3, <2>1, SApart
  <2> QED
    BY <1>2, <1>3, <2>1, <2>2
<1>4. CASE x \notin S!Starts \ S!Marked
  <2>1. x > SLen /\ x \in Nat
    BY <1>4, SWantedBy
  <2>2. PICK r \in S!Marked : x = S!WordEnd(r) + 2
    BY <1>4, SWantedBy
  <2>3. PICK f : f = S!WordEnd(r)
    OBVIOUS
  <2>4. r \in S!Starts /\ r \in 1..SLen /\ f \in r..SLen /\ x = f + 2 /\ x < e + 2
    BY <1>0, <1>1, <2>2, <2>3, SWord
  <2>5. CASE r < k
    <3>1. f + 1 < k
      BY <2>3, <2>4, <2>5, SApart
    <3> QED
      BY <1>0, <1>2, <2>1, <2>4, <3>1
  <2>6. CASE k < r
    <3>1. e + 1 < r
      BY <1>1, <2>4, <2>6, SApart
    <3> QED
      BY <1>0, <1>2, <2>4, <3>1
  <2>7. CASE r = k
    BY <1>0, <1>1, <1>2, <2>3, <2>4, <2>7
  <2> QED
    BY <1>2, <2>4, <2>5, <2>6, <2>7
<1> QED
  BY <1>3, <1>4

LEMMA SNoBlank ==
  ASSUME line \in S!Lines, NEW k \in 1..SLen, line[k] = S!Blank
  PROVE  k \notin S!Starts /\ k \notin SWanted
<1>1. k \notin S!Starts
  BY DEF S!Starts
<1>2. ~ (k > SLen)
  BY SLine
<1> QED
  BY <1>1, <1>2, SWantedBy

(* The three searches of the parser, when it is known where they end.      *)
LEMMA SMinIs ==
  ASSUME NEW T \in SUBSET Nat, NEW c \in T, \A n \in T : c <= n
  PROVE  S!Min(T) = c
<1>1. PICK m : m = S!Min(T)
  OBVIOUS
<1>2. m \in T /\ m <= c
  BY <1>1, SMin
<1>3. c <= m /\ m \in Nat /\ c \in Nat
  BY <1>2
<1> QED
  BY <1>1, <1>2, <1>3

(* The file name of a redirection stands behind its one or two marks.      *)
LEMMA SMark ==
  ASSUME line \in S!Lines, S!WellFormed, NEW r \in S!Marked
  PROVE  /\ S!NameAt(r) \in r+1..S!WordEnd(r) /\ \A n \in S!NameAt(r)..S!WordEnd(r) : line[n] = "w"
         /\ \/ S!NameAt(r) = r + 1 /\ line[r] \in {"<", ">"}
            \/ S!NameAt(r) = r + 2 /\ line[r] = ">" /\ line[r + 1] = ">"
<1>1. PICK e : e = S!WordEnd(r)
  OBVIOUS
<1>2. PICK at : at = S!NameAt(r)
  OBVIOUS
<1>3. SLen \in Nat /\ r \in S!Starts /\ r \in 1..SLen /\ e \in r..SLen /\ line[r] # "w"
      /\ line \in [1..SLen -> S!Chars]
  BY <1>1, SLine, SWord DEF S!Marked
<1>4. /\ at <= e /\ \A n \in at..e : line[n] = "w"
      /\ SubSeq(line, r, at - 1) \in {<<>>, <<"<">>, <<">">>, <<">", ">">>}
  BY <1>1, <1>2, <1>3 DEF S!WellFormed
<1>5. at \in r..e+1
  <2> DEFINE T == {n \in r..e+1 : n = e + 1 \/ line[n] = "w"}
  <2>1. T \in SUBSET Nat /\ e + 1 \in T
    BY <1>3
  <2>2. S!Min(T) \in T
    BY <2>1, SMin
  <2>3. at = S!Min(T)
    BY <1>1, <1>2 DEF S!NameAt
  <2> QED
    BY <2>2, <2>3
<1>6. at \in r+1..e
  <2>1. at \in at..e
    BY <1>3, <1>4, <1>5
  <2>2. at # r
    BY <1>3, <1>4, <2>1
  <2> QED
    BY <1>3, <1>4, <1>5, <2>2
<1> DEFINE v == SubSeq(line, r, at - 1)
<1>7. Len(v) = at - r /\ \A n \in 1..at-r : v[n] = line[r + n - 1]
  <2>1. r \in Int /\ at - 1 \in Int /\ \A n \in r..at-1 : line[n] \in S!Chars
    BY <1>3, <1>6
  <2>2. /\ Len(v) = IF r <= at - 1 THEN (at - 1) - r + 1 ELSE 0
        /\ \A n \in 1..(at - 1)-r+1 : v[n] = line[r + n - 1]
    BY <2>1, SubSeqProperties
  <2> QED
    BY <1>3, <1>6, <2>2
<1> HIDE DEF v
<1>8. v \in {<<"<">>, <<">">>, <<">", ">">>}
  <2>1. v # <<>>
    BY <1>3, <1>6, <1>7
  <2> QED
    BY <1>4, <2>1 DEF v
<1>9. CASE v \in {<<"<">>, <<">">>}
  <2>1. Len(v) = 1 /\ v[1] \in {"<", ">"}
    BY <1>9
  <2>2. at - r = 1
    BY <1>7, <2>1
  <2>3. at = r + 1 /\ 1 \in 1..at-r /\ r + 1 - 1 = r
    BY <1>3, <1>6, <2>2
  <2> QED
    BY <1>1, <1>2, <1>4, <1>6, <1>7, <2>1, <2>3
<1>10. CASE v = <<">", ">">>
  <2>1. Len(v) = 2 /\ v[1] = ">" /\ v[2] = ">"
    BY <1>10
  <2>2. at - r = 2
    BY <1>7, <2>1
  <2>3. at = r + 2 /\ 1 \in 1..at-r /\ r + 1 - 1 = r /\ 2 \in 1..at-r /\ r + 2 - 1 = r + 1
    BY <1>3, <1>6, <2>2
  <2> QED
    BY <1>1, <1>2, <1>4, <1>6, <1>7, <2>1, <2>3
<1> QED
  BY <1>8, <1>9, <1>10

LEMMA SSkipWord ==
  ASSUME NEW b, NEW k \in 1..S!Size, NEW c \in k..S!Size, b[c] \in {S!Blank, S!NUL},
         \A n \in k..c : n # c => b[n] # S!Blank /\ b[n] # S!NUL
  PROVE  S!SkipWord(b, k) = c
<1> DEFINE T == {n \in k..S!Size : b[n] \in {S!Blank, S!NUL}}
<1>1. T \in SUBSET Nat /\ c \in T
  BY SSize
<1>2. ASSUME NEW n \in T PROVE c <= n
  <2>1. n \in k..S!Size /\ (b[n] = S!Blank \/ b[n] = S!NUL)
    OBVIOUS
  <2>2. ~ (n < c)
    BY <2>1, SSize
  <2> QED
    BY <2>1, <2>2, SSize
<1>3. S!Min(T) = c
  BY <1>1, <1>2, SMinIs
<1> QED
  BY <1>3 DEF S!SkipWord

LEMMA SSkipBlanks ==
  ASSUME NEW b, NEW k \in 1..S!Size, b[k] # S!Blank
  PROVE  S!SkipBlanks(b, k) = k
<1> DEFINE T == {n \in k..S!Size : b[n] # S!Blank}
<1>1. T \in SUBSET Nat /\ k \in T /\ \A n \in T : k <= n
  BY SSize
<1>2. S!Min(T) = k
  BY <1>1, SMinIs
<1> QED
  BY <1>2 DEF S!SkipBlanks

(* The parser has cut off the word at k.                                   *)
LEMMA SCutOff ==
  ASSUME line \in S!Lines, NEW k \in S!Starts, NEW b \in [1..S!Size -> S!Chars \cup {S!NUL}], SCut(b, k),
         NEW p \in k..S!WordEnd(k)
  PROVE  /\ S!SkipWord(b, p) = S!WordEnd(k) + 1
         /\ SCut([b EXCEPT ![S!WordEnd(k) + 1] = S!NUL], S!WordEnd(k) + 2)
<1>1. PICK e : e = S!WordEnd(k)
  OBVIOUS
<1>2. SLen \in Nat /\ k \in 1..SLen /\ e \in k..SLen /\ (e < SLen => line[e + 1] = S!Blank)
      /\ (\A n \in k..e : line[n] # S!Blank) /\ S!Size \in Nat /\ SLen + 4 <= S!Size
      /\ p \in k..e
  BY <1>1, SLine, SWord, SSize
<1>3. /\ \A n \in 1..SLen : n >= k \/ line[n] # S!Blank => b[n] = line[n]
      /\ \A n \in SLen+1..SLen+2 : b[n] = S!NUL
      /\ \A j \in S!Starts : j < k => S!WordEnd(j) + 1 < k /\ b[S!WordEnd(j) + 1] = S!NUL
  BY DEF SCut
<1>4. S!SkipWord(b, p) = e + 1
  <2>1. b[e + 1] \in {S!Blank, S!NUL}
    <3>1. CASE e < SLen
      <4>1. e + 1 \in 1..SLen /\ e + 1 >= k
        BY <1>2, <3>1
      <4> QED
        BY <1>2, <1>3, <3>1, <4>1
    <3>2. CASE e = SLen
      <4>1. e + 1 \in SLen+1..SLen+2
        BY <1>2, <3>2
      <4> QED
        BY <1>3, <4>1
    <3> QED
      BY <1>2, <3>1, <3>2
  <2>2. ASSUME NEW n \in p..e+1, n # e + 1 PROVE b[n] # S!Blank /\ b[n] # S!NUL
    <3>1. n \in k..e /\ n \in 1..SLen /\ n >= k
      BY <1>2, <2>2
    <3>2. b[n] = line[n] /\ line[n] # S!Blank /\ line[n] \in S!Chars
      BY <1>2, <1>3, <3>1, SLine
    <3> QED
      BY <3>2, SLine
  <2>3. p \in 1..S!Size /\ e + 1 \in p..S!Size
    BY <1>2
  <2> QED
    BY <2>1, <2>2, <2>3, SSkipWord
<1>5. PICK c \in [1..S!Size -> S!Chars \cup {S!NUL}] : c = [b EXCEPT ![e + 1] = S!NUL]
  OBVIOUS
<1>6. /\ \A n \in 1..S!Size : n # e + 1 => c[n] = b[n]
      /\ \A n \in 1..S!Size : b[n] = S!NUL => c[n] = S!NUL
      /\ c[e + 1] = S!NUL
  <2>1. e + 1 \in 1..S!Size
    BY <1>2
  <2> QED
    BY <1>5, <2>1
<1>7. SCut(c, e + 2)
  <2>1. ASSUME NEW n \in 1..SLen, n >= e + 2 \/ line[n] # S!Blank PROVE c[n] = line[n]
    <3>1. n # e + 1 /\ n \in 1..S!Size
      BY <1>2, <2>1
    <3>2. n >= k \/ line[n] # S!Blank
      BY <1>2, <2>1
    <3> QED
      BY <1>3, <1>6, <3>1, <3>2
  <2>2. \A n \in SLen+1..SLen+2 : c[n] = S!NUL
    <3>1. \A n \in SLen+1..SLen+2 : n \in 1..S!Size
      BY <1>2
    <3> QED
      BY <1>3, <1>6, <3>1
  <2>3. e + 2 > SLen => c[e + 2] = S!NUL
    <3>1. e + 2 > SLen => e + 2 \in SLen+1..SLen+2
      BY <1>2
    <3> QED
      BY <2>2, <3>1
  <2>4. e + 2 <= SLen => e + 2 = 1 \/ line[(e + 2) - 1] = S!Blank
    <3>1. (e + 2 <= SLen => e < SLen) /\ (e + 2) - 1 = e + 1
      BY <1>2
    <3> QED
      BY <1>2, <3>1
  <2>5. ASSUME NEW j \in S!Starts, j < e + 2 PROVE S!WordEnd(j) + 1 < e + 2 /\ c[S!WordEnd(j) + 1] = S!NUL
    <3>1. PICK f : f = S!WordEnd(j)
      OBVIOUS
    <3>2. j \in 1..SLen /\ f \in j..SLen
      BY <3>1, SWord
    <3>3. CASE j < k
      <4>1. f + 1 < k /\ b[f + 1] = S!NUL
        BY <1>3, <3>1, <3>3
      <4>2. f + 1 \in 1..S!Size /\ f + 1 < e + 2
        BY <1>2, <3>2, <4>1
      <4> QED
        BY <1>6, <3>1, <4>1, <4>2
    <3>4. CASE j = k
      BY <1>1, <1>2, <1>6, <3>1, <3>4
    <3>5. ~ (k < j)
      <4>1. k < j => e + 1 < j
        BY <1>1, SApart
      <4> QED
        BY <1>2, <2>5, <3>2, <4>1
    <3> QED
      BY <1>2, <3>2, <3>3, <3>4, <3>5
  <2> QED
    BY <2>1, <2>2, <2>3, <2>4, <2>5 DEF SCut
<1> QED
  BY <1>1, <1>4, <1>5, <1>7

(* One more argument, or none.                                             *)
LEMMA SOneMore ==
  ASSUME NEW a \in Seq(Nat), NEW p \in Nat, NEW q \in Nat, NEW k \in SWanted, SListed(a, p), p <= k, k \in Nat,
         k < q, \A x \in SWanted : x < q => x < p \/ x = k
  PROVE  SListed(Append(a, k), q)
<1>1. PICK m : m = Len(a)
  OBVIOUS
<1>2. PICK c : c = Append(a, k)
  OBVIOUS
<1>3. /\ m \in Nat /\ Len(c) = m + 1 /\ c[m + 1] = k
      /\ \A n \in 1..m : c[n] = a[n] /\ a[n] \in Nat
  BY <1>1, <1>2
<1>4. /\ \A n \in 1..m : a[n] \in SWanted /\ a[n] < p
      /\ \A x \in SWanted : x < p => \E n \in 1..m : a[n] = x
      /\ \A j, n \in 1..m : j < n => a[j] < a[n]
  BY <1>1 DEF SListed
<1>5. \A n \in 1..m+1 : n \in 1..m \/ n = m + 1
  BY <1>3
<1>6. ASSUME NEW n \in 1..m+1 PROVE c[n] \in SWanted /\ c[n] < q
  <2>1. CASE n \in 1..m
    <3>1. c[n] = a[n] /\ a[n] \in Nat /\ a[n] \in SWanted /\ a[n] < p
      BY <1>3, <1>4, <2>1
    <3> QED
      BY <3>1
  <2>2. CASE n = m + 1
    BY <1>3, <2>2
  <2> QED
    BY <1>5, <2>1, <2>2
<1>7. ASSUME NEW x \in SWanted, x < q PROVE \E n \in 1..m+1 : c[n] = x
  <2>1. CASE x < p
    <3>1. PICK n \in 1..m : a[n] = x
      BY <1>4, <2>1
    <3>2. n \in 1..m+1 /\ c[n] = x
      BY <1>3, <3>1
    <3> QED
      BY <3>2
  <2>2. CASE x = k
    <3>1. m + 1 \in 1..m+1
      BY <1>3
    <3> QED
      BY <1>3, <2>2, <3>1
  <2> QED
    BY <1>7, <2>1, <2>2
<1>8. ASSUME NEW j \in 1..m+1, NEW n \in 1..m+1, j < n PROVE c[j] < c[n]
  <2>1. j \in 1..m
    BY <1>3, <1>8
  <2>2. CASE n \in 1..m
    BY <1>3, <1>4, <1>8, <2>1, <2>2
  <2>3. CASE n = m + 1
    <3>1. c[j] = a[j] /\ a[j] < p /\ a[j] \in Nat /\ c[n] = k
      BY <1>3, <1>4, <2>1, <2>3
    <3> QED
      BY <3>1
  <2> QED
    BY <1>5, <2>2, <2>3
<1> QED
  BY <1>2, <1>3, <1>6, <1>7, <1>8 DEF SListed

LEMMA SNoMore ==
  ASSUME NEW a \in Seq(Nat), NEW p \in Nat, NEW q \in Nat, SListed(a, p), p <= q,
         \A x \in SWanted : x < q => x < p
  PROVE  SListed(a, q)
<1>1. PICK m : m = Len(a)
  OBVIOUS
<1>2. \A n \in 1..m : a[n] \in Nat
  BY <1>1
<1>3. /\ \A n \in 1..m : a[n] \in SWanted /\ a[n] < p
      /\ \A x \in SWanted : x < p => \E n \in 1..m : a[n] = x
      /\ \A j, n \in 1..m : j < n => a[j] < a[n]
  BY <1>1 DEF SListed
<1>4. \A n \in 1..m : a[n] < q
  BY <1>2, <1>3
<1> QED
  BY <1>1, <1>3, <1>4 DEF SListed

(* The end of a round: a blank, or a word that is no redirection.          *)
LEMMA SRound ==
  ASSUME line \in S!Lines, SFit, NEW b \in [1..S!Size -> S!Chars \cup {S!NUL}], NEW p \in 1..SLen,
         SCut(b, p), SListed(argv, p), argv \in Seq(1..S!Size), p \notin S!Marked, S!Argument(b, p)
  PROVE  /\ SCut(buf', ptr') /\ SListed(argv', ptr') /\ ptr' \in Nat /\ p < ptr'
         /\ \A j \in S!Starts : j < ptr' => j <= p
<1>0. SLen \in Nat /\ S!Size \in Nat /\ SLen + 4 <= S!Size /\ S!Blank # S!NUL /\ argv \in Seq(Nat)
      /\ (\A x \in SWanted : x \in Nat \ {0}) /\ p \in Nat
  <2>1. 1..S!Size \subseteq Nat
    BY SSize
  <2>2. argv \in Seq(Nat)
    BY <2>1
  <2>3. S!Blank # S!NUL
    BY DEF S!Blank, S!NUL
  <2>4. SLen \in Nat /\ SLen <= MaxLine
    BY SLine
  <2> QED
    BY <2>2, <2>3, <2>4, SSize, SWantedBy
<1>1. b[p] = line[p]
  BY <1>0 DEF SCut
<1>2. CASE line[p] = S!Blank
  <2>1. ptr' = p + 1 /\ buf' = b /\ argv' = argv
    BY <1>1, <1>2 DEF S!Argument
  <2>2. p \notin S!Starts /\ p \notin SWanted
    BY <1>2, SNoBlank
  <2>3. SListed(argv, p + 1)
    <3>1. \A x \in SWanted : x < p + 1 => x < p
      BY <1>0, <2>2
    <3> QED
      BY <1>0, <3>1, SNoMore
  <2>4. SCut(b, p + 1)
    <3>1. /\ \A n \in 1..SLen : n >= p \/ line[n] # S!Blank => b[n] = line[n]
          /\ \A n \in SLen+1..SLen+2 : b[n] = S!NUL
          /\ \A j \in S!Starts : j < p => S!WordEnd(j) + 1 < p /\ b[S!WordEnd(j) + 1] = S!NUL
      BY DEF SCut
    <3>2. \A n \in 1..SLen : n >= p + 1 \/ line[n] # S!Blank => b[n] = line[n]
      BY <1>0, <3>1
    <3>3. p + 1 > SLen => b[p + 1] = S!NUL
      <4>1. p + 1 > SLen => p + 1 \in SLen+1..SLen+2
        BY <1>0
      <4> QED
        BY <3>1, <4>1
    <3>4. line[(p + 1) - 1] = S!Blank
      <4>1. (p + 1) - 1 = p
        BY <1>0
      <4> QED
        BY <1>2, <4>1
    <3>5. ASSUME NEW j \in S!Starts, j < p + 1 PROVE S!WordEnd(j) + 1 < p + 1 /\ b[S!WordEnd(j) + 1] = S!NUL
      <4>1. j \in Nat /\ S!WordEnd(j) \in Nat
        BY <1>0, SWord
      <4>2. j < p
        BY <1>0, <2>2, <3>5, <4>1
      <4>3. S!WordEnd(j) + 1 < p /\ b[S!WordEnd(j) + 1] = S!NUL
        BY <3>1, <4>2
      <4> QED
        BY <1>0, <4>1, <4>3
    <3> QED
      BY <3>1, <3>2, <3>3, <3>4, <3>5 DEF SCut
  <2>5. \A j \in S!Starts : j < p + 1 => j <= p
    BY <1>0, SLine
  <2> QED
    BY <1>0, <2>1, <2>3, <2>4, <2>5
<1>3. CASE line[p] # S!Blank
  <2>1. p \in S!Starts
    BY <1>0, <1>3, SLine DEF SCut
  <2>2. PICK e : e = S!WordEnd(p)
    OBVIOUS
  <2>3. e \in p..SLen /\ p \in p..e
    BY <1>0, <2>1, <2>2, SWord
  <2>4. /\ S!SkipWord(b, p) = e + 1
        /\ SCut([b EXCEPT ![e + 1] = S!NUL], e + 2)
    BY <2>1, <2>2, <2>3, SCutOff
  <2>5. ptr' = (e + 1) + 1 /\ buf' = [b EXCEPT ![e + 1] = S!NUL] /\ argv' = Append(argv, p)
    BY <1>1, <1>3, <2>4 DEF S!Argument
  <2>6. ptr' = e + 2 /\ ptr' \in Nat /\ p < ptr'
    BY <1>0, <2>3, <2>5
  <2>7. p \in SWanted
    BY <2>1 DEF SWanted
  <2>8. ASSUME NEW x \in SWanted, x < e + 2 PROVE x < p \/ x = p
    <3>1. p <= x => x = p
      BY <2>1, <2>2, <2>8, SOnlyWord
    <3> QED
      BY <1>0, <3>1
  <2>9. SListed(Append(argv, p), e + 2)
    <3>1. e + 2 \in Nat /\ p < e + 2 /\ p <= p
      BY <1>0, <2>3
    <3> QED
      BY <1>0, <2>7, <2>8, <3>1, SOneMore
  <2>10. ASSUME NEW j \in S!Starts, j < e + 2 PROVE j <= p
    <3>1. p < j => e + 1 < j
      BY <2>1, <2>2, SApart
    <3>2. j \in Nat
      BY <1>0, SLine
    <3> QED
      BY <1>0, <2>3, <2>10, <3>1, <3>2
  <2> QED
    BY <2>4, <2>5, <2>6, <2>9, <2>10
<1> QED
  BY <1>2, <1>3

(* A round at a redirection, whose file name stands at k: the word behind  *)
(* it, or an empty argument if the line has ended.                         *)
LEMMA SRedirection ==
  ASSUME line \in S!Lines, SFit, buf \in [1..S!Size -> S!Chars \cup {S!NUL}], argv \in Seq(1..S!Size),
         SCut(buf, ptr), SListed(argv, ptr), \A n \in 1..S!Size : n > SLen => buf[n] = S!NUL,
         ptr \in S!Marked, NEW which, S!Filename(which, S!NameAt(ptr))
  PROVE  /\ SCut(buf', ptr') /\ SListed(argv', ptr') /\ ptr' \in Nat /\ S!WordEnd(ptr) + 2 < ptr'
         /\ name' = [name EXCEPT ![which] = S!NameAt(ptr)]
<1>1. PICK e : e = S!WordEnd(ptr)
  OBVIOUS
<1>2. PICK k : k = S!NameAt(ptr)
  OBVIOUS
<1>3. /\ SLen \in Nat /\ S!Size \in Nat /\ SLen + 4 <= S!Size /\ ptr \in S!Starts
      /\ ptr \in 1..SLen /\ e \in ptr..SLen
  BY <1>1, SLine, SWord, SSize
<1>4. k \in ptr+1..e /\ line[k] = "w"
  <2>1. k \in ptr+1..e /\ \A n \in k..e : line[n] = "w"
    BY <1>1, <1>2, SMark DEF SFit
  <2>2. k \in k..e
    BY <1>3, <2>1
  <2> QED
    BY <2>1, <2>2
<1>5. S!SkipBlanks(buf, k) = k
  <2>1. k \in 1..SLen /\ k >= ptr /\ k \in 1..S!Size
    BY <1>3, <1>4
  <2>2. buf[k] = "w"
    BY <1>4, <2>1 DEF SCut
  <2>3. "w" # S!Blank
    BY DEF S!Blank
  <2> QED
    BY <2>1, <2>2, <2>3, SSkipBlanks
<1>6. k \in ptr..e
  BY <1>3, <1>4
<1>7. /\ S!SkipWord(buf, k) = e + 1
      /\ SCut([buf EXCEPT ![e + 1] = S!NUL], e + 2)
  BY <1>1, <1>3, <1>6, SCutOff
<1>8. PICK b \in [1..S!Size -> S!Chars \cup {S!NUL}] : b = [buf EXCEPT ![e + 1] = S!NUL]
  OBVIOUS
<1>9. name' = [name EXCEPT ![which] = k] /\ S!Argument(b, (e + 1) + 1) /\ (e + 1) + 1 = e + 2
  BY <1>2, <1>3, <1>5, <1>7, <1>8 DEF S!Filename
<1>10. SCut(b, e + 2) /\ S!Argument(b, e + 2)
  BY <1>7, <1>8, <1>9
<1>11. argv \in Seq(Nat) /\ \A x \in SWanted : x \in Nat \ {0}
  <2>1. 1..S!Size \subseteq Nat
    BY <1>3
  <2>2. argv \in Seq(Nat)
    BY <2>1
  <2> QED
    BY <2>2, SWantedBy
<1>12. SListed(argv, e + 2)
  <2>1. ASSUME NEW x \in SWanted, x < e + 2 PROVE x < ptr
    <3>1. ~ (ptr <= x)
      BY <1>1, <1>3, <2>1, SOnlyWord
    <3> QED
      BY <1>3, <1>11, <3>1
  <2>2. ptr \in Nat /\ e + 2 \in Nat /\ ptr <= e + 2
    BY <1>3
  <2> QED
    BY <1>11, <2>1, <2>2, SNoMore
<1>13. CASE e + 2 <= SLen
  <2>1. e + 2 \in 1..SLen /\ e + 2 # ptr
    BY <1>3, <1>13
  <2>2. e + 2 \notin S!Marked
    BY <2>1 DEF SFit
  <2>3. SCut(buf', ptr') /\ SListed(argv', ptr') /\ ptr' \in Nat /\ e + 2 < ptr'
    BY <1>10, <1>12, <2>1, <2>2, SRound
  <2> QED
    BY <1>1, <1>2, <1>9, <2>3
<1>14. CASE e + 2 > SLen
  <2>1. e + 2 \in SLen+1..SLen+2 /\ e + 2 \in 1..S!Size /\ e + 2 \in e+2..S!Size /\ e \in Nat
    BY <1>3, <1>14
  <2>2. b[e + 2] = S!NUL /\ S!NUL # S!Blank
    BY <1>10, <2>1 DEF SCut, S!NUL, S!Blank
  <2>3. S!SkipWord(b, e + 2) = e + 2
    <3>1. \A n \in e+2..e+2 : n = e + 2
      BY <2>1
    <3> QED
      BY <2>1, <2>2, <3>1, SSkipWord
  <2>4. ptr' = (e + 2) + 1 /\ buf' = [b EXCEPT ![e + 2] = S!NUL] /\ argv' = Append(argv, e + 2)
    BY <1>10, <2>2, <2>3 DEF S!Argument
  <2>5. buf' = b /\ ptr' = e + 3
    <3>1. b = [b EXCEPT ![e + 2] = S!NUL]
      BY <2>1, <2>2
    <3> QED
      BY <2>1, <2>4, <3>1
  <2>6. SListed(argv', ptr')
    <3>1. e + 2 \in SWanted
      BY <1>1, <1>14 DEF SWanted
    <3>2. e + 3 \in Nat /\ e + 2 <= e + 2 /\ e + 2 < e + 3
      BY <2>1
    <3>3. \A x \in SWanted : x < e + 3 => x < e + 2 \/ x = e + 2
      BY <1>11, <2>1
    <3> QED
      BY <1>11, <1>12, <2>1, <2>4, <2>5, <3>1, <3>2, <3>3, SOneMore
  <2>7. SCut(b, e + 3)
    <3>1. /\ \A n \in 1..SLen : n >= e + 2 \/ line[n] # S!Blank => b[n] = line[n]
          /\ \A n \in SLen+1..SLen+2 : b[n] = S!NUL
          /\ \A j \in S!Starts : j < e + 2 => S!WordEnd(j) + 1 < e + 2 /\ b[S!WordEnd(j) + 1] = S!NUL
      BY <1>10 DEF SCut
    <3>2. b[e + 3] = S!NUL
      <4>1. e + 3 \in 1..S!Size /\ e + 3 > SLen /\ e + 3 # e + 1
        BY <1>3, <1>14
      <4> QED
        BY <1>8, <4>1
    <3>3. ~ (e + 3 <= SLen)
      BY <1>3, <1>14
    <3>4. \A n \in 1..SLen : n >= e + 3 => n >= e + 2
      BY <1>3
    <3>5. ASSUME NEW j \in S!Starts PROVE S!WordEnd(j) + 1 < e + 3 /\ b[S!WordEnd(j) + 1] = S!NUL
      <4>1. j \in 1..SLen /\ S!WordEnd(j) \in j..SLen
        BY SWord
      <4>2. j < e + 2
        BY <1>3, <1>14, <4>1
      <4>3. S!WordEnd(j) + 1 < e + 2 /\ b[S!WordEnd(j) + 1] = S!NUL
        BY <3>1, <4>2
      <4> QED
        BY <1>3, <4>1, <4>3
    <3> QED
      BY <3>1, <3>2, <3>3, <3>4, <3>5 DEF SCut
  <2>8. ptr' \in Nat /\ e + 2 < ptr'
    BY <2>1, <2>5
  <2> QED
    BY <1>1, <1>2, <1>9, <2>5, <2>6, <2>7, <2>8
<1> QED
  BY <1>3, <1>13, <1>14

(* While the line stays, so does all that is defined from it.              *)
LEMMA SSameLine ==
  ASSUME line' = line, program' = program
  PROVE  /\ SLen' = SLen /\ S!Starts' = S!Starts /\ S!Marked' = S!Marked /\ SWanted' = SWanted
         /\ \A k \in S!Starts : (S!WordEnd(k))' = S!WordEnd(k)
         /\ \A k \in S!Starts : (S!NameAt(k))' = S!NameAt(k)
         /\ SFit' <=> SFit
         /\ S!Lines' = S!Lines
<1>1. SLen' = SLen /\ S!Starts' = S!Starts
  BY DEF SLen, S!Starts
<1>2. S!Marked' = S!Marked
  BY <1>1 DEF S!Marked
<1>3. ASSUME NEW k PROVE (S!WordEnd(k))' = S!WordEnd(k)
  BY DEF S!WordEnd
<1>4. ASSUME NEW k PROVE (S!NameAt(k))' = S!NameAt(k)
  BY <1>3 DEF S!NameAt
<1>5. SWanted' = SWanted
  BY <1>1, <1>2, <1>3 DEF SWanted
<1>6. SFit' <=> SFit
  BY <1>1, <1>2, <1>3, <1>4 DEF SFit, S!WellFormed
<1>7. S!Lines' = S!Lines
  BY DEF S!Lines, S!Chars, S!BoundedSeq, S!SeqOf
<1> QED
  BY <1>1, <1>2, <1>3, <1>4, <1>5, <1>6, <1>7

(* No argument begins before the line.                                     *)
LEMMA SPositive == line \in S!Lines => \A x \in SWanted : x \in Nat \ {0}
  BY SWantedBy

LEMMA SPositiveNext == (line \in S!Lines)' => (\A x \in SWanted : x \in Nat \ {0})'
  BY SPositive, PTL

(* A redirection before ptr has been noted, and the flag of no other.      *)
SNamed ==
  /\ (\A r \in S!Marked : ptr <= r) => flag = 0 /\ name = S!Nowhere
  /\ \A r \in S!Marked : r < ptr =>
       /\ S!WordEnd(r) + 2 < ptr
       /\ IF line[r] = "<" THEN flag = 4 /\ name = [in |-> S!NameAt(r), out |-> 0]
          ELSE flag \in {1, 2} /\ name = [in |-> 0, out |-> S!NameAt(r)]

(* What the parser has done with such a line; what a new round of the      *)
(* shell starts with; what is behind the line in a buffer that is cleared; *)
(* and which files the child has opened.                                   *)
SParsed == SCut(buf, ptr) /\ SListed(argv, ptr) /\ SNamed
SBlankRound == cpc = "read" => /\ line = <<>> /\ ptr = 1 /\ argv = <<>> /\ flag = 0
                               /\ name = S!Nowhere /\ io = S!Nowhere
SClean == SShell # "Myshell.c" => \A k \in 1..S!Size : k > SLen => buf[k] = S!NUL
SOpened == cpc = "exec" => io = [out |-> IF flag % 4 # 0 THEN name.out ELSE 0,
                                 in |-> IF flag >= 4 THEN name.in ELSE 0]
SKept == /\ SInv /\ SBlankRound /\ SClean /\ SOpened
         /\ cpc # "read" /\ SFit => SParsed
         /\ cpc \in {"fork", "open", "exec"} /\ SFit => SLen < ptr

LEMMA SKeptInit == S!Init => SKept
<1> SUFFICES ASSUME S!Init PROVE SKept
  OBVIOUS
<1>1. SInv
  BY SInit
<1>2. SBlankRound /\ cpc = "read"
  BY DEF S!Init, SBlankRound
<1>3. SClean
  <2>1. SShell # "Myshell.c" => buf = [k \in 1..S!Size |-> IF k > MaxLine + 2 THEN S!NUL ELSE S!NUL]
    BY DEF S!Init, S!Found, SShell
  <2> QED
    BY <2>1 DEF SClean
<1> QED
  BY <1>1, <1>2, <1>3 DEF SKept, SOpened

(* A round that is no redirection leaves the names where they are.         *)
LEMMA SNamedStays ==
  ASSUME line \in S!Lines, SNamed, line' = line, program' = program, flag' = flag, name' = name,
         ptr \in Nat, ptr' \in Nat, ptr <= ptr', ptr \notin S!Marked, \A j \in S!Starts : j < ptr' => j <= ptr
  PROVE  SNamed'
<1>1. S!Marked' = S!Marked /\ S!Nowhere' = S!Nowhere /\ S!Marked \subseteq S!Starts
  BY SSameLine, SLine DEF S!Nowhere
<1>2. \A r \in S!Marked : (S!WordEnd(r))' = S!WordEnd(r) /\ (S!NameAt(r))' = S!NameAt(r)
  BY <1>1, SSameLine
<1>3. \A r \in S!Marked : r \in Nat /\ S!WordEnd(r) \in Nat
  BY <1>1, SLine, SWord
<1>4. \A r \in S!Marked : r < ptr' <=> r < ptr
  BY <1>1, <1>3
<1>5. (\A r \in S!Marked : ptr' <= r) => flag' = 0 /\ name' = S!Nowhere
  <2>1. \A r \in S!Marked : ptr' <= r => ptr <= r
    BY <1>3
  <2> QED
    BY <2>1 DEF SNamed
<1>6. ASSUME NEW r \in S!Marked, r < ptr'
      PROVE  /\ S!WordEnd(r) + 2 < ptr'
             /\ IF line[r] = "<" THEN flag' = 4 /\ name' = [in |-> S!NameAt(r), out |-> 0]
                ELSE flag' \in {1, 2} /\ name' = [in |-> 0, out |-> S!NameAt(r)]
  <2>1. r < ptr
    BY <1>4, <1>6
  <2>2. /\ S!WordEnd(r) + 2 < ptr
        /\ IF line[r] = "<" THEN flag = 4 /\ name = [in |-> S!NameAt(r), out |-> 0]
           ELSE flag \in {1, 2} /\ name = [in |-> 0, out |-> S!NameAt(r)]
    BY <2>1 DEF SNamed
  <2>3. S!WordEnd(r) + 2 < ptr'
    BY <1>3, <2>2
  <2> QED
    BY <2>2, <2>3
<1> QED
  BY <1>1, <1>2, <1>5, <1>6 DEF SNamed

(* What the parser has done is done whatever it does to the variables.     *)
LEMMA SParsedThen ==
  ASSUME line' = line, program' = program, SCut(buf', ptr'), SListed(argv', ptr'), SNamed'
  PROVE  SParsed'
<1>1. /\ SLen' = SLen /\ S!Starts' = S!Starts /\ SWanted' = SWanted
      /\ \A k \in S!Starts : (S!WordEnd(k))' = S!WordEnd(k)
  BY SSameLine
<1>2. S!NUL' = S!NUL /\ S!Blank' = S!Blank
  BY DEF S!NUL, S!Blank
<1>3. (SCut(buf, ptr))'
  BY <1>1, <1>2 DEF SCut
<1>4. (SListed(argv, ptr))'
  BY <1>1 DEF SListed
<1> QED
  BY <1>3, <1>4 DEF SParsed

(* After fgets nothing is parsed.                                          *)
LEMMA SRead ==
  ASSUME SKept, S!ReadLine, SInv', program' = program
  PROVE  /\ SClean' /\ cpc' = "parse" /\ (SFit' => SParsed')
<1>1. PICK txt \in S!Lines : S!Fgets(txt, 2)
  BY DEF S!ReadLine
<1>2. PICK m \in 0..MaxLine : txt \in [1..m -> S!Chars]
  BY DEF S!Lines, S!BoundedSeq, S!SeqOf
<1>3. Len(txt) = m /\ m \in Nat /\ m <= MaxLine /\ S!Size \in Nat /\ m + 4 <= S!Size
  BY <1>2, SSize, FunctionIsSeq
<1>4. /\ cpc = "read" /\ cpc' = "parse" /\ line' = txt
      /\ UNCHANGED <<ptr, argv, flag, name, io>>
      /\ buf' = [k \in 1..S!Size |-> IF k <= m THEN txt[k] ELSE IF k <= m + 2 THEN S!NUL ELSE buf[k]]
  BY <1>1, <1>3 DEF S!Fgets, S!parsed
<1>5. line = <<>> /\ ptr' = 1 /\ argv' = <<>> /\ flag' = 0 /\ name' = S!Nowhere
  BY <1>4 DEF SKept, SBlankRound
<1>6. SLen = 0 /\ SLen' = m
  BY <1>3, <1>4, <1>5 DEF SLen
<1>8. S!NUL' = S!NUL /\ S!Size' = S!Size /\ SShell' = SShell /\ S!Nowhere' = S!Nowhere
  BY DEF S!NUL, S!Size, SShell, S!Nowhere
<1>7. \A k \in 1..S!Size : /\ k \in 1..m => buf'[k] = line'[k]
                           /\ k > m /\ k <= m + 2 => buf'[k] = S!NUL
                           /\ k > m + 2 => buf'[k] = buf[k]
  BY <1>3, <1>4
<1>9. SClean'
  <2>1. SShell # "Myshell.c" => \A k \in 1..S!Size : buf[k] = S!NUL
    BY <1>6 DEF SKept, SClean
  <2>2. ASSUME NEW k \in 1..S!Size, SShell # "Myshell.c", k > m PROVE buf'[k] = S!NUL
    <3>1. CASE k <= m + 2
      BY <1>7, <2>2, <3>1
    <3>2. CASE k > m + 2
      BY <1>7, <2>1, <2>2, <3>2
    <3> QED
      BY <1>3, <3>1, <3>2
  <2> QED
    BY <1>6, <1>8, <2>2 DEF SClean
<1>10. (\A k \in S!Starts : k \in 1..SLen)' /\ (\A k \in S!Marked : k \in 1..SLen)'
  BY DEF S!Starts, S!Marked, SLen
<1>11. (SCut(buf, ptr))'
  <2>1. \A n \in 1..m : n \in 1..S!Size
    BY <1>3
  <2>2. \A n \in m+1..m+2 : n \in 1..S!Size /\ n > m /\ n <= m + 2
    BY <1>3
  <2>3. \A n \in m+1..m+2 : buf'[n] = S!NUL
    BY <1>7, <2>2
  <2>4. 1 > m => 1 \in m+1..m+2
    BY <1>3
  <2>5. \A k \in (S!Starts)' : ~ (k < 1)
    BY <1>3, <1>6, <1>10
  <2> QED
    BY <1>5, <1>6, <1>7, <1>8, <2>1, <2>3, <2>4, <2>5 DEF SCut
<1>12. (SListed(argv, ptr))'
  <2>1. (\A x \in SWanted : x \in Nat \ {0})'
    BY SPositiveNext DEF SInv, S!TypeOK
  <2>2. \A x \in SWanted' : ~ (x < 1)
    BY <2>1
  <2>3. Len(argv') = 0
    BY <1>5
  <2> QED
    BY <1>5, <2>2, <2>3 DEF SListed
<1>13. SNamed'
  <2>1. \A r \in (S!Marked)' : ~ (r < 1)
    BY <1>3, <1>6, <1>10
  <2> QED
    BY <1>5, <1>8, <2>1 DEF SNamed
<1> QED
  BY <1>4, <1>9, <1>11, <1>12, <1>13 DEF SParsed

(* The three rounds of the parser.                                         *)
LEMMA SWordRound ==
  ASSUME SKept, S!Word, program' = program, SFit
  PROVE  SParsed'
<1>1. /\ cpc = "parse" /\ buf[ptr] \notin {"<", ">", S!NUL} /\ S!Argument(buf, ptr)
      /\ line' = line /\ flag' = flag /\ name' = name
  BY DEF S!Word
<1>2. /\ line \in S!Lines /\ buf \in [1..S!Size -> S!Chars \cup {S!NUL}] /\ argv \in Seq(1..S!Size)
      /\ ptr \in 1..S!Size
  BY DEF SKept, SInv, S!TypeOK
<1>3. SCut(buf, ptr) /\ SListed(argv, ptr) /\ SNamed
  BY <1>1 DEF SKept, SParsed
<1>4. SLen \in Nat /\ line \in [1..SLen -> S!Chars]
  BY <1>2, SLine
<1>5. ptr \in 1..SLen /\ ptr \in Nat
  BY <1>1, <1>2, <1>3, <1>4, SSize DEF SCut
<1>6. ptr \notin S!Marked
  <2>1. ptr >= ptr
    BY <1>5
  <2>2. buf[ptr] = line[ptr]
    BY <1>3, <1>5, <2>1 DEF SCut
  <2>3. S!Chars \subseteq {S!Blank, "w", "<", ">"} /\ line[ptr] \in S!Chars
    BY <1>2, <1>4, <1>5, SLine
  <2>4. ASSUME ptr \in S!Marked PROVE line[ptr] # S!Blank /\ line[ptr] # "w"
    BY <2>4, <1>2, SLine DEF S!Marked
  <2> QED
    BY <1>1, <2>2, <2>3, <2>4
<1>7. /\ SCut(buf', ptr') /\ SListed(argv', ptr') /\ ptr' \in Nat /\ ptr < ptr'
      /\ \A j \in S!Starts : j < ptr' => j <= ptr
  BY <1>1, <1>2, <1>3, <1>5, <1>6, SRound
<1>8. ptr <= ptr'
  BY <1>5, <1>7
<1>9. SNamed'
  BY <1>1, <1>2, <1>3, <1>5, <1>6, <1>7, <1>8, SNamedStays
<1> QED
  BY <1>1, <1>7, <1>9, SParsedThen

LEMMA SRedirectionRound ==
  ASSUME SKept, S!RedirectOut \/ S!RedirectIn, program' = program, SFit
  PROVE  SParsed'
<1>1. cpc = "parse" /\ buf[ptr] \in {"<", ">"} /\ line' = line
  BY DEF S!RedirectOut, S!RedirectIn
<1>2. /\ line \in S!Lines /\ buf \in [1..S!Size -> S!Chars \cup {S!NUL}] /\ argv \in Seq(1..S!Size)
      /\ ptr \in 1..S!Size /\ name \in [{"in", "out"} -> 0..S!Size]
  BY DEF SKept, SInv, S!TypeOK
<1>3. SCut(buf, ptr) /\ SListed(argv, ptr) /\ SNamed
  BY <1>1 DEF SKept, SParsed
<1>4. SLen \in Nat /\ line \in [1..SLen -> S!Chars]
  BY <1>2, SLine
<1>5. ptr \in 1..SLen /\ ptr \in Nat
  <2>1. buf[ptr] # S!NUL
    BY <1>1 DEF S!NUL
  <2> QED
    BY <1>2, <1>3, <1>4, <2>1, SSize DEF SCut
<1>6. \A n \in ptr..SLen : buf[n] = line[n]
  <2>1. \A n \in ptr..SLen : n \in 1..SLen /\ n >= ptr
    BY <1>5
  <2> QED
    BY <1>3, <2>1 DEF SCut
<1>7. buf[ptr] = line[ptr] /\ ptr \in ptr..SLen
  BY <1>5, <1>6
<1>8. ptr \in S!Marked
  <2>1. line[ptr] # S!Blank /\ line[ptr] # "w"
    BY <1>1, <1>7 DEF S!Blank
  <2>2. ptr <= SLen
    BY <1>4, <1>5
  <2>3. ptr = 1 \/ line[ptr - 1] = S!Blank
    BY <1>3, <2>2 DEF SCut
  <2>4. ptr \in S!Starts
    BY <1>2, <1>5, <2>1, <2>3, SLine
  <2> QED
    BY <2>1, <2>4 DEF S!Marked
<1>9. \A n \in 1..S!Size : n > SLen => buf[n] = S!NUL
  <2>1. SShell = "mini_shell.c"
    <3>1. line[ptr] \in S!Chars /\ line[ptr] \notin {S!Blank, "w"}
      BY <1>1, <1>4, <1>5, <1>7 DEF S!Blank
    <3> QED
      BY <1>2, <3>1, SLine
  <2> QED
    BY <2>1 DEF SKept, SClean
<1>10. flag = 0 /\ name = [in |-> 0, out |-> 0]
  <2>1. \A r \in S!Marked : r = ptr
    BY <1>8 DEF SFit
  <2>2. \A r \in S!Marked : ptr <= r
    BY <1>5, <2>1
  <2> QED
    BY <1>3, <2>2 DEF SNamed, S!Nowhere
<1>11. PICK at : at = S!NameAt(ptr)
  OBVIOUS
<1>12. /\ at \in ptr+1..S!WordEnd(ptr) /\ S!WordEnd(ptr) \in ptr..SLen
       /\ \A n \in at..S!WordEnd(ptr) : line[n] = "w"
       /\ \/ at = ptr + 1 /\ line[ptr] \in {"<", ">"}
          \/ at = ptr + 2 /\ line[ptr] = ">" /\ line[ptr + 1] = ">"
  <2>1. ptr \in S!Starts
    BY <1>2, <1>8, SLine
  <2> QED
    BY <1>2, <1>8, <1>11, <2>1, SMark, SWord DEF SFit
<1>13. at = ptr + 1 => line[ptr + 1] = "w"
  <2>1. at \in at..S!WordEnd(ptr)
    BY <1>5, <1>12
  <2> QED
    BY <1>12, <2>1
<1>14. buf[ptr + 1] = line[ptr + 1]
  <2>1. ptr + 1 \in ptr..SLen
    BY <1>4, <1>5, <1>12
  <2> QED
    BY <1>6, <2>1
<1>15. \/ line[ptr] = ">" /\ flag' \in {1, 2} /\ S!Filename("out", at)
       \/ line[ptr] = "<" /\ flag' = 4 /\ S!Filename("in", at)
  <2>1. CASE S!RedirectOut
    <3>1. buf[ptr] = ">" /\ flag' = (IF buf[ptr + 1] = ">" THEN 2 ELSE 1) /\ S!Filename("out", ptr + flag')
      BY <2>1 DEF S!RedirectOut
    <3>2. at = ptr + flag' /\ flag' \in {1, 2}
      <4>1. CASE at = ptr + 1
        <5>1. buf[ptr + 1] # ">"
          BY <1>13, <1>14, <4>1
        <5> QED
          BY <3>1, <4>1, <5>1
      <4>2. CASE at = ptr + 2 /\ line[ptr + 1] = ">"
        BY <1>14, <3>1, <4>2
      <4> QED
        BY <1>12, <4>1, <4>2
    <3> QED
      BY <1>7, <3>1, <3>2
  <2>2. CASE S!RedirectIn
    <3>1. buf[ptr] = "<" /\ flag' = (flag % 4) + 4 /\ S!Filename("in", ptr + 1)
      BY <2>2 DEF S!RedirectIn
    <3>2. 0 % 4 = 0
      OBVIOUS
    <3>3. flag' = 4
      BY <1>10, <3>1, <3>2
    <3>4. at = ptr + 1
      BY <1>7, <1>12, <3>1
    <3> QED
      BY <1>7, <3>1, <3>3, <3>4
  <2> QED
    BY <2>1, <2>2
<1>16. PICK which \in {"in", "out"} : S!Filename(which, at) /\ (which = IF line[ptr] = "<" THEN "in" ELSE "out")
  BY <1>15
<1>17. /\ SCut(buf', ptr') /\ SListed(argv', ptr') /\ ptr' \in Nat /\ S!WordEnd(ptr) + 2 < ptr'
       /\ name' = [name EXCEPT ![which] = at]
  BY <1>2, <1>3, <1>8, <1>9, <1>11, <1>16, SRedirection
<1>18. IF line[ptr] = "<" THEN flag' = 4 /\ name' = [in |-> at, out |-> 0]
       ELSE flag' \in {1, 2} /\ name' = [in |-> 0, out |-> at]
  BY <1>10, <1>15, <1>16, <1>17
<1>19. SNamed'
  <2>1. S!Marked' = S!Marked /\ S!Marked \subseteq S!Starts
    BY <1>1, <1>2, SSameLine, SLine
  <2>3. \A k \in S!Starts : (S!WordEnd(k))' = S!WordEnd(k) /\ (S!NameAt(k))' = S!NameAt(k)
    BY <1>1, SSameLine
  <2>4. \A r \in S!Marked : r = ptr
    BY <1>8 DEF SFit
  <2>5. ~ (ptr' <= ptr)
    BY <1>4, <1>5, <1>12, <1>17
  <2>6. ASSUME NEW r \in (S!Marked)'
        PROVE  /\ (S!WordEnd(r))' + 2 < ptr'
               /\ IF line'[r] = "<" THEN flag' = 4 /\ name' = [in |-> (S!NameAt(r))', out |-> 0]
                  ELSE flag' \in {1, 2} /\ name' = [in |-> 0, out |-> (S!NameAt(r))']
    <3>1. r = ptr /\ (S!WordEnd(r))' = S!WordEnd(r) /\ (S!NameAt(r))' = S!NameAt(r)
      BY <2>1, <2>3, <2>4
    <3> QED
      BY <1>1, <1>11, <1>17, <1>18, <3>1
  <2> QED
    BY <1>8, <2>1, <2>5, <2>6 DEF SNamed
<1> QED
  BY <1>1, <1>17, <1>19, SParsedThen

(* A NUL stays where it is.                                                *)
LEMMA SNulsStay ==
  ASSUME NEW b \in [1..S!Size -> S!Chars \cup {S!NUL}], NEW k, S!Argument(b, k)
  PROVE  \A n \in 1..S!Size : b[n] = S!NUL => buf'[n] = S!NUL
<1>1. buf' = b \/ \E c : buf' = [b EXCEPT ![c] = S!NUL]
  BY DEF S!Argument
<1> QED
  BY <1>1

LEMMA SKeptNext == SKept /\ [S!Next]_svars /\ program' = program => SKept'
<1> SUFFICES ASSUME SKept, [S!Next]_svars, program' = program PROVE SKept'
  OBVIOUS
<1>1. SInv'
  BY SNext DEF SKept
<1>t. line \in S!Lines /\ buf \in [1..S!Size -> S!Chars \cup {S!NUL}] /\ argv \in Seq(1..S!Size) /\ ptr \in 1..S!Size
  BY DEF SKept, SInv, S!TypeOK
<1>k. SShell' = SShell /\ S!Size' = S!Size /\ S!NUL' = S!NUL /\ S!Nowhere' = S!Nowhere /\ S!Clear' = S!Clear
  BY DEF SShell, S!Size, S!NUL, S!Nowhere, S!Clear
<1>2. CASE S!ReadLine
  <2>1. SClean' /\ cpc' = "parse" /\ (SFit' => SParsed')
    BY <1>1, <1>2, SRead
  <2> QED
    BY <1>1, <2>1 DEF SKept, SBlankRound, SOpened
<1>3. CASE S!ForkFails \/ S!Wait
  <2>1. S!Prompt
    BY <1>3 DEF S!ForkFails, S!Wait
  <2>2. /\ cpc' = "read" /\ line' = <<>> /\ (SShell # "Myshell.c" => buf' = S!Clear)
        /\ ptr' = 1 /\ argv' = <<>> /\ flag' = 0 /\ name' = S!Nowhere /\ io' = S!Nowhere
    BY <2>1 DEF S!Prompt, SShell
  <2>3. SClean'
    BY <1>k, <2>2 DEF SClean, S!Clear
  <2> QED
    BY <1>1, <1>k, <2>2, <2>3 DEF SKept, SBlankRound, SOpened
<1>l. ASSUME line' = line
      PROVE  SLen' = SLen /\ (SFit' <=> SFit)
  BY <1>l, SSameLine
<1>4. CASE S!Word \/ S!RedirectOut \/ S!RedirectIn
  <2>1. cpc = "parse" /\ cpc' = "parse" /\ line' = line
    BY <1>4 DEF S!Word, S!RedirectOut, S!RedirectIn
  <2>2. SFit => SParsed'
    BY <1>4, SWordRound, SRedirectionRound
  <2>3. SClean'
    <3>1. \A k \in 1..S!Size : buf[k] = S!NUL => buf'[k] = S!NUL
      <4>1. CASE S!Word
        BY <1>t, <4>1, SNulsStay DEF S!Word
      <4>2. CASE ~ S!Word
        <5>1. PICK which, k : S!Filename(which, k)
          BY <1>4, <4>2 DEF S!RedirectOut, S!RedirectIn
        <5>2. PICK begin : begin = S!SkipBlanks(buf, k)
          OBVIOUS
        <5>3. PICK cut : cut = S!SkipWord(buf, begin)
          OBVIOUS
        <5>4. PICK b : b = [buf EXCEPT ![cut] = S!NUL]
          OBVIOUS
        <5>5. S!Argument(b, cut + 1)
          BY <5>1, <5>2, <5>3, <5>4 DEF S!Filename
        <5>6. /\ b \in [1..S!Size -> S!Chars \cup {S!NUL}]
              /\ \A n \in 1..S!Size : buf[n] = S!NUL => b[n] = S!NUL
          BY <1>t, <5>4
        <5> QED
          BY <5>5, <5>6, SNulsStay
      <4> QED
        BY <4>1, <4>2
    <3> QED
      BY <1>k, <1>l, <2>1, <3>1 DEF SKept, SClean
  <2> QED
    BY <1>1, <1>l, <2>1, <2>2, <2>3 DEF SKept, SBlankRound, SOpened
<1>5. ASSUME UNCHANGED <<line, buf, ptr, argv, flag, name>>, cpc \in {"parse", "fork", "open", "exec"},
             cpc' \in {"parse", "fork", "open", "exec"}, SOpened',
             cpc = "parse" /\ cpc' # "parse" => buf[ptr] = S!NUL
      PROVE  SKept'
  <2>1. SLen' = SLen /\ (SFit' <=> SFit) /\ S!NUL' = S!NUL /\ SClean'
    BY <1>5, <1>k, <1>l DEF SKept, SClean
  <2>2. SFit => SParsed
    BY <1>5 DEF SKept
  <2>3. SFit => SParsed'
    <3>1. SFit => SNamed'
      <4>1. S!Marked' = S!Marked /\ S!Marked \subseteq S!Starts
            /\ \A k \in S!Starts : (S!WordEnd(k))' = S!WordEnd(k) /\ (S!NameAt(k))' = S!NameAt(k)
        BY <1>5, <1>t, SSameLine, SLine
      <4>2. SFit => SNamed
        BY <2>2 DEF SParsed
      <4> QED
        BY <1>5, <1>k, <4>1, <4>2 DEF SNamed
    <3> QED
      BY <1>5, <2>2, <3>1, SParsedThen DEF SParsed
  <2>4. SFit /\ cpc' \in {"fork", "open", "exec"} => SLen < ptr
    <3>1. CASE cpc = "parse"
      <4>1. SFit /\ ptr <= SLen /\ buf[ptr] = S!NUL => FALSE
        <5>1. SLen \in Nat /\ line \in [1..SLen -> S!Chars] /\ S!NUL \notin S!Chars
          BY <1>t, SLine
        <5>2. ptr <= SLen => ptr \in 1..SLen /\ ptr >= ptr
          BY <1>t, <5>1, SSize
        <5>3. SFit /\ ptr <= SLen => buf[ptr] = line[ptr]
          BY <2>2, <5>2 DEF SParsed, SCut
        <5> QED
          BY <5>1, <5>2, <5>3
      <4>2. SLen \in Nat /\ ptr \in Nat
        BY <1>t, SLine, SSize
      <4> QED
        BY <1>5, <3>1, <4>1, <4>2
    <3>2. CASE cpc \in {"fork", "open", "exec"}
      BY <3>2 DEF SKept
    <3> QED
      BY <1>5, <3>1, <3>2
  <2> QED
    BY <1>1, <1>5, <2>1, <2>3, <2>4 DEF SKept, SBlankRound
<1>6. CASE S!EndOfLine
  <2>1. /\ cpc = "parse" /\ buf[ptr] = S!NUL /\ cpc' = "fork" /\ UNCHANGED <<line, buf, ptr, argv, flag, name>>
    BY <1>6 DEF S!EndOfLine, S!parsed
  <2> QED
    BY <1>5, <2>1 DEF SOpened
<1>7. CASE S!Fork
  <2>1. /\ cpc = "fork" /\ cpc' = "open" /\ UNCHANGED <<line, buf, ptr, argv, flag, name>>
    BY <1>7 DEF S!Fork, S!parsed
  <2> QED
    BY <1>5, <2>1 DEF SOpened
<1>8. CASE S!OpenFiles
  <2>1. /\ cpc = "open" /\ cpc' = "exec" /\ UNCHANGED <<line, buf, ptr, argv, flag, name>>
        /\ io' = [out |-> IF flag % 4 # 0 THEN name.out ELSE 0,
                  in |-> IF flag >= 4 THEN name.in ELSE 0]
    BY <1>8 DEF S!OpenFiles, S!parsed
  <2>2. SOpened'
    BY <2>1 DEF SOpened
  <2> QED
    BY <1>5, <2>1, <2>2
<1>9. CASE UNCHANGED svars
  <2>1. UNCHANGED <<cpc, line, buf, ptr, argv, flag, name, io>>
    BY <1>9 DEF svars
  <2>2. SOpened'
    BY <2>1 DEF SKept, SOpened
  <2>3. CASE cpc = "read"
    BY <1>1, <1>k, <1>l, <2>1, <2>2, <2>3 DEF SKept, SBlankRound, SClean
  <2>4. CASE cpc # "read"
    <3>1. cpc \in {"parse", "fork", "open", "exec"}
      BY <2>4 DEF SKept, SInv, S!TypeOK
    <3> QED
      BY <1>5, <2>1, <2>2, <3>1
  <2> QED
    BY <2>3, <2>4
<1> QED
  BY <1>2, <1>3, <1>4, <1>6, <1>7, <1>8, <1>9 DEF S!Next

(* The words at the positions T, from the sequence of these in order.      *)
LEMMA SInOrder ==
  ASSUME NEW T \in SUBSET Nat, NEW k \in Nat, NEW s \in [1..k -> T],
         \A m, n \in 1..k : m < n => s[m] < s[n], \A x \in T : \E m \in 1..k : s[m] = x
  PROVE  S!WordsAt(T) = [n \in 1..k |-> SubSeq(line, s[n], S!WordEnd(s[n]))]
<1>1. /\ Cardinality(T) = k
      /\ s = CHOOSE t \in [1..Cardinality(T) -> T] :
               \A m, n \in 1..Cardinality(T) : m < n => t[m] < t[n]
  BY Enumerated
<1>2. S!Cardinality(T) = Cardinality(T)
  BY DEF S!Cardinality, S!IsFiniteSet, Cardinality
<1>3. S!Cardinality(T) = k /\ S!InOrder(T) = s
  BY <1>1, <1>2 DEF S!InOrder
<1> QED
  BY <1>3 DEF S!WordsAt

(* What a caller reads from p on, when the word that holds p is cut off.   *)
LEMMA SText ==
  ASSUME SKept, cpc = "exec", SFit, NEW k \in S!Starts, NEW p \in k..S!WordEnd(k)
  PROVE  S!Text(p) = SubSeq(line, p, S!WordEnd(k))
<1>1. PICK e : e = S!WordEnd(k)
  OBVIOUS
<1>2. /\ line \in S!Lines /\ buf \in [1..S!Size -> S!Chars \cup {S!NUL}] /\ ptr \in Nat
      /\ SCut(buf, ptr) /\ SLen < ptr
  BY SSize DEF SKept, SParsed, SInv, S!TypeOK
<1>3. /\ SLen \in Nat /\ k \in 1..SLen /\ e \in k..SLen /\ p \in k..e
      /\ (\A n \in k..e : line[n] # S!Blank) /\ line \in [1..SLen -> S!Chars]
      /\ S!NUL \notin S!Chars /\ S!Size \in Nat /\ SLen + 4 <= S!Size
  BY <1>1, <1>2, SLine, SWord, SSize
<1>4. /\ \A n \in 1..SLen : line[n] # S!Blank => buf[n] = line[n]
      /\ k < ptr => buf[e + 1] = S!NUL
  BY <1>1, <1>2 DEF SCut
<1>5. buf[e + 1] = S!NUL
  BY <1>2, <1>3, <1>4
<1>6. \A n \in p..e : buf[n] = line[n] /\ buf[n] # S!NUL /\ line[n] \in S!Chars
  <2>1. \A n \in p..e : n \in k..e /\ n \in 1..SLen
    BY <1>3
  <2> QED
    BY <1>3, <1>4, <2>1
<1>7. S!TextEnd(p) = e + 1
  <2> DEFINE T == {n \in p..S!Size : buf[n] = S!NUL}
  <2>1. T \in SUBSET Nat /\ e + 1 \in T
    BY <1>3, <1>5
  <2>2. ASSUME NEW n \in T PROVE e + 1 <= n
    <3>1. n \in p..S!Size /\ n \notin p..e
      BY <1>6
    <3> QED
      BY <1>3, <3>1
  <2>3. S!Min(T) = e + 1
    BY <2>1, <2>2, SMinIs
  <2> QED
    BY <2>3 DEF S!TextEnd
<1>8. PICK m \in Nat : m = e + 1 - p
  BY <1>3
<1>9. \A n \in 1..m : p + n - 1 \in p..e
  BY <1>3, <1>8
<1>10. S!Text(p) = [n \in 1..m |-> line[p + n - 1]]
  <2>1. S!Text(p) = [n \in 1..m |-> buf[p + n - 1]]
    <3>1. S!TextEnd(p) - p = m
      BY <1>3, <1>7, <1>8, SMTT(30)
    <3> QED
      BY <3>1, Zenon DEF S!Text
  <2>2. \A n \in 1..m : buf[p + n - 1] = line[p + n - 1]
    BY <1>6, <1>9
  <2> QED
    BY <2>1, <2>2
<1>11. S!Text(p) \in [1..m -> S!Chars]
  BY <1>6, <1>9, <1>10
<1>12. S!Text(p) \in Seq(S!Chars) /\ Len(S!Text(p)) = m /\ \A n \in 1..m : S!Text(p)[n] = line[p + n - 1]
  BY <1>10, <1>11, FunctionIsSeq
<1>13. /\ SubSeq(line, p, e) \in Seq(S!Chars) /\ Len(SubSeq(line, p, e)) = m
       /\ \A n \in 1..m : SubSeq(line, p, e)[n] = line[p + n - 1]
  <2>1. p \in Int /\ e \in Int /\ p <= e /\ e - p + 1 = m
    BY <1>3, <1>8
  <2> QED
    BY <1>6, <2>1, SubSeqProperties
<1> QED
  BY <1>1, <1>12, <1>13, SeqEqual

(* The words at the first positions of argv, if these are T.               *)
LEMMA SWordsAt ==
  ASSUME SKept, cpc = "exec", SFit, NEW T, T \subseteq S!Starts, NEW k \in 0..Len(argv),
         \A n \in 1..k : argv[n] \in T, \A x \in T : \E n \in 1..k : argv[n] = x
  PROVE  S!WordsAt(T) = [n \in 1..k |-> S!Text(argv[n])]
<1>1. line \in S!Lines /\ argv \in Seq(1..S!Size) /\ SListed(argv, ptr)
  BY DEF SKept, SParsed, SInv, S!TypeOK
<1>2. PICK m : m = Len(argv)
  OBVIOUS
<1>3. k \in Nat /\ k <= m /\ m \in Nat
  BY <1>1, <1>2
<1>4. PICK s \in [1..k -> T] : s = [n \in 1..k |-> argv[n]]
  OBVIOUS
<1>5. \A n \in 1..k : s[n] = argv[n] /\ n \in 1..m
  BY <1>3, <1>4
<1>6. \A n, j \in 1..k : n < j => s[n] < s[j]
  BY <1>1, <1>2, <1>5 DEF SListed
<1>7. \A x \in T : \E n \in 1..k : s[n] = x
  BY <1>5
<1>8. T \in SUBSET Nat
  BY <1>1, SLine
<1>9. S!WordsAt(T) = [n \in 1..k |-> SubSeq(line, s[n], S!WordEnd(s[n]))]
  BY <1>3, <1>6, <1>7, <1>8, SInOrder
<1>10. ASSUME NEW n \in 1..k PROVE SubSeq(line, s[n], S!WordEnd(s[n])) = S!Text(argv[n])
  <2>1. s[n] \in S!Starts
    OBVIOUS
  <2>2. s[n] \in s[n]..S!WordEnd(s[n])
    BY <1>1, <2>1, SWord
  <2> QED
    BY <1>5, <2>1, <2>2, SText
<1> QED
  BY <1>9, <1>10
(* What the arguments are when the command runs.                           *)
LEMMA SOrdered == SKept => S!ArgumentsInOrder
<1> DEFINE side(k) == IF line[k] = "<" THEN "in" ELSE "out"
           Redirected(k) ==
             /\ S!Args = IF S!WordEnd(k) + 1 >= Len(line)
                         THEN Append(S!WordsAt(S!Starts \ {k}), <<>>)
                         ELSE S!WordsAt(S!Starts \ {k})
             /\ io[side(k)] # 0 /\ S!Text(io[side(k)]) = S!Name(k)
             /\ \A other \in {"in", "out"} \ {side(k)} : io[other] = 0
<1> SUFFICES ASSUME SKept, cpc = "exec", S!WellFormed
             PROVE  /\ S!Marked = {} => S!Args = S!WordsAt(S!Starts) /\ io = S!Nowhere
                    /\ \A k \in S!Marked : S!Marked = {k} => Redirected(k)
  BY DEF S!ArgumentsInOrder
<1>1. ASSUME SFit
      PROVE  /\ line \in S!Lines /\ argv \in Seq(1..S!Size) /\ ptr \in Nat /\ SLen < ptr
             /\ SCut(buf, ptr) /\ SListed(argv, ptr) /\ SNamed /\ SOpened
             /\ SLen \in Nat /\ S!Marked \subseteq S!Starts
             /\ \A k \in S!Starts : k \in 1..SLen /\ S!WordEnd(k) \in k..SLen /\ k < ptr
  <2>1. line \in S!Lines /\ argv \in Seq(1..S!Size) /\ ptr \in Nat /\ SLen < ptr
    BY <1>1, SSize DEF SKept, SInv, S!TypeOK
  <2>2. SLen \in Nat /\ S!Marked \subseteq S!Starts
        /\ \A k \in S!Starts : k \in 1..SLen /\ S!WordEnd(k) \in k..SLen
    BY <2>1, SLine, SWord
  <2>3. \A k \in S!Starts : k < ptr
    BY <2>1, <2>2
  <2> QED
    BY <1>1, <2>1, <2>2, <2>3 DEF SKept, SParsed
<1>2. CASE S!Marked = {}
  <2>1. SFit
    BY <1>2 DEF SFit
  <2>2. SWanted = S!Starts
    BY <1>2 DEF SWanted
  <2>3. /\ \A n \in 1..Len(argv) : argv[n] \in S!Starts
        /\ \A x \in S!Starts : \E n \in 1..Len(argv) : argv[n] = x
    BY <1>1, <2>1, <2>2 DEF SListed
  <2>4. Len(argv) \in 0..Len(argv)
    BY <1>1, <2>1
  <2>5. S!WordsAt(S!Starts) = [n \in 1..Len(argv) |-> S!Text(argv[n])]
    BY <2>1, <2>3, <2>4, SWordsAt
  <2>6. io = S!Nowhere
    <3>1. flag = 0 /\ name = S!Nowhere
      BY <1>1, <1>2, <2>1 DEF SNamed
    <3>2. io = [out |-> IF flag % 4 # 0 THEN name.out ELSE 0, in |-> IF flag >= 4 THEN name.in ELSE 0]
      BY <1>1, <2>1 DEF SOpened
    <3> QED
      BY <3>1, <3>2 DEF S!Nowhere
  <2> QED
    BY <1>2, <2>5, <2>6 DEF S!Args
<1>3. ASSUME NEW k \in S!Marked, S!Marked = {k} PROVE Redirected(k)
  <2>1. SFit
    BY <1>3 DEF SFit
  <2>2. PICK e : e = S!WordEnd(k)
    OBVIOUS
  <2>3. PICK at : at = S!NameAt(k)
    OBVIOUS
  <2>4. k \in 1..SLen /\ e \in k..SLen /\ k < ptr /\ at \in k+1..e
    BY <1>1, <2>1, <2>2, <2>3, SMark
  <2>5. /\ e + 2 < ptr
        /\ IF line[k] = "<" THEN flag = 4 /\ name = [in |-> at, out |-> 0]
           ELSE flag \in {1, 2} /\ name = [in |-> 0, out |-> at]
    BY <1>1, <2>1, <2>2, <2>3, <2>4 DEF SNamed
  <2>6. IF line[k] = "<" THEN io = [in |-> at, out |-> 0] ELSE io = [in |-> 0, out |-> at]
    <3>1. io = [out |-> IF flag % 4 # 0 THEN name.out ELSE 0, in |-> IF flag >= 4 THEN name.in ELSE 0]
      BY <1>1, <2>1 DEF SOpened
    <3>2. 4 % 4 = 0 /\ 1 % 4 # 0 /\ 2 % 4 # 0
      OBVIOUS
    <3>3. CASE line[k] = "<"
      BY <2>5, <3>1, <3>2, <3>3
    <3>4. CASE line[k] # "<"
      BY <2>5, <3>1, <3>2, <3>4
    <3> QED
      BY <3>3, <3>4
  <2>7. at # 0 /\ S!Text(at) = S!Name(k)
    <3>1. at \in k..e
      BY <2>4
    <3>2. k \in S!Starts
      BY <1>1, <2>1
    <3> QED
      BY <2>1, <2>2, <2>3, <2>4, <3>1, <3>2, SText DEF S!Name
  <2>8. io[side(k)] # 0 /\ S!Text(io[side(k)]) = S!Name(k)
        /\ \A other \in {"in", "out"} \ {side(k)} : io[other] = 0
    <3>1. CASE line[k] = "<"
      BY <2>6, <2>7, <3>1
    <3>2. CASE line[k] # "<"
      BY <2>6, <2>7, <3>2
    <3> QED
      BY <3>1, <3>2
  <2>9. PICK T : T = S!Starts \ {k}
    OBVIOUS
  <2>10. T \subseteq S!Starts
    BY <2>9
  <2>11. PICK m : m = Len(argv)
    OBVIOUS
  <2>12. /\ m \in Nat
         /\ \A n \in 1..m : argv[n] \in SWanted /\ argv[n] < ptr /\ argv[n] \in Nat
         /\ \A x \in SWanted : x < ptr => \E n \in 1..m : argv[n] = x
         /\ \A j, n \in 1..m : j < n => argv[j] < argv[n]
    <3>1. argv \in Seq(1..S!Size) /\ S!Size \in Nat
      BY <1>1, <2>1, SSize
    <3>2. m \in Nat /\ \A n \in 1..m : argv[n] \in Nat
      BY <2>11, <3>1
    <3> QED
      BY <1>1, <2>1, <2>11, <3>2 DEF SListed
  <2>13. S!Args = [n \in 1..m |-> S!Text(argv[n])]
    BY <2>11 DEF S!Args
  <2>14. CASE e + 1 < SLen
    <3>1. SWanted = T
      <4>1. ~ (e + 2 > SLen)
        BY <1>1, <2>1, <2>4, <2>14
      <4> QED
        BY <1>3, <2>2, <2>9, <4>1 DEF SWanted
    <3>2. /\ \A n \in 1..m : argv[n] \in T
          /\ \A x \in T : \E n \in 1..m : argv[n] = x
      BY <1>1, <2>1, <2>10, <2>12, <3>1
    <3>3. m \in 0..Len(argv)
      BY <2>11, <2>12
    <3>4. S!WordsAt(T) = [n \in 1..m |-> S!Text(argv[n])]
      BY <2>1, <2>10, <3>2, <3>3, SWordsAt
    <3>5. ~ (S!WordEnd(k) + 1 >= Len(line))
      BY <1>1, <2>1, <2>2, <2>4, <2>14 DEF SLen
    <3> QED
      BY <2>8, <2>9, <2>13, <3>4, <3>5
  <2>15. CASE ~ (e + 1 < SLen)
    <3>1. /\ e + 2 > SLen /\ e + 2 \in Nat /\ S!WordEnd(k) + 1 >= Len(line)
      BY <1>1, <2>1, <2>2, <2>4, <2>15 DEF SLen
    <3>2. SWanted = T \cup {e + 2}
      BY <1>3, <2>2, <2>9, <3>1 DEF SWanted
    <3>3. \A x \in T : x \in Nat /\ x < e + 2 /\ x < ptr
      BY <1>1, <2>1, <2>4, <2>10, <3>1
    <3>4. PICK h \in 1..m : argv[h] = e + 2
      BY <2>5, <2>12, <3>2
    <3>5. h = m
      <4>1. ASSUME h < m PROVE FALSE
        <5>1. m \in 1..m /\ argv[h] < argv[m]
          BY <2>12, <4>1
        <5>2. argv[m] \in T \cup {e + 2}
          BY <2>12, <3>2, <5>1
        <5> QED
          BY <3>1, <3>3, <3>4, <5>1, <5>2
      <4> QED
        BY <2>12, <4>1
    <3>6. m - 1 \in 0..Len(argv) /\ m - 1 \in Nat /\ (m - 1) + 1 = m
      BY <2>11, <2>12, <3>5
    <3>7. ASSUME NEW n \in 1..m-1 PROVE argv[n] \in T
      <4>1. n \in 1..m /\ n < m /\ argv[n] < argv[m]
        BY <2>12, <3>5
      <4>2. argv[n] # e + 2
        BY <2>12, <3>1, <3>4, <3>5, <4>1
      <4> QED
        BY <2>12, <3>2, <4>1, <4>2
    <3>8. ASSUME NEW x \in T PROVE \E n \in 1..m-1 : argv[n] = x
      <4>1. PICK n \in 1..m : argv[n] = x
        BY <2>12, <3>2, <3>3
      <4>2. n # m
        BY <3>1, <3>3, <3>4, <3>5, <4>1
      <4>3. n \in 1..m-1
        BY <2>12, <4>2
      <4> QED
        BY <4>1, <4>3
    <3>9. S!WordsAt(T) = [n \in 1..m-1 |-> S!Text(argv[n])]
      BY <2>1, <2>10, <3>6, <3>7, <3>8, SWordsAt
    <3>10. S!Text(argv[m]) = <<>>
      <4>1. e + 2 \in SLen+1..SLen+2 /\ e + 2 \in Nat \ {0} /\ SLen + 4 <= S!Size /\ S!Size \in Nat
        <5>1. SLen <= MaxLine
          BY <1>1, <2>1, SLine
        <5> QED
          BY <1>1, <2>1, <2>4, <3>1, <5>1, SSize
      <4>2. buf[e + 2] = S!NUL
        BY <1>1, <2>1, <4>1 DEF SCut
      <4>3. S!TextEnd(e + 2) = e + 2
        <5> DEFINE U == {n \in e+2..S!Size : buf[n] = S!NUL}
        <5>1. U \in SUBSET Nat /\ e + 2 \in U /\ \A n \in U : e + 2 <= n
          BY <1>1, <2>1, <4>1, <4>2
        <5>2. S!Min(U) = e + 2
          BY <5>1, SMinIs
        <5> QED
          BY <5>2 DEF S!TextEnd
      <4>4. S!TextEnd(e + 2) - (e + 2) = 0
        BY <4>1, <4>3
      <4>5. S!Text(e + 2) = [n \in 1..0 |-> buf[(e + 2) + n - 1]]
        BY <4>4, Zenon DEF S!Text
      <4>6. S!Text(e + 2) = <<>>
        BY <4>5
      <4> QED
        BY <3>4, <3>5, <4>6
    <3>11. S!Args = Append(S!WordsAt(T), <<>>)
      <4> DEFINE X == {S!Text(n) : n \in Nat}
      <4>1. \A n \in 1..m-1 : n \in 1..m
        BY <2>12
      <4>2. S!WordsAt(T) \in [1..m-1 -> X] /\ S!Args \in [1..m -> X]
        BY <2>12, <2>13, <3>9, <4>1
      <4>3. S!Args[m] = <<>> /\ m \in 1..m
        BY <2>12, <2>13, <3>5, <3>10
      <4>4. <<>> \in X
        BY <4>2, <4>3
      <4>5. \A n \in 1..m-1 : S!Args[n] = S!WordsAt(T)[n]
        BY <2>13, <3>9, <4>1
      <4> HIDE DEF X
      <4> QED
        BY <3>6, <4>2, <4>3, <4>4, <4>5, Appended
    <3> QED
      BY <2>8, <2>9, <3>1, <3>11
  <2> QED
    BY <2>14, <2>15
<1> QED
  BY <1>2, <1>3

-----------------------------------------------------------------------------
(* The programs side by side                                               *)

(* Each program keeps its invariant.                                       *)
AllInv == IInv /\ FInv /\ WInv /\ PInv /\ NInv /\ RInv /\ SKept

LEMMA AllInit == StartedInit => AllInv
  BY InitIInv, FInit, WInit, PInit, NInit, RInit, SKeptInit DEF StartedInit, AllInv

(* A step of one program is no step of the others, and starts no other.    *)
LEMMA OneAtATime ==
  ASSUME [StartedNext]_allVars
  PROVE  /\ [Next]_vars /\ [F!Next]_fvars /\ [W!Next]_wvars /\ [P!Next]_pvars
         /\ [N!Next]_nvars /\ [R!Next]_rvars /\ [S!Next]_svars
         /\ program' = program
<1>0. CASE UNCHANGED allVars
  BY <1>0 DEF allVars
<1>1. CASE Reaping(Next)
  BY <1>1 DEF Reaping
<1>2. CASE Forking(F!Next)
  BY <1>2 DEF Forking
<1>3. CASE Wrapping(W!Next)
  BY <1>3 DEF Wrapping
<1>4. CASE Piping(P!Next)
  BY <1>4 DEF Piping
<1>5. CASE Naming(N!Next)
  BY <1>5 DEF Naming
<1>6. CASE Signalling(R!Next)
  BY <1>6 DEF Signalling
<1>7. CASE Prompting(S!Next)
  BY <1>7 DEF Prompting
<1> QED
  BY <1>0, <1>1, <1>2, <1>3, <1>4, <1>5, <1>6, <1>7 DEF StartedNext

LEMMA AllNext == AllInv /\ [StartedNext]_allVars => AllInv'
  BY OneAtATime, NextIInv, FNext, WNext, PNext, NNext, RNext, SKeptNext DEF AllInv

(* All the invariants hold in every reachable state.                       *)
THEOREM AllInvariant == StartedSpec => []AllInv
<1>1. StartedInit => AllInv
  BY AllInit
<1>2. AllInv /\ [StartedNext]_allVars => AllInv'
  BY AllNext
<1> QED
  BY <1>1, <1>2, PTL DEF StartedSpec

(* Every variable keeps its type: no buffer, pipe or book is exceeded; the *)
(* parser of the shells stays within its line's buffer (mini_shell.c,      *)
(* Myshell.c) and Readline within the caller's (wrap.c:132-167).           *)
THEOREM TypesKept == StartedSpec => []AllTypeOK
<1>1. AllInv => AllTypeOK
  BY RTypeOK DEF AllInv, IInv, FInv, WInv, PInv, NInv, SKept, SInv, AllTypeOK
<1> QED
  BY <1>1, AllInvariant, PTL

(* While a child of zombie.c or processServTCP.cpp is a zombie, a SIGCHLD  *)
(* is pending or the handler is to call waitpid, whatever else there is.   *)
THEOREM ZombiesNoticed == StartedSpec => []ZombieNoticed
<1>1. AllInv => ZombieNoticed
  BY DEF AllInv, IInv
<1> QED
  BY <1>1, AllInvariant, PTL

(* The forking servers lose no child before their book overflows, a scan   *)
(* reaps all that had exited when it began, and a connection is held by    *)
(* its own child only (TCP/server.c main2, UNIX/server.c).                 *)
THEOREM ChildrenKept == StartedSpec => []ChildrenInOrder
<1>1. AllInv => ChildrenInOrder
  BY FInOrder DEF AllInv, ChildrenInOrder
<1> QED
  BY <1>1, AllInvariant, PTL

(* Whatever the chunks in which read and write move the bytes, Readn,      *)
(* Writen and Readline lose none and hand none out twice, over all calls   *)
(* on all descriptors; they hand them out in order but that Readn reads    *)
(* past my_read's buffer, from the caller's descriptor but for what that   *)
(* buffer held, and return what they have stored (wrap.c).                 *)
THEOREM BytesKept == StartedSpec => []BytesAccountedFor
<1>1. AllInv => BytesAccountedFor
  BY WAccounted DEF AllInv, BytesAccountedFor
<1> QED
  BY <1>1, AllInvariant, PTL

(* Who sees the end of a pipe has missed nothing that was written to it,   *)
(* and the FIFO loses only what is written after its readers have left.    *)
THEOREM StreamsKept == StartedSpec => []StreamsWhole
<1>1. AllInv => StreamsWhole
  BY PWhole, NOnlyLateLost DEF AllInv, StreamsWhole
<1> QED
  BY <1>1, AllInvariant, PTL

(* Whatever line the shells read, the command gets its words in order and  *)
(* the files of its redirection, if there is one; an empty argument is the *)
(* only thing added (shell.c, Myshell.c, mini_shell.c).                    *)
THEOREM ArgumentsKept == StartedSpec => []ArgumentsInOrder
<1>1. AllInv => ArgumentsInOrder
  BY SOrdered DEF AllInv, ArgumentsInOrder
<1> QED
  BY <1>1, AllInvariant, PTL

(* A run of the handler costs main one increment at most, of a or of b     *)
(* (bite/signal/main.c).                                                   *)
THEOREM OneLost == StartedSpec => []OneLostEach
<1>1. AllInv => OneLostEach
  BY RTypeOK DEF AllInv, OneLostEach
<1> QED
  BY <1>1, AllInvariant, PTL

=============================================================================
