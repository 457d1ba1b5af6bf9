---------------------------- MODULE SocketProofs -----------------------------
(***************************************************************************)
(* The programs around sockets, for any number of clients, descriptors,    *)
(* workers, pids, bytes, requests and pieces of a file: every safety       *)
(* property of SocketPrograms, and that the UDP programs implement         *)
(* RequestReply.  Each program has an inductive invariant of its own       *)
(* (SelInv, TInv, WInv, DInv, UInv), which its own steps keep; the steps   *)
(* of the others do not touch it.                                          *)
(***************************************************************************)
EXTENDS SocketPrograms, Lemmas

-----------------------------------------------------------------------------
(* SelectServer: main of TCP/server.c                                      *)

(* What select has reported is in the set, and a pending connection is     *)
(* still there.                                                            *)
SelListen == pc = "listen" => /\ rset # {} /\ rset \subseteq allset
                              /\ nready = Cardinality(rset)
                              /\ listenfd \in rset => backlog # <<>>

(* The bytes that were read are those of the entry at i.                   *)
SelWrite == pc = "write" => i <= maxi /\ client[i] \in rset

(* No client is answered more than it has sent.                            *)
SelUnderWay(c) == IF pc = "write" /\ At = c THEN n ELSE 0
SelBytes == \A c \in Clients : /\ unread[c] + echoed[c] + SelUnderWay(c) <= sent[c]
                               /\ peer[c] = "up" => unread[c] + echoed[c] + SelUnderWay(c) = sent[c]
                               /\ peer[c] = "away" => sent[c] = 0

SelInv == TypeOK /\ TablesAgree /\ NothingSkipped /\ SelListen /\ SelWrite /\ SelBytes

LEMMA SelConstants == /\ IsFiniteSet(Clients) /\ Nobody \notin Clients
                      /\ FD_SETSIZE \in Nat /\ FD_SETSIZE > 3 /\ listenfd = 3 /\ MaxBytes \in Nat
                      /\ Fds = 4..FD_SETSIZE-1 /\ Slots = 0..FD_SETSIZE-1
  BY SelectServerAssumption DEF listenfd, Fds, Slots

LEMMA SelSets == /\ IsFiniteSet(Fds) /\ Cardinality(Fds) = FD_SETSIZE - 4
                 /\ IsFiniteSet(Slots) /\ Cardinality(Slots) = FD_SETSIZE
                 /\ IsFiniteSet(Fds \cup {listenfd}) /\ Cardinality(Fds \cup {listenfd}) = FD_SETSIZE - 3
<1>1. IsFiniteSet(4..FD_SETSIZE-1) /\ Cardinality(4..FD_SETSIZE-1) = FD_SETSIZE - 4
  BY SelConstants, FS_Interval
<1>2. IsFiniteSet(0..FD_SETSIZE-1) /\ Cardinality(0..FD_SETSIZE-1) = FD_SETSIZE
  BY SelConstants, FS_Interval
<1>3. IsFiniteSet(3..FD_SETSIZE-1) /\ Cardinality(3..FD_SETSIZE-1) = FD_SETSIZE - 3
  BY SelConstants, FS_Interval
<1>4. Fds \cup {listenfd} = 3..FD_SETSIZE-1
  BY SelConstants
<1> QED
  BY <1>1, <1>2, <1>3, <1>4, SelConstants

LEMMA SelMin == ASSUME NEW X \in SUBSET Nat, X # {} PROVE Min(X) \in X /\ \A k \in X : Min(X) <= k
<1>1. PICK m \in X : \A k \in X : m <= k
  BY Least
<1> QED
  BY <1>1 DEF Min

LEMMA SelInit == Init => SelInv
<1> SUFFICES ASSUME Init PROVE SelInv
  OBVIOUS
<1> USE SelConstants DEF Init
<1>1. TypeOK
  BY DEF TypeOK
<1>2. TablesAgree
  BY DEF TablesAgree, Used, Open
<1>3. NothingSkipped /\ SelListen /\ SelWrite
  BY DEF NothingSkipped, SelListen, SelWrite
<1>4. SelBytes
  BY DEF SelBytes, SelUnderWay
<1> QED
  BY <1>1, <1>2, <1>3, <1>4 DEF SelInv

(* The entries from i on that are still to be dealt with.                  *)
SelAhead == {k \in i..maxi : client[k] \in rset}

LEMMA SelFinite == ASSUME TypeOK PROVE IsFiniteSet(SelAhead) /\ Cardinality(SelAhead) \in Nat
<1>1. i \in Int /\ maxi \in Int
  BY SelConstants DEF TypeOK
<1>2. IsFiniteSet(i..maxi)
  BY <1>1, FS_Interval
<1>3. SelAhead \in SUBSET (i..maxi)
  BY DEF SelAhead
<1> QED
  BY <1>2, <1>3, FS_Subset, FS_CardinalityType

(* One entry is passed.                                                    *)
LEMMA SelPassed ==
  ASSUME TypeOK, i' = i + 1, i <= maxi, UNCHANGED <<maxi, rset>>,
         \A k \in Slots : k # i => client'[k] = client[k]
  PROVE  /\ Cardinality(SelAhead') \in Nat /\ Cardinality(SelAhead) \in Nat
         /\ client[i] \in rset => Cardinality(SelAhead') = Cardinality(SelAhead) - 1
         /\ client[i] \notin rset => Cardinality(SelAhead') = Cardinality(SelAhead)
<1>1. i \in Nat /\ maxi \in Int /\ maxi <= FD_SETSIZE - 1
  BY SelConstants DEF TypeOK
<1>2. /\ \A k : k \in i..maxi => k \in Slots
      /\ \A k : k \in i+1..maxi <=> k \in i..maxi /\ k # i
  BY <1>1, SelConstants
<1>3. SelAhead' = {k \in i+1..maxi : client'[k] \in rset}
  BY DEF SelAhead
<1>a. PICK A, B : A = SelAhead /\ B = SelAhead'
  OBVIOUS
<1>4. B \ {i} = A \ {i} /\ i \notin B
  BY <1>a, <1>2, <1>3 DEF SelAhead
<1>5. i \in A <=> client[i] \in rset
  <2>1. i \in i..maxi
    BY <1>1
  <2> QED
    BY <2>1, <1>a DEF SelAhead
<1>6. IsFiniteSet(A)
  BY <1>a, SelFinite
<1>7. /\ Cardinality(A) \in Nat /\ Cardinality(B) \in Nat
      /\ i \notin A => Cardinality(B) = Cardinality(A)
      /\ i \in A => Cardinality(B) = Cardinality(A) - 1
  BY <1>4, <1>6, Moved
<1> QED
  BY <1>a, <1>5, <1>7

(* As many entries as descriptors, if every descriptor has one.            *)
LEMMA SelMatched ==
  ASSUME NEW cl \in [Slots -> Fds \cup {-1}], NEW us, us = {k \in Slots : cl[k] >= 0},
         NEW X, X \subseteq Fds, IsFiniteSet(X),
         X \subseteq {cl[k] : k \in us},
         \A j, k \in us : j # k => cl[j] # cl[k],
         NEW m \in Int, m <= FD_SETSIZE - 1, \A k \in us : k <= m
  PROVE  /\ IsFiniteSet({k \in 0..m : cl[k] \in X})
         /\ Cardinality({k \in 0..m : cl[k] \in X}) = Cardinality(X)
<1> DEFINE K == {k \in 0..m : cl[k] \in X}
           h == [k \in K |-> cl[k]]
<1>1. \A k \in K : k \in Slots /\ k \in us
  BY SelConstants
<1>2. \A x \in X : \E k \in K : cl[k] = x
  <2> SUFFICES ASSUME NEW x \in X PROVE \E k \in K : cl[k] = x
    OBVIOUS
  <2>1. PICK k \in us : cl[k] = x
    OBVIOUS
  <2>2. k \in 0..m
    BY <2>1, SelConstants
  <2> QED
    BY <2>1, <2>2
<1>3. h \in Bijection(K, X)
  <2>1. h \in [K -> X]
    OBVIOUS
  <2>2. \A a, b \in K : h[a] = h[b] => a = b
    BY <1>1
  <2>3. \A x \in X : \E a \in K : h[a] = x
    BY <1>2
  <2> QED
    BY <2>1, <2>2, <2>3 DEF Bijection, Injection, Surjection, IsInjective
<1>4. ExistsBijection(K, X)
  BY <1>3 DEF ExistsBijection
<1>5. IsFiniteSet(K)
  <2>1. IsFiniteSet(0..m) /\ K \in SUBSET (0..m)
    BY FS_Interval
  <2> QED
    BY <2>1, FS_Subset
<1> QED
  BY <1>4, <1>5, FS_Bijection

LEMMA SelTypes ==
  ASSUME SelInv
  PROVE  /\ client \in [Slots -> Fds \cup {-1}]
         /\ maxi \in Int /\ maxi >= -1 /\ maxi <= FD_SETSIZE - 1
         /\ maxfd \in Int /\ maxfd >= 3 /\ maxfd <= FD_SETSIZE - 1
         /\ allset \subseteq Fds \cup {listenfd} /\ rset \subseteq Fds \cup {listenfd}
         /\ nready \in Nat /\ nready <= FD_SETSIZE /\ i \in Nat /\ i <= FD_SETSIZE
         /\ n \in Nat /\ n <= MaxBytes
         /\ pc \in {"select", "listen", "scan", "write"}
         /\ running \in BOOLEAN
         /\ backlog \in Seq(Clients)
         /\ conn \in [Fds -> Clients \cup {Nobody}]
         /\ peer \in [Clients -> {"away", "up", "fin", "rst"}]
         /\ sent \in [Clients -> 0..MaxBytes] /\ unread \in [Clients -> 0..MaxBytes]
         /\ echoed \in [Clients -> 0..MaxBytes]
<1>1. maxi \in -1..FD_SETSIZE-1 /\ maxfd \in listenfd..FD_SETSIZE-1 /\ nready \in 0..FD_SETSIZE
      /\ i \in 0..FD_SETSIZE /\ n \in 0..MaxBytes
  BY DEF SelInv, TypeOK
<1>2. /\ maxi \in Int /\ maxi >= -1 /\ maxi <= FD_SETSIZE - 1
      /\ maxfd \in Int /\ maxfd >= 3 /\ maxfd <= FD_SETSIZE - 1
      /\ nready \in Nat /\ nready <= FD_SETSIZE /\ i \in Nat /\ i <= FD_SETSIZE
      /\ n \in Nat /\ n <= MaxBytes
  BY <1>1, SelConstants
<1> QED
  BY <1>2 DEF SelInv, TypeOK

(* The clients come, send and go.                                          *)
LEMMA SelEnvironment == ASSUME SelInv, Environment PROVE SelInv'
<1>1. UNCHANGED <<client, maxi, maxfd, allset, rset, nready, i, n, pc, running, conn>>
  BY DEF Environment, Connect, Send, CloseClient, Reset, locals
<1>t. /\ peer \in [Clients -> {"away", "up", "fin", "rst"}]
      /\ sent \in [Clients -> 0..MaxBytes] /\ unread \in [Clients -> 0..MaxBytes]
      /\ echoed \in [Clients -> 0..MaxBytes] /\ backlog \in Seq(Clients) /\ MaxBytes \in Nat
      /\ n \in Nat
  BY SelTypes, SelConstants
<1>2. TablesAgree' /\ NothingSkipped' /\ SelWrite'
  BY <1>1 DEF SelInv, TablesAgree, NothingSkipped, SelWrite, Used, Open
<1>w. \A c \in Clients : SelUnderWay(c)' = SelUnderWay(c) /\ SelUnderWay(c) \in Nat
  BY <1>1, <1>t DEF SelUnderWay, At
<1>b. \A c \in Clients : /\ unread[c] + echoed[c] + SelUnderWay(c) <= sent[c]
                         /\ peer[c] = "up" => unread[c] + echoed[c] + SelUnderWay(c) = sent[c]
                         /\ peer[c] = "away" => sent[c] = 0
  BY DEF SelInv, SelBytes
<1>3. PICK c \in Clients : Connect(c) \/ Send(c) \/ CloseClient(c) \/ Reset(c)
  BY DEF Environment
<1>u. ASSUME backlog' = backlog \/ backlog' = Append(backlog, c),
             peer' \in [Clients -> {"away", "up", "fin", "rst"}],
             sent' \in [Clients -> 0..MaxBytes], unread' \in [Clients -> 0..MaxBytes],
             echoed' = echoed,
             \A d \in Clients : d # c => peer'[d] = peer[d] /\ sent'[d] = sent[d] /\ unread'[d] = unread[d],
             /\ unread'[c] + echoed[c] + SelUnderWay(c) <= sent'[c]
             /\ peer'[c] = "up" => unread'[c] + echoed[c] + SelUnderWay(c) = sent'[c]
             /\ peer'[c] # "away"
      PROVE  SelInv'
  <2>0. Append(backlog, c) \in Seq(Clients) /\ Append(backlog, c) # <<>>
    <3>1. backlog \in Seq(Clients)
      BY <1>t
    <3>2. Append(backlog, c) \in Seq(Clients) /\ Len(Append(backlog, c)) = Len(backlog) + 1
          /\ Len(backlog) \in Nat
      BY <3>1
    <3> QED
      BY <3>2
  <2>1. backlog' \in Seq(Clients) /\ (backlog # <<>> => backlog' # <<>>)
    BY <1>u, <1>t, <2>0
  <2>2. TypeOK'
    BY <1>1, <1>u, <1>t, <2>1 DEF SelInv, TypeOK
  <2>3. SelListen'
    BY <1>1, <2>1 DEF SelInv, SelListen
  <2>4. SelBytes'
    BY <1>u, <1>w, <1>b DEF SelBytes
  <2> QED
    BY <1>2, <2>2, <2>3, <2>4 DEF SelInv
<1>c. PICK s, u, e, w : s = sent[c] /\ u = unread[c] /\ e = echoed[c] /\ w = SelUnderWay(c)
  OBVIOUS
<1>d. s \in Nat /\ s <= MaxBytes /\ u \in Nat /\ u <= MaxBytes /\ e \in Nat /\ w \in Nat
  BY <1>c, <1>t, <1>w
<1>4. CASE Connect(c)
  <2>1. /\ peer[c] = "away" /\ peer' = [peer EXCEPT ![c] = "up"] /\ backlog' = Append(backlog, c)
        /\ UNCHANGED <<sent, unread, echoed>>
    BY <1>4 DEF Connect
  <2>2. u + e + w <= s /\ s = 0
    BY <1>b, <1>c, <2>1
  <2>3. u + e + w = s
    BY <2>2, <1>d
  <2>4. unread'[c] + echoed[c] + SelUnderWay(c) <= sent'[c]
    BY <2>1, <2>2, <1>c
  <2>5. unread'[c] + echoed[c] + SelUnderWay(c) = sent'[c]
    BY <2>1, <2>3, <1>c
  <2>6. /\ peer' \in [Clients -> {"away", "up", "fin", "rst"}] /\ peer'[c] # "away"
        /\ \A d \in Clients : d # c => peer'[d] = peer[d]
    BY <2>1, <1>t
  <2> QED
    BY <2>1, <2>4, <2>5, <2>6, <1>t, <1>u
<1>5. CASE Send(c)
  <2>1. /\ peer[c] = "up" /\ s < MaxBytes
        /\ sent' = [sent EXCEPT ![c] = @ + 1] /\ unread' = [unread EXCEPT ![c] = @ + 1]
        /\ UNCHANGED <<peer, backlog, echoed>>
    BY <1>5, <1>c DEF Send
  <2>2. u + e + w = s
    BY <1>b, <1>c, <2>1
  <2>3. /\ s + 1 \in 0..MaxBytes /\ u + 1 \in 0..MaxBytes /\ u + 1 + e + w <= s + 1
        /\ u + 1 + e + w = s + 1
    <3>1. s < MaxBytes /\ MaxBytes \in Nat
      BY <2>1, SelConstants
    <3> QED
      BY <3>1, <2>2, <1>d
  <2>4. sent' \in [Clients -> 0..MaxBytes] /\ unread' \in [Clients -> 0..MaxBytes]
    BY <2>1, <2>3, <1>c, <1>t
  <2>5. sent'[c] = s + 1 /\ unread'[c] = u + 1
    BY <2>1, <1>c, <1>t
  <2>6. \A d \in Clients : d # c => peer'[d] = peer[d] /\ sent'[d] = sent[d] /\ unread'[d] = unread[d]
    BY <2>1, <1>t
  <2>7. /\ unread'[c] + echoed[c] + SelUnderWay(c) <= sent'[c]
        /\ unread'[c] + echoed[c] + SelUnderWay(c) = sent'[c]
    BY <2>3, <2>5, <1>c
  <2>8. /\ echoed' = echoed /\ peer'[c] # "away" /\ backlog' = backlog
        /\ peer' \in [Clients -> {"away", "up", "fin", "rst"}]
    BY <2>1, <1>t
  <2> QED
    BY <2>4, <2>6, <2>7, <2>8, <1>u
<1>6. CASE CloseClient(c)
  <2>1. /\ peer[c] = "up" /\ peer' = [peer EXCEPT ![c] = "fin"]
        /\ UNCHANGED <<sent, unread, backlog, echoed>>
    BY <1>6 DEF CloseClient
  <2> QED
    BY <2>1, <1>b, <1>t, <1>u
<1>7. CASE Reset(c)
  <2>1. /\ peer[c] = "up" /\ peer' = [peer EXCEPT ![c] = "rst"]
        /\ unread' = [unread EXCEPT ![c] = 0]
        /\ UNCHANGED <<sent, backlog, echoed>>
    BY <1>7 DEF Reset
  <2>2. u + e + w <= s
    BY <1>b, <1>c
  <2>3. 0 + e + w <= s /\ 0 \in 0..MaxBytes
    BY <2>2, <1>d, SelConstants
  <2>4. unread' \in [Clients -> 0..MaxBytes] /\ unread'[c] = 0
    BY <2>1, <2>3, <1>t
  <2>5. \A d \in Clients : d # c => peer'[d] = peer[d] /\ sent'[d] = sent[d] /\ unread'[d] = unread[d]
    BY <2>1, <1>t
  <2>6. peer'[c] = "rst" /\ peer' \in [Clients -> {"away", "up", "fin", "rst"}]
    BY <2>1, <1>t
  <2>7. unread'[c] + echoed[c] + SelUnderWay(c) <= sent'[c]
    BY <2>1, <2>3, <2>4, <1>c
  <2> QED
    BY <2>1, <2>4, <2>5, <2>6, <2>7, <1>t, <1>u
<1> QED
  BY <1>3, <1>4, <1>5, <1>6, <1>7

(* The server exits.                                                       *)
LEMMA SelExit == ASSUME SelInv, Exit PROVE SelInv'
<1>1. /\ UNCHANGED <<client, maxi, maxfd, allset, rset, nready, i, n, pc, backlog, conn, peer, sent,
                     unread, echoed>>
      /\ running' = FALSE
  BY DEF Exit, net
<1>2. TypeOK'
  BY <1>1 DEF SelInv, TypeOK
<1>3. TablesAgree' /\ NothingSkipped' /\ SelListen' /\ SelWrite'
  BY <1>1 DEF SelInv, TablesAgree, NothingSkipped, SelListen, SelWrite, Used, Open
<1>4. SelBytes'
  BY <1>1 DEF SelInv, SelBytes, SelUnderWay, At
<1> QED
  BY <1>2, <1>3, <1>4 DEF SelInv

(* select reports what is ready, at least one descriptor.                  *)
LEMMA SelSelect == ASSUME SelInv, Select PROVE SelInv'
<1>t. /\ allset \subseteq Fds \cup {listenfd} /\ FD_SETSIZE \in Nat /\ FD_SETSIZE > 3
      /\ allset \subseteq Open \cup {listenfd}
  BY SelTypes, SelConstants DEF SelInv, TablesAgree
<1>1. /\ pc = "select" /\ pc' = "listen"
      /\ rset' = {fd \in allset : fd <= maxfd /\ Readable(fd)} /\ rset' # {}
      /\ nready' = Cardinality(rset')
      /\ UNCHANGED <<client, maxi, maxfd, allset, i, n, running, backlog, conn, peer, sent, unread,
                     echoed>>
  BY <1>t DEF Select, net
<1>2. rset' \subseteq allset
  BY <1>1
<1>3. nready' \in 0..FD_SETSIZE
  <2>1. rset' \in SUBSET (Fds \cup {listenfd})
    BY <1>2, <1>t
  <2>2. IsFiniteSet(rset') /\ Cardinality(rset') <= FD_SETSIZE - 3
    BY <2>1, SelSets, FS_Subset
  <2>3. Cardinality(rset') \in Nat
    BY <2>2, FS_CardinalityType
  <2> QED
    BY <2>2, <2>3, <1>1, <1>t
<1>4. listenfd \in rset' => backlog # <<>>
  BY <1>1 DEF Readable
<1>5. TypeOK'
  BY <1>1, <1>2, <1>3, <1>t DEF SelInv, TypeOK
<1>6. TablesAgree'
  BY <1>1 DEF SelInv, TablesAgree, Used, Open
<1>7. NothingSkipped' /\ SelListen' /\ SelWrite'
  BY <1>1, <1>2, <1>4 DEF NothingSkipped, SelListen, SelWrite
<1>8. SelBytes'
  BY <1>1 DEF SelInv, SelBytes, SelUnderWay, At
<1> QED
  BY <1>5, <1>6, <1>7, <1>8 DEF SelInv

LEMMA SelNoNewClient == ASSUME SelInv, NoNewClient PROVE SelInv'
<1>t. /\ client \in [Slots -> Fds \cup {-1}] /\ rset \subseteq Fds \cup {listenfd}
      /\ maxi \in Int /\ maxi <= FD_SETSIZE - 1 /\ 0 \in 0..FD_SETSIZE
      /\ IsFiniteSet(Fds)
  BY SelTypes, SelConstants, SelSets
<1>a. /\ {client[k] : k \in Used} = Open /\ allset = Open \cup {listenfd}
      /\ \A j, k \in Used : j # k => client[j] # client[k]
      /\ \A k \in Used : k <= maxi /\ client[k] <= maxfd
  BY DEF SelInv, TablesAgree
<1>1. /\ pc = "listen" /\ listenfd \notin rset /\ i' = 0 /\ pc' = "scan"
      /\ UNCHANGED <<client, maxi, maxfd, allset, rset, nready, n, running, backlog, conn, peer, sent,
                     unread, echoed>>
  BY DEF NoNewClient, net
<1>2. rset # {} /\ rset \subseteq allset /\ nready = Cardinality(rset)
  BY <1>1 DEF SelInv, SelListen
<1>3. rset \subseteq Fds /\ rset \subseteq {client[k] : k \in Used}
  BY <1>1, <1>2, <1>a, <1>t
<1>4. IsFiniteSet(rset)
  <2>1. rset \in SUBSET Fds
    BY <1>3
  <2> QED
    BY <2>1, <1>t, FS_Subset
<1>5. Cardinality({k \in 0..maxi : client[k] \in rset}) = Cardinality(rset)
  <2> PICK cl, us, mm : cl = client /\ us = Used /\ mm = maxi
    OBVIOUS
  <2>1. us = {k \in Slots : cl[k] >= 0}
    BY DEF Used
  <2>2. /\ IsFiniteSet({k \in 0..mm : cl[k] \in rset})
        /\ Cardinality({k \in 0..mm : cl[k] \in rset}) = Cardinality(rset)
    BY <2>1, <1>3, <1>4, <1>a, <1>t, SelMatched
  <2> QED
    BY <2>2
<1>6. Cardinality(rset) \in Nat /\ Cardinality(rset) # 0
  BY <1>2, <1>4, FS_CardinalityType, FS_EmptySet
<1>7. NothingSkipped'
  <2>1. nready' = Cardinality({k \in 0..maxi : client[k] \in rset}) /\ nready' > 0
    BY <1>1, <1>2, <1>5, <1>6
  <2> QED
    BY <2>1, <1>1 DEF NothingSkipped
<1>8. TypeOK'
  BY <1>1, <1>t DEF SelInv, TypeOK
<1>9. TablesAgree'
  BY <1>1 DEF SelInv, TablesAgree, Used, Open
<1>10. SelListen' /\ SelWrite'
  BY <1>1 DEF SelListen, SelWrite
<1>11. SelBytes'
  BY <1>1 DEF SelInv, SelBytes, SelUnderWay, At
<1> QED
  BY <1>7, <1>8, <1>9, <1>10, <1>11 DEF SelInv

(* The entry at i is done with; what Advance does.                         *)
LEMMA SelAdvance ==
  ASSUME SelInv, pc \in {"scan", "write"}, i <= maxi, client[i] \in rset, Advance,
         \A k \in Slots : k # i => client'[k] = client[k], UNCHANGED <<maxi, rset>>
  PROVE  /\ nready' \in 0..FD_SETSIZE /\ i' \in 0..FD_SETSIZE
         /\ pc' \in {"select", "scan"}
         /\ NothingSkipped' /\ SelListen' /\ SelWrite'
<1>1. TypeOK /\ i' = i + 1 /\ nready' = nready - 1 /\ pc' = IF nready' = 0 THEN "select" ELSE "scan"
  BY DEF SelInv, Advance
<1>2. nready = Cardinality(SelAhead) /\ nready > 0
  BY DEF SelInv, NothingSkipped, SelAhead
<1>3. /\ Cardinality(SelAhead') \in Nat /\ Cardinality(SelAhead) \in Nat
      /\ Cardinality(SelAhead') = Cardinality(SelAhead) - 1
  BY <1>1, SelPassed
<1>4. nready' = Cardinality(SelAhead')
  BY <1>1, <1>2, <1>3
<1>5. NothingSkipped'
  <2>1. nready' # 0 => nready' > 0
    BY <1>3, <1>4
  <2> QED
    BY <2>1, <1>1, <1>4 DEF NothingSkipped, SelAhead
<1>6. nready' \in 0..FD_SETSIZE /\ i' \in 0..FD_SETSIZE
  <2>1. /\ nready \in Nat /\ nready <= FD_SETSIZE /\ i \in Nat /\ maxi \in Int
        /\ maxi <= FD_SETSIZE - 1 /\ FD_SETSIZE \in Nat
    BY SelTypes, SelConstants
  <2>2. nready' \in Nat
    BY <1>3, <1>4
  <2> QED
    BY <2>1, <2>2, <1>1
<1> QED
  BY <1>1, <1>5, <1>6 DEF SelListen, SelWrite

(* The connection behind the entry at i is a client's.                     *)
LEMMA SelAt ==
  ASSUME SelInv, i <= maxi, client[i] \in rset
  PROVE  /\ i \in Slots /\ i \in Used /\ client[i] \in Fds /\ client[i] \in Open /\ client[i] # -1
         /\ At \in Clients
<1>1. /\ client \in [Slots -> Fds \cup {-1}] /\ rset \subseteq Fds \cup {listenfd}
      /\ maxi \in Int /\ maxi <= FD_SETSIZE - 1 /\ i \in Nat /\ FD_SETSIZE \in Nat
      /\ conn \in [Fds -> Clients \cup {Nobody}]
  BY SelTypes, SelConstants
<1>2. i \in Slots
  BY <1>1, SelConstants
<1>3. client[i] \in Fds
  <2>1. -1 \notin Fds \cup {listenfd} /\ listenfd \notin Fds
    BY SelConstants
  <2> QED
    BY <1>1, <1>2, <2>1
<1>4. i \in Used /\ client[i] # -1
  <2>1. \A f \in Fds : f >= 0 /\ f # -1
    BY SelConstants
  <2> QED
    BY <2>1, <1>2, <1>3 DEF Used
<1>5. client[i] \in Open
  BY <1>4 DEF SelInv, TablesAgree
<1>6. At \in Clients
  BY <1>1, <1>3, <1>5 DEF At, Open
<1> QED
  BY <1>2, <1>3, <1>4, <1>5, <1>6

LEMMA SelNewClient == ASSUME SelInv, NewClient PROVE SelInv'
<1>c. PICK new, slot : new = Min(Fds \ Open) /\ slot = Min(Slots \ Used)
  OBVIOUS
<1>1. /\ pc = "listen" /\ listenfd \in rset /\ Open # Fds
      /\ conn' = [conn EXCEPT ![new] = Head(backlog)]
      /\ client' = [client EXCEPT ![slot] = new]
      /\ allset' = allset \cup {new}
      /\ maxfd' = (IF new > maxfd THEN new ELSE maxfd)
      /\ maxi' = (IF slot > maxi THEN slot ELSE maxi)
      /\ backlog' = Tail(backlog) /\ nready' = nready - 1 /\ i' = 0
      /\ pc' = (IF nready' = 0 THEN "select" ELSE "scan")
      /\ UNCHANGED <<rset, n, running, peer, sent, unread, echoed>>
  BY <1>c DEF NewClient, NewMaxi, NreadyAfterAccept
<1>t. /\ client \in [Slots -> Fds \cup {-1}]
      /\ maxi \in Int /\ maxi >= -1 /\ maxi <= FD_SETSIZE - 1
      /\ maxfd \in Int /\ maxfd >= 3 /\ maxfd <= FD_SETSIZE - 1
      /\ allset \subseteq Fds \cup {listenfd} /\ rset \subseteq Fds \cup {listenfd}
      /\ backlog \in Seq(Clients) /\ conn \in [Fds -> Clients \cup {Nobody}]
      /\ FD_SETSIZE \in Nat /\ FD_SETSIZE > 3 /\ Nobody \notin Clients
  BY SelTypes, SelConstants
<1>a. /\ {client[k] : k \in Used} = Open /\ allset = Open \cup {listenfd}
      /\ \A j, k \in Used : j # k => client[j] # client[k]
      /\ \A k \in Used : k <= maxi /\ client[k] <= maxfd
  BY DEF SelInv, TablesAgree
<1>l. /\ rset \subseteq allset /\ nready = Cardinality(rset) /\ backlog # <<>>
  BY <1>1 DEF SelInv, SelListen
<1>f. /\ \A f \in Fds : f \in Nat /\ f >= 0 /\ f # 3 /\ f <= FD_SETSIZE - 1
      /\ \A k \in Slots : k \in Nat /\ k <= FD_SETSIZE - 1
      /\ listenfd = 3
  BY SelConstants
<1>2. new \in Fds /\ new \notin Open
  <2>1. Fds \ Open \in SUBSET Nat /\ Fds \ Open # {}
    BY <1>1, <1>f DEF Open
  <2> QED
    BY <2>1, <1>c, SelMin
<1>3. slot \in Slots /\ slot \notin Used
  <2>1. Slots \ Used # {}
    <3> SUFFICES ASSUME Slots \ Used = {} PROVE FALSE
      OBVIOUS
    <3>1. Used = Slots
      BY DEF Used
    <3> DEFINE h == [k \in Slots |-> client[k]]
    <3>2. h \in [Slots -> Fds]
      BY <3>1, <1>a DEF Open
    <3>3. Cardinality(Fds) < Cardinality(Slots)
      BY SelSets, <1>t
    <3>4. PICK j, k \in Slots : j # k /\ h[j] = h[k]
      <4> HIDE DEF h
      <4> QED
        BY <3>2, <3>3, SelSets, FS_PigeonHole
    <3> QED
      BY <3>1, <3>4, <1>a
  <2>2. Slots \ Used \in SUBSET Nat
    BY <1>f
  <2> QED
    BY <2>1, <2>2, <1>c, SelMin
<1>5. Open' = Open \cup {new}
  <2>1. Head(backlog) \in Clients
    BY <1>l, <1>t
  <2> QED
    BY <2>1, <1>1, <1>2, <1>t DEF Open
<1>6. Used' = Used \cup {slot}
  BY <1>1, <1>2, <1>3, <1>t, <1>f DEF Used
<1>7. client' \in [Slots -> Fds \cup {-1}] /\ client'[slot] = new
      /\ \A k \in Used : client'[k] = client[k] /\ k # slot
  BY <1>1, <1>2, <1>3, <1>t DEF Used
<1>8. maxi' \in -1..FD_SETSIZE-1 /\ maxfd' \in listenfd..FD_SETSIZE-1 /\ maxi' >= maxi /\ maxi' >= slot
      /\ maxfd' >= maxfd /\ maxfd' >= new
  <2>1. slot \in Nat /\ slot <= FD_SETSIZE - 1 /\ new \in Nat /\ new <= FD_SETSIZE - 1
        /\ listenfd = 3
    BY <1>2, <1>3, <1>f
  <2>2. maxi' = (IF slot > maxi THEN slot ELSE maxi) /\ maxfd' = (IF new > maxfd THEN new ELSE maxfd)
    BY <1>1
  <2>3. /\ maxi \in Int /\ maxi >= -1 /\ maxi <= FD_SETSIZE - 1 /\ FD_SETSIZE \in Nat
        /\ maxfd \in Int /\ maxfd >= 3 /\ maxfd <= FD_SETSIZE - 1
    BY <1>t
  <2> QED
    BY <2>1, <2>2, <2>3
<1>9. TablesAgree'
  <2>1. {client'[k] : k \in Used'} = Open'
    BY <1>5, <1>6, <1>7, <1>a
  <2>2. \A j, k \in Used' : j # k => client'[j] # client'[k]
    <3>1. \A k \in Used : client[k] # new
      BY <1>2, <1>a
    <3> QED
      BY <3>1, <1>6, <1>7, <1>a
  <2>3. allset' = Open' \cup {listenfd}
    BY <1>1, <1>5, <1>a
  <2>4. \A k \in Used' : k <= maxi' /\ client'[k] <= maxfd'
    <3>1. ASSUME NEW k \in Used PROVE k <= maxi' /\ client'[k] <= maxfd'
      <4>1. k \in Nat /\ client[k] \in Int
        BY <1>a, <1>f DEF Used, Open
      <4>2. k <= maxi /\ client[k] <= maxfd /\ client'[k] = client[k]
        BY <1>7, <1>a
      <4>3. maxi' \in Int /\ maxfd' \in Int
        BY <1>8, <1>f
      <4>4. k <= maxi'
        BY <4>1, <4>2, <4>3, <1>8, <1>t
      <4>5. client[k] <= maxfd'
        BY <4>1, <4>2, <4>3, <1>8, <1>t
      <4> QED
        BY <4>2, <4>4, <4>5
    <3> QED
      BY <3>1, <1>6, <1>7, <1>8
  <2> QED
    BY <2>1, <2>2, <2>3, <2>4 DEF TablesAgree
<1>10. Cardinality({k \in 0..maxi' : client'[k] \in rset}) = nready' /\ nready' \in Nat
  <2> PICK X : X = rset \ {listenfd}
    OBVIOUS
  <2>1. X \subseteq Fds /\ X \subseteq {client[k] : k \in Used} /\ new \notin X
    BY <1>a, <1>l, <1>t, <1>2
  <2>2. X \subseteq {client'[k] : k \in Used'}
    BY <2>1, <1>6, <1>7
  <2>3. IsFiniteSet(X)
    <3>1. X \in SUBSET Fds
      BY <2>1
    <3> QED
      BY <3>1, SelSets, FS_Subset
  <2>4. /\ \A j, k \in Used' : j # k => client'[j] # client'[k]
        /\ \A k \in Used' : k <= maxi'
    BY <1>9 DEF TablesAgree
  <2>5. Cardinality({k \in 0..maxi' : client'[k] \in X}) = Cardinality(X)
    <3> PICK cl, us, mm : cl = client' /\ us = Used' /\ mm = maxi'
      OBVIOUS
    <3>1. us = {k \in Slots : cl[k] >= 0}
      BY DEF Used
    <3>2. /\ cl \in [Slots -> Fds \cup {-1}] /\ X \subseteq {cl[k] : k \in us}
          /\ \A j, k \in us : j # k => cl[j] # cl[k]
          /\ \A k \in us : k <= mm
          /\ mm \in Int /\ mm <= FD_SETSIZE - 1
      BY <1>7, <1>8, <1>t, <2>2, <2>4
    <3>3. /\ IsFiniteSet({k \in 0..mm : cl[k] \in X})
          /\ Cardinality({k \in 0..mm : cl[k] \in X}) = Cardinality(X)
      BY <3>1, <3>2, <2>1, <2>3, SelMatched
    <3> QED
      BY <3>3
  <2>6. Cardinality(rset) = Cardinality(X) + 1 /\ Cardinality(X) \in Nat
    BY <2>3, <1>1, Moved
  <2>7. \A k \in 0..maxi' : client'[k] \in rset <=> client'[k] \in X
    <3>1. \A k \in 0..maxi' : k \in Slots
      BY <1>8, SelConstants
    <3>2. \A k \in Slots : client'[k] # listenfd
      BY <1>7, <1>f
    <3> QED
      BY <3>1, <3>2
  <2>8. {k \in 0..maxi' : client'[k] \in rset} = {k \in 0..maxi' : client'[k] \in X}
    BY <2>7
  <2>9. nready' = Cardinality(X)
    BY <2>6, <1>1, <1>l
  <2> QED
    BY <2>5, <2>6, <2>8, <2>9
<1>11. NothingSkipped' /\ SelListen' /\ SelWrite'
  <2>1. nready' # 0 => nready' > 0
    BY <1>10
  <2> QED
    BY <2>1, <1>1, <1>10 DEF NothingSkipped, SelListen, SelWrite
<1>12. TypeOK'
  <2>1. backlog' \in Seq(Clients) /\ Head(backlog) \in Clients
    BY <1>1, <1>l, <1>t
  <2>2. conn' \in [Fds -> Clients \cup {Nobody}]
    BY <2>1, <1>1, <1>t
  <2>3. nready' \in 0..FD_SETSIZE /\ 0 \in 0..FD_SETSIZE
    <3>1. nready \in Nat /\ nready <= FD_SETSIZE /\ nready' = nready - 1
      BY <1>1, SelTypes
    <3> QED
      BY <3>1, <1>10, <1>t
  <2>4. allset' \subseteq Fds \cup {listenfd}
    BY <1>1, <1>2, <1>t
  <2>5. pc' \in {"select", "listen", "scan", "write"}
    BY <1>1
  <2> QED
    BY <2>1, <2>2, <2>3, <2>4, <2>5, <1>1, <1>7, <1>8 DEF SelInv, TypeOK
<1>13. SelBytes'
  <2>1. pc # "write" /\ pc' # "write"
    BY <1>1
  <2>2. \A c : SelUnderWay(c) = 0 /\ SelUnderWay(c)' = 0
    BY <2>1 DEF SelUnderWay
  <2> QED
    BY <2>2, <1>1 DEF SelInv, SelBytes
<1> QED
  BY <1>9, <1>11, <1>12, <1>13 DEF SelInv

LEMMA SelSkip == ASSUME SelInv, Skip \/ ScanDone PROVE SelInv'
<1>1. UNCHANGED <<client, maxi, maxfd, allset, rset, nready, n, running, backlog, conn, peer, sent,
                 unread, echoed>>
  BY DEF Skip, ScanDone, net
<1>2. TablesAgree'
  BY <1>1 DEF SelInv, TablesAgree, Used, Open
<1>3. pc = "scan" /\ pc' \in {"scan", "select"}
  BY DEF Skip, ScanDone
<1>4. SelBytes'
  <2>1. \A c : SelUnderWay(c) = 0 /\ SelUnderWay(c)' = 0
    BY <1>3 DEF SelUnderWay
  <2> QED
    BY <2>1, <1>1 DEF SelInv, SelBytes
<1>5. SelListen' /\ SelWrite'
  BY <1>3 DEF SelListen, SelWrite
<1>6. i' \in 0..FD_SETSIZE
  <2>1. /\ i \in Nat /\ i <= FD_SETSIZE /\ maxi \in Int /\ maxi <= FD_SETSIZE - 1
        /\ FD_SETSIZE \in Nat
    BY SelTypes, SelConstants
  <2>2. i' = i \/ (i' = i + 1 /\ i <= maxi)
    BY DEF Skip, ScanDone
  <2> QED
    BY <2>1, <2>2
<1>7. TypeOK'
  BY <1>1, <1>3, <1>6 DEF SelInv, TypeOK
<1>8. NothingSkipped'
  <2>1. CASE ScanDone
    BY <2>1 DEF ScanDone, NothingSkipped
  <2>2. CASE Skip
    <3>1. i' = i + 1 /\ i <= maxi /\ client[i] \notin rset /\ pc' = "scan"
      BY <2>2, <1>3 DEF Skip
    <3>2. Cardinality(SelAhead') = Cardinality(SelAhead)
      BY <3>1, <1>1, SelPassed DEF SelInv
    <3> QED
      BY <3>1, <3>2, <1>1, <1>3 DEF SelInv, NothingSkipped, SelAhead
  <2> QED
    BY <2>1, <2>2
<1> QED
  BY <1>2, <1>4, <1>5, <1>7, <1>8 DEF SelInv

(* A client that has gone is dropped from all the tables.                  *)
LEMMA SelReadEnd == ASSUME SelInv, ReadEnd PROVE SelInv'
<1>1. /\ pc = "scan" /\ i <= maxi /\ client[i] \in rset
      /\ conn' = [conn EXCEPT ![client[i]] = Nobody]
      /\ allset' = allset \ {client[i]}
      /\ client' = [client EXCEPT ![i] = -1]
      /\ Advance
      /\ UNCHANGED <<maxi, maxfd, rset, n, running, backlog, peer, sent, unread, echoed>>
  BY DEF ReadEnd, Ready
<1>2. i \in Slots /\ i \in Used /\ client[i] \in Fds /\ client[i] \in Open
  BY <1>1, SelAt
<1>t. /\ client \in [Slots -> Fds \cup {-1}] /\ conn \in [Fds -> Clients \cup {Nobody}]
      /\ allset \subseteq Fds \cup {listenfd}
      /\ listenfd \notin Fds /\ ~ (-1 >= 0)
  BY SelTypes, SelConstants
<1>a. /\ {client[k] : k \in Used} = Open /\ allset = Open \cup {listenfd}
      /\ \A j, k \in Used : j # k => client[j] # client[k]
      /\ \A k \in Used : k <= maxi /\ client[k] <= maxfd
  BY DEF SelInv, TablesAgree
<1>3. \A k \in Slots : k # i => client'[k] = client[k]
  BY <1>1, <1>t
<1>4. /\ nready' \in 0..FD_SETSIZE /\ i' \in 0..FD_SETSIZE
      /\ pc' \in {"select", "scan"}
      /\ NothingSkipped' /\ SelListen' /\ SelWrite'
  BY <1>1, <1>3, SelAdvance
<1>5. Open' = Open \ {client[i]}
  BY <1>1, <1>2, <1>t DEF Open
<1>6. Used' = Used \ {i}
  BY <1>1, <1>2, <1>3, <1>t DEF Used
<1>7. TablesAgree'
  <2>1. \A k \in Used' : k \in Slots /\ k \in Used /\ k # i /\ client'[k] = client[k]
    BY <1>3, <1>6 DEF Used
  <2>2. {client'[k] : k \in Used'} = Open'
    BY <2>1, <1>2, <1>5, <1>6, <1>a
  <2>3. allset' = Open' \cup {listenfd}
    BY <1>1, <1>2, <1>5, <1>a, <1>t
  <2>4. \A j, k \in Used' : j # k => client'[j] # client'[k]
    BY <2>1, <1>a
  <2>5. \A k \in Used' : k <= maxi' /\ client'[k] <= maxfd'
    BY <2>1, <1>1, <1>a
  <2> QED
    BY <2>2, <2>3, <2>4, <2>5 DEF TablesAgree
<1>8. TypeOK'
  <2>1. /\ client' \in [Slots -> Fds \cup {-1}] /\ conn' \in [Fds -> Clients \cup {Nobody}]
        /\ allset' \subseteq Fds \cup {listenfd}
    BY <1>1, <1>t
  <2> QED
    BY <2>1, <1>1, <1>4 DEF SelInv, TypeOK
<1>9. SelBytes'
  <2>1. \A c : SelUnderWay(c) = 0 /\ SelUnderWay(c)' = 0
    BY <1>1, <1>4 DEF SelUnderWay
  <2> QED
    BY <2>1, <1>1 DEF SelInv, SelBytes
<1> QED
  BY <1>4, <1>7, <1>8, <1>9 DEF SelInv

(* Some of the bytes are read from the entry at i.                         *)
LEMMA SelReadData == ASSUME SelInv, ReadData PROVE SelInv'
<1>1. /\ pc = "scan" /\ i <= maxi /\ client[i] \in rset /\ pc' = "write"
      /\ UNCHANGED <<client, maxi, maxfd, allset, rset, nready, i, running,
                     backlog, conn, peer, sent, echoed>>
  BY DEF ReadData, Ready
<1>2. PICK k \in 1..unread[At] : n' = k /\ unread' = [unread EXCEPT ![At] = @ - k]
  BY DEF ReadData
<1>3. At \in Clients /\ At' = At
  BY <1>1, SelAt DEF At
<1>c. PICK c : c = At
  OBVIOUS
<1>t. unread \in [Clients -> 0..MaxBytes] /\ MaxBytes \in Nat /\ echoed \in [Clients -> 0..MaxBytes]
      /\ sent \in [Clients -> 0..MaxBytes]
  BY SelTypes, SelConstants
<1>u. PICK u, e : u = unread[c] /\ e = echoed[c]
  OBVIOUS
<1>4. u \in Nat /\ u <= MaxBytes /\ k \in Nat /\ k <= u /\ k <= MaxBytes /\ u - k \in 0..MaxBytes
      /\ k \in 0..MaxBytes /\ e \in Nat
  BY <1>2, <1>3, <1>c, <1>t, <1>u
<1>5. /\ unread' \in [Clients -> 0..MaxBytes] /\ unread'[c] = u - k
      /\ \A d \in Clients : d # c => unread'[d] = unread[d]
  BY <1>2, <1>3, <1>4, <1>c, <1>t, <1>u
<1>6. TypeOK'
  BY <1>1, <1>2, <1>4, <1>5 DEF SelInv, TypeOK
<1>7. TablesAgree'
  BY <1>1 DEF SelInv, TablesAgree, Used, Open
<1>8. NothingSkipped' /\ SelListen' /\ SelWrite'
  BY <1>1 DEF SelInv, NothingSkipped, SelListen, SelWrite
<1>9. SelBytes'
  <2>1. \A d : SelUnderWay(d) = 0
    BY <1>1 DEF SelUnderWay
  <2>2. SelUnderWay(c)' = k /\ \A d : d # c => SelUnderWay(d)' = 0
    BY <1>1, <1>2, <1>3, <1>c DEF SelUnderWay, At
  <2>3. \A d \in Clients : /\ unread[d] + echoed[d] + 0 <= sent[d]
                           /\ peer[d] = "up" => unread[d] + echoed[d] + 0 = sent[d]
                           /\ peer[d] = "away" => sent[d] = 0
    BY <2>1 DEF SelInv, SelBytes
  <2>4. u - k + e + k = u + e + 0
    BY <1>4
  <2>5. /\ unread'[c] + echoed[c] + SelUnderWay(c)' <= sent[c]
        /\ peer[c] = "up" => unread'[c] + echoed[c] + SelUnderWay(c)' = sent[c]
    <3>1. u + e + 0 <= sent[c] /\ (peer[c] = "up" => u + e + 0 = sent[c])
      BY <2>3, <1>3, <1>c, <1>u
    <3> QED
      BY <3>1, <2>2, <2>4, <1>5, <1>u
  <2> QED
    BY <2>2, <2>3, <2>5, <1>1, <1>3, <1>5, <1>c DEF SelBytes
<1> QED
  BY <1>6, <1>7, <1>8, <1>9 DEF SelInv

(* After a reset read fails once.                                          *)
LEMMA SelReadError == ASSUME SelInv, ReadError PROVE SelInv'
<1>1. /\ pc = "scan" /\ i <= maxi /\ client[i] \in rset /\ peer[At] = "rst"
      /\ peer' = [peer EXCEPT ![At] = "fin"] /\ Advance
      /\ UNCHANGED <<client, maxi, maxfd, allset, rset, n, running,
                     backlog, conn, sent, unread, echoed>>
  BY DEF ReadError, Ready
<1>2. /\ nready' \in 0..FD_SETSIZE /\ i' \in 0..FD_SETSIZE
      /\ pc' \in {"select", "scan"}
      /\ NothingSkipped' /\ SelListen' /\ SelWrite'
  BY <1>1, SelAdvance
<1>3. peer' \in [Clients -> {"away", "up", "fin", "rst"}]
      /\ \A c \in Clients : peer'[c] \in {"up", "away"} => peer[c] = peer'[c]
  BY <1>1, SelTypes
<1>4. TypeOK'
  BY <1>1, <1>2, <1>3 DEF SelInv, TypeOK
<1>5. TablesAgree'
  BY <1>1 DEF SelInv, TablesAgree, Used, Open
<1>6. SelBytes'
  <2>1. \A c : SelUnderWay(c) = 0 /\ SelUnderWay(c)' = 0
    BY <1>1, <1>2 DEF SelUnderWay
  <2> QED
    BY <2>1, <1>1, <1>3 DEF SelInv, SelBytes
<1> QED
  BY <1>2, <1>4, <1>5, <1>6 DEF SelInv

(* What was read is written back, or the write fails.                      *)
LEMMA SelWritten == ASSUME SelInv, Write \/ WriteFails PROVE SelInv'
<1>1. /\ pc = "write" /\ n' = 0 /\ Advance
      /\ UNCHANGED <<client, maxi, maxfd, allset, rset, running, backlog, conn, peer, sent, unread>>
  BY DEF Write, WriteFails, net
<1>2. i <= maxi /\ client[i] \in rset
  BY <1>1 DEF SelInv, SelWrite
<1>3. /\ nready' \in 0..FD_SETSIZE /\ i' \in 0..FD_SETSIZE
      /\ pc' \in {"select", "scan"}
      /\ NothingSkipped' /\ SelListen' /\ SelWrite'
  BY <1>1, <1>2, SelAdvance
<1>c. PICK c : c = At
  OBVIOUS
<1>4. c \in Clients
  BY <1>2, <1>c, SelAt
<1>t. /\ unread \in [Clients -> 0..MaxBytes] /\ MaxBytes \in Nat /\ echoed \in [Clients -> 0..MaxBytes]
      /\ sent \in [Clients -> 0..MaxBytes] /\ n \in Nat
  BY SelTypes, SelConstants
<1>5. echoed' = [echoed EXCEPT ![c] = @ + n] \/ (echoed' = echoed /\ peer[c] # "up")
  BY <1>c DEF Write, WriteFails, net
<1>6. SelUnderWay(c) = n /\ (\A d : d # c => SelUnderWay(d) = 0) /\ \A d : SelUnderWay(d)' = 0
  BY <1>1, <1>3, <1>c DEF SelUnderWay
<1>7. /\ unread[c] + echoed[c] + n <= sent[c]
      /\ peer[c] = "up" => unread[c] + echoed[c] + n = sent[c]
      /\ peer[c] = "away" => sent[c] = 0
      /\ \A d \in Clients : d # c => /\ unread[d] + echoed[d] + 0 <= sent[d]
                                     /\ peer[d] = "up" => unread[d] + echoed[d] + 0 = sent[d]
                                     /\ peer[d] = "away" => sent[d] = 0
  BY <1>4, <1>6 DEF SelInv, SelBytes
<1>u. PICK u, e, s, w : u = unread[c] /\ e = echoed[c] /\ s = sent[c] /\ w = n
  OBVIOUS
<1>8. u \in Nat /\ e \in Nat /\ s \in Nat /\ s <= MaxBytes /\ w \in Nat /\ e <= MaxBytes
  BY <1>4, <1>t, <1>u
<1>9. u + e + w <= s
  BY <1>7, <1>u
<1>10. e + w \in 0..MaxBytes /\ e \in 0..MaxBytes /\ u + e + 0 <= s /\ u + (e + w) + 0 = u + e + w
       /\ u + (e + w) + 0 <= s
  <2>1. MaxBytes \in Nat
    BY <1>t
  <2> QED
    BY <2>1, <1>8, <1>9
<1>11. /\ echoed' \in [Clients -> 0..MaxBytes]
       /\ \A d \in Clients : d # c => echoed'[d] = echoed[d]
       /\ echoed'[c] = e + w \/ (echoed'[c] = e /\ peer[c] # "up")
  BY <1>4, <1>5, <1>10, <1>t, <1>u
<1>12. /\ unread[c] + echoed'[c] + 0 <= sent[c]
       /\ peer[c] = "up" => unread[c] + echoed'[c] + 0 = sent[c]
  <2>1. CASE echoed'[c] = e + w
    BY <2>1, <1>7, <1>10, <1>u
  <2>2. CASE echoed'[c] = e /\ peer[c] # "up"
    BY <2>2, <1>10, <1>u
  <2> QED
    BY <2>1, <2>2, <1>11
<1>13. SelBytes'
  BY <1>1, <1>6, <1>7, <1>11, <1>12 DEF SelBytes
<1>14. TypeOK'
  BY <1>1, <1>3, <1>11, <1>t DEF SelInv, TypeOK
<1>15. TablesAgree'
  BY <1>1 DEF SelInv, TablesAgree, Used, Open
<1> QED
  BY <1>3, <1>13, <1>14, <1>15 DEF SelInv

LEMMA SelNext == SelInv /\ [Next]_vars => SelInv'
<1> SUFFICES ASSUME SelInv, [Next]_vars PROVE SelInv'
  OBVIOUS
<1>1. CASE UNCHANGED vars
  <2>1. UNCHANGED <<client, maxi, maxfd, allset, rset, nready, i, n, pc, running, backlog, conn, peer,
                   sent, unread, echoed>>
    BY <1>1 DEF vars, locals, net
  <2>2. TypeOK'
    BY <2>1 DEF SelInv, TypeOK
  <2>3. TablesAgree' /\ NothingSkipped' /\ SelListen' /\ SelWrite'
    BY <2>1 DEF SelInv, TablesAgree, NothingSkipped, SelListen, SelWrite, Used, Open
  <2>4. SelBytes'
    BY <2>1 DEF SelInv, SelBytes, SelUnderWay, At
  <2> QED
    BY <2>2, <2>3, <2>4 DEF SelInv
<1>2. CASE Server
  <2>1. CASE Select \/ NoNewClient \/ NewClient \/ NoDescriptor \/ WriteKills
    BY <2>1, SelSelect, SelNoNewClient, SelNewClient, SelExit DEF NoDescriptor, WriteKills
  <2>2. CASE Skip \/ ScanDone \/ ReadEnd \/ ReadData \/ ReadError \/ Write \/ WriteFails
    BY <2>2, SelSkip, SelReadEnd, SelReadData, SelReadError, SelWritten
  <2> QED
    BY <1>2, <2>1, <2>2 DEF Server
<1> QED
  BY <1>1, <1>2, SelEnvironment DEF Next, Idle

(* The select server ends for want of a descriptor or by a write only.     *)
LEMMA SelEnds ==
  ASSUME SelInv, [Next]_vars, running, ~ running'
  PROVE  Open = Fds \/ (pc = "write" /\ peer[At] # "up")
<1>1. ~ UNCHANGED vars /\ ~ Idle /\ ~ Environment
  BY DEF vars, locals, Idle, Environment, Connect, Send, CloseClient, Reset
<1>2. Server
  BY <1>1 DEF Next
<1>3. ~ Select
  BY DEF Select, SelInv, TablesAgree
<1>4. ~ NoNewClient /\ ~ NewClient /\ ~ Skip /\ ~ ScanDone
  BY DEF NoNewClient, NewClient, Skip, ScanDone
<1>5. ~ ReadEnd /\ ~ ReadData /\ ~ ReadError /\ ~ Write /\ ~ WriteFails
  BY DEF ReadEnd, ReadData, ReadError, Write, WriteFails
<1> QED
  BY <1>2, <1>3, <1>4, <1>5 DEF Server, NoDescriptor, WriteKills

LEMMA SelEchoed == SelInv => EveryByteAccountedFor
<1> SUFFICES ASSUME SelInv, NEW c \in Clients, peer[c] = "up"
             PROVE  sent[c] = unread[c] + echoed[c] + (IF pc = "write" /\ At = c THEN n ELSE 0)
  BY DEF EveryByteAccountedFor
<1> QED
  BY DEF SelInv, SelBytes, SelUnderWay

-----------------------------------------------------------------------------
(* TcpServers: a worker for each client, or one client after the other     *)

(* TcpServers: which of its servers was started.                           *)
TKind == IF program \in TcpPrograms THEN program ELSE "servTCP.cpp"
TForks == TKind \in {"processServTCP.cpp", "Webserver.c"}
TAlone == TKind \in {"main1", "servTCP.cpp"}
TOwner(w) == IF TForks THEN w ELSE Parent

(* No table holds a client that has not connected, or was not accepted.    *)
TFiles == \A c \in TcpClients :
  /\ c \in tbacklog => tclient[c] # "away"
  /\ c \in tbacklog \/ tclient[c] = "away" =>
       \A p \in T!Processes, fd \in Descriptors : files[p][fd] # c

(* As long as accept was never too early: a worker has the descriptor of   *)
(* its client, or is about to read it; nobody else has that client; and    *)
(* the client that main has accepted is nobody's yet.                      *)
TOwns(w) == /\ worker[w] # "start" => T!Conn(w) = mine[w]
            /\ worker[w] = "start" => /\ TKind = "threadServTCP.cpp"
                                      /\ newSockfd \in Descriptors
                                      /\ files[Parent][newSockfd] = mine[w]
            /\ mine[w] = Nobody => TKind = "Webserver.c"
TApart == \A v, w \in T!alive : v # w /\ mine[v] = mine[w] => mine[v] = Nobody
TAccepted == tpc = "start" => \/ newSockfd = -1 /\ TKind = "Webserver.c"
                              \/ /\ newSockfd \in Descriptors
                                 /\ files[Parent][newSockfd] # Nobody
                                 /\ \A w \in T!alive : mine[w] # files[Parent][newSockfd]
TOwn == ~raced => (\A w \in T!alive : TOwns(w)) /\ TApart /\ TAccepted

(* And then a request is received once, before it is answered.             *)
TTurn(w) == /\ worker[w] = "recv" => at[w] = mine[w]
            /\ worker[w] = "send" /\ mine[w] # Nobody =>
                 /\ mine[w] \notin tunread
                 /\ \/ tclient[mine[w]] = "closed"
                    \/ tclient[mine[w]] = "waiting" /\ mine[w] \notin reply
TTalk == ~raced => /\ \A c \in tunread \cup reply : tclient[c] \in {"waiting", "closed"}
                   /\ tunread \cap reply = {}
                   /\ \A w \in T!alive : TTurn(w)

(* Webserver.c: at the loop's beginning one more than were ever alive.     *)
TChildren == {w \in Workers : worker[w] # "none"}
TZombies == TKind = "Webserver.c" =>
  /\ Cardinality(T!alive) <= peak
  /\ Cardinality(TChildren) <= peak + (IF tpc \in {"accept", "start"} THEN 0 ELSE 1)

(* Only Webserver.c calls waitpid.                                         *)
TReaps == tpc = "reap" => TKind = "Webserver.c"

TInv == T!TypeOK /\ TFiles /\ TOwn /\ TTalk /\ TZombies /\ TReaps

LEMMA TConstants ==
  /\ Nobody \notin TcpClients /\ Descriptors \subseteq Nat /\ -1 \notin Descriptors
  /\ IsFiniteSet(Workers) /\ Workers \subseteq Nat /\ Parent \notin Workers
  /\ T!Processes = Workers \cup {Parent}
  /\ \A w \in Workers : w \in T!Processes /\ w # Parent
  /\ Cardinality(Workers) \in Nat
  BY SocketProgramsAssumption, FS_CardinalityType DEF T!Processes

LEMMA TKinds == /\ TKind \in T!Kinds
                /\ T!forks <=> TForks
                /\ T!alone <=> TAlone
                /\ \A w : T!Owner(w) = TOwner(w)
                /\ \A w : T!Conn(w) = IF sockfd[w] \in Descriptors THEN files[TOwner(w)][sockfd[w]]
                                                                    ELSE Nobody
                /\ ~(TForks /\ TAlone) /\ (TKind = "threadServTCP.cpp" => ~TForks /\ ~TAlone)
  BY DEF TKind, TForks, TAlone, TOwner, T!forks, T!alone, T!Owner, T!Conn, T!Kinds, TcpPrograms

LEMMA TCard == \A S : T!Cardinality(S) = Cardinality(S)
  BY DEF T!Cardinality, Cardinality

LEMMA TMin == ASSUME NEW X \in SUBSET Nat, X # {} PROVE T!Min(X) \in X
<1>1. PICK m \in X : \A k \in X : m <= k
  BY Least
<1> QED
  BY <1>1 DEF T!Min

LEMMA TInit == T!Init => TInv
<1> SUFFICES ASSUME T!Init PROVE TInv
  OBVIOUS
<1> USE TConstants, TKinds DEF T!Init
<1>1. T!TypeOK
  <2>1. raced \in BOOLEAN
    BY Zenon
  <2>2. peak \in 0..T!Cardinality(Workers)
    BY TCard
  <2>3. TKind \in T!Kinds /\ tpc \in {"reap", "accept"}
    BY DEF T!Loop
  <2>4. files \in [T!Processes -> [Descriptors -> TcpClients \cup {Nobody}]]
    BY DEF T!Empty
  <2> QED
    BY <2>1, <2>2, <2>3, <2>4 DEF T!TypeOK, TKind
<1>2. TFiles
  BY DEF TFiles, T!Empty
<1>3. T!alive = {} /\ TChildren = {}
  BY DEF T!alive, T!Busy, TChildren
<1>4. TOwn
  BY <1>3 DEF TOwn, TApart, TAccepted, T!Loop
<1>5. TTalk
  BY <1>3 DEF TTalk
<1>6. TZombies
  BY <1>3, FS_EmptySet DEF TZombies
<1>7. TReaps
  BY DEF TReaps, TKind, T!Loop
<1> QED
  BY <1>1, <1>2, <1>4, <1>5, <1>6, <1>7 DEF TInv

LEMMA TTypes ==
  ASSUME TInv
  PROVE  /\ tpc \in {"reap", "accept", "start", "join", "dead"}
         /\ newSockfd \in Descriptors \cup {-1}
         /\ files \in [T!Processes -> [Descriptors -> TcpClients \cup {Nobody}]]
         /\ worker \in [Workers -> {"none", "start", "call", "recv", "send", "close", "zombie"}]
         /\ sockfd \in [Workers -> Descriptors \cup {-1}]
         /\ at \in [Workers -> TcpClients \cup {Nobody}]
         /\ mine \in [Workers -> TcpClients \cup {Nobody}]
         /\ tclient \in [TcpClients -> {"away", "idle", "waiting", "closed"}]
         /\ tbacklog \subseteq TcpClients /\ tunread \subseteq TcpClients /\ reply \subseteq TcpClients
  BY DEF TInv, T!TypeOK

(* The server stays the one that was started.                              *)
LEMMA TSame ==
  ASSUME UNCHANGED program
  PROVE  /\ TKind' = TKind /\ TForks' = TForks /\ TAlone' = TAlone
         /\ \A w : TOwner(w)' = TOwner(w)
         /\ \A w : T!Conn(w)' = IF sockfd'[w] \in Descriptors THEN files'[TOwner(w)][sockfd'[w]]
                                                                ELSE Nobody
         /\ T!Processes' = T!Processes
  BY DEF TKind, TForks, TAlone, TOwner, T!Owner, T!Conn, T!forks, T!Processes

LEMMA TTypeKept == TInv /\ T!Next /\ UNCHANGED program => T!TypeOK'
<1> SUFFICES ASSUME TInv, T!Next, UNCHANGED program PROVE T!TypeOK'
  OBVIOUS
<1>k. /\ Nobody \notin TcpClients /\ Descriptors \subseteq Nat
      /\ T!Processes = Workers \cup {Parent} /\ \A w \in Workers : w \in T!Processes
  BY TConstants
<1>t. /\ tpc \in {"reap", "accept", "start", "join", "dead"}
      /\ newSockfd \in Descriptors \cup {-1}
      /\ files \in [T!Processes -> [Descriptors -> TcpClients \cup {Nobody}]]
      /\ worker \in [Workers -> {"none", "start", "call", "recv", "send", "close", "zombie"}]
      /\ sockfd \in [Workers -> Descriptors \cup {-1}]
      /\ at \in [Workers -> TcpClients \cup {Nobody}]
      /\ mine \in [Workers -> TcpClients \cup {Nobody}]
      /\ tclient \in [TcpClients -> {"away", "idle", "waiting", "closed"}]
      /\ tbacklog \subseteq TcpClients /\ tunread \subseteq TcpClients /\ reply \subseteq TcpClients
  BY TTypes
<1>o. \A w \in Workers : T!Owner(w) \in T!Processes /\ T!Conn(w) \in TcpClients \cup {Nobody}
  <2> SUFFICES ASSUME NEW w \in Workers
               PROVE  T!Owner(w) \in T!Processes /\ T!Conn(w) \in TcpClients \cup {Nobody}
    OBVIOUS
  <2>1. T!Owner(w) = TOwner(w) /\ TOwner(w) \in T!Processes
    BY <1>k, TKinds DEF TOwner
  <2>2. T!Conn(w) = IF sockfd[w] \in Descriptors THEN files[TOwner(w)][sockfd[w]] ELSE Nobody
    BY TKinds
  <2> QED
    BY <1>t, <2>1, <2>2
<1>1. ASSUME tpc' \in {"reap", "accept", "start", "join", "dead"},
             newSockfd' \in Descriptors \cup {-1},
             files' \in [T!Processes -> [Descriptors -> TcpClients \cup {Nobody}]],
             worker' \in [Workers -> {"none", "start", "call", "recv", "send", "close", "zombie"}],
             sockfd' \in [Workers -> Descriptors \cup {-1}],
             at' \in [Workers -> TcpClients \cup {Nobody}],
             mine' \in [Workers -> TcpClients \cup {Nobody}],
             tclient' \in [TcpClients -> {"away", "idle", "waiting", "closed"}],
             tbacklog' \subseteq TcpClients, tunread' \subseteq TcpClients, reply' \subseteq TcpClients
      PROVE  T!TypeOK'
  <2>1. raced' \in BOOLEAN
    <3>1. raced \in BOOLEAN
      BY DEF TInv, T!TypeOK
    <3>2. raced' \in BOOLEAN \/ raced' = raced
      BY Zenon DEF T!Next, T!Main, T!Worker, T!Idle, T!vars, T!main, T!Reap, T!Accept, T!AcceptFails,
                   T!Overwrites, T!Start, T!ForkFails, T!ReadArg, T!Call, T!Receive, T!ReceiveEnd,
                   T!Send, T!SendFails, T!SendKills, T!Close, T!Connect, T!Ask, T!TakeReply,
                   T!CloseClient, T!Gone
    <3> QED
      BY Zenon, <3>1, <3>2
  <2>2. peak' \in 0..T!Cardinality(Workers)
    <3>1. peak \in 0..T!Cardinality(Workers)
      BY DEF TInv, T!TypeOK
    <3>2. ASSUME NEW w \in Workers, T!Start(w) PROVE peak' \in 0..T!Cardinality(Workers)
      <4>1. T!alive \in SUBSET Workers /\ w \notin T!alive
        BY <3>2 DEF T!Start, T!alive, T!Busy
      <4>2. /\ Cardinality(T!alive) \in Nat /\ Cardinality(Workers) \in Nat
            /\ Cardinality(Workers) >= Cardinality(T!alive) + 1
        BY <4>1, TConstants, Grown
      <4>3. peak' = T!Cardinality(T!alive) + 1 \/ peak' = peak
        BY <3>2 DEF T!Start
      <4> QED
        BY <3>1, <4>2, <4>3, TCard
    <3>3. peak' = peak \/ \E w \in Workers : T!Start(w)
      BY Zenon DEF T!Next, T!Main, T!Worker, T!Idle, T!vars, T!main, T!Reap, T!Accept, T!AcceptFails,
                   T!ForkFails, T!ReadArg, T!Call, T!Receive, T!ReceiveEnd,
                   T!Send, T!SendFails, T!SendKills, T!Close, T!Connect, T!Ask, T!TakeReply,
                   T!CloseClient, T!Gone
    <3> QED
      BY <3>1, <3>2, <3>3
  <2>3. TKind' \in T!Kinds
    BY TKinds, TSame
  <2> QED
    BY <1>1, <2>1, <2>2, <2>3 DEF T!TypeOK, TKind, T!Kinds, T!Processes
<1>3. CASE T!Reap
  BY <1>1, <1>3, <1>t, <1>k DEF T!Reap, T!net
<1>4. ASSUME NEW c \in TcpClients, T!Accept(c) PROVE T!TypeOK'
  <2>1. newSockfd' \in Descriptors
    <3>1. T!Free \in SUBSET Nat /\ T!Free # {} /\ newSockfd' = T!Min(T!Free) /\ T!Free \subseteq Descriptors
      BY <1>4, <1>k DEF T!Accept, T!Free
    <3> QED
      BY <3>1, TMin
  <2> QED
    BY <1>1, <1>4, <1>t, <1>k, <2>1 DEF T!Accept, T!work
<1>5. CASE T!AcceptFails
  BY <1>1, <1>5, <1>t, <1>k DEF T!AcceptFails, T!work, T!net
<1>6. ASSUME NEW w \in Workers, T!Start(w) PROVE T!TypeOK'
  <2>1. newSockfd # -1 => files[Parent][newSockfd] \in TcpClients \cup {Nobody}
    BY <1>t, <1>k
  <2>2. T!Loop \in {"reap", "accept"}
    BY DEF T!Loop
  <2>3. worker' \in [Workers -> {"none", "start", "call", "recv", "send", "close", "zombie"}]
    BY <1>6, <1>t DEF T!Start
  <2>4. files' \in [T!Processes -> [Descriptors -> TcpClients \cup {Nobody}]]
    BY <1>6, <1>t, <1>k DEF T!Start
  <2>5. /\ sockfd' \in [Workers -> Descriptors \cup {-1}]
        /\ mine' \in [Workers -> TcpClients \cup {Nobody}]
    BY <1>6, <1>t, <2>1 DEF T!Start
  <2>6. tpc' \in {"reap", "accept", "start", "join", "dead"} /\ UNCHANGED <<newSockfd, at, T!net>>
    BY <1>6, <2>2 DEF T!Start
  <2> QED
    BY <1>1, <1>t, <2>3, <2>4, <2>5, <2>6 DEF T!net
<1>7. CASE T!ForkFails
  BY <1>1, <1>7, <1>t, <1>k DEF T!ForkFails, T!Loop, T!Empty, T!work, T!net
<1>8. ASSUME NEW w \in Workers, T!ReadArg(w) PROVE T!TypeOK'
  BY <1>1, <1>8, <1>t, <1>k DEF T!ReadArg, T!At, T!main, T!net
<1>9. ASSUME NEW w \in Workers, T!Call(w) PROVE T!TypeOK'
  BY <1>1, <1>9, <1>t, <1>o DEF T!Call, T!At, T!main, T!net
<1>10. ASSUME NEW w \in Workers, T!Receive(w) \/ T!ReceiveEnd(w) PROVE T!TypeOK'
  BY <1>1, <1>10, <1>t, <1>o DEF T!Receive, T!ReceiveEnd, T!At, T!main, T!net
<1>e. ASSUME NEW S, T!End(S)
      PROVE  /\ worker' \in [Workers -> {"none", "start", "call", "recv", "send", "close", "zombie"}]
             /\ sockfd' \in [Workers -> Descriptors \cup {-1}]
             /\ at' \in [Workers -> TcpClients \cup {Nobody}]
             /\ mine' \in [Workers -> TcpClients \cup {Nobody}]
  BY <1>e, <1>t DEF T!End
<1>11. ASSUME NEW w \in Workers, T!Send(w) PROVE T!TypeOK'
  <2>1. /\ worker' \in [Workers -> {"none", "start", "call", "recv", "send", "close", "zombie"}]
        /\ sockfd' \in [Workers -> Descriptors \cup {-1}]
        /\ at' \in [Workers -> TcpClients \cup {Nobody}]
        /\ mine' \in [Workers -> TcpClients \cup {Nobody}]
    BY <1>11, <1>t, <1>e DEF T!Send, T!At
  <2>2. tpc' \in {"reap", "accept", "start", "join", "dead"} /\ reply' \subseteq TcpClients
    BY <1>11, <1>t, <1>o DEF T!Send
  <2>3. UNCHANGED <<newSockfd, files, tclient, tbacklog, tunread>>
    BY <1>11 DEF T!Send
  <2> QED
    BY <1>1, <1>t, <2>1, <2>2, <2>3
<1>12. ASSUME NEW w \in Workers, T!SendFails(w) PROVE T!TypeOK'
  BY <1>1, <1>12, <1>t DEF T!SendFails, T!At, T!main, T!net
<1>13. ASSUME NEW w \in Workers, T!SendKills(w) \/ T!Close(w) PROVE T!TypeOK'
  <2>1. /\ worker' \in [Workers -> {"none", "start", "call", "recv", "send", "close", "zombie"}]
        /\ sockfd' \in [Workers -> Descriptors \cup {-1}]
        /\ at' \in [Workers -> TcpClients \cup {Nobody}]
        /\ mine' \in [Workers -> TcpClients \cup {Nobody}]
    BY <1>13, <1>e DEF T!SendKills, T!Close
  <2>2. files' \in [T!Processes -> [Descriptors -> TcpClients \cup {Nobody}]]
    BY <1>13, <1>t, <1>k, <1>o DEF T!SendKills, T!Close, T!Empty
  <2>3. tpc' \in {"reap", "accept", "start", "join", "dead"} /\ UNCHANGED <<newSockfd, T!net>>
    BY <1>13, <1>t DEF T!SendKills, T!Close
  <2> QED
    BY <1>1, <1>t, <2>1, <2>2, <2>3 DEF T!net
<1>14. ASSUME NEW c \in TcpClients,
              T!Connect(c) \/ T!Ask(c) \/ T!TakeReply(c) \/ T!CloseClient(c) \/ T!Gone(c)
       PROVE  T!TypeOK'
  <2>1. tclient' \in [TcpClients -> {"away", "idle", "waiting", "closed"}]
    BY <1>14, <1>t DEF T!Connect, T!Ask, T!TakeReply, T!CloseClient, T!Gone, T!Client
  <2>2. /\ tbacklog' \subseteq TcpClients /\ tunread' \subseteq TcpClients /\ reply' \subseteq TcpClients
        /\ UNCHANGED <<T!main, files, T!work>>
    BY <1>14, <1>t DEF T!Connect, T!Ask, T!TakeReply, T!CloseClient, T!Gone
  <2> QED
    BY <1>1, <1>t, <2>1, <2>2 DEF T!main, T!work
<1>15. CASE T!Idle
  BY <1>1, <1>15, <1>t DEF T!Idle, T!vars, T!main, T!work, T!net
<1> QED
  BY <1>3, <1>4, <1>5, <1>6, <1>7, <1>8, <1>9, <1>10, <1>11, <1>12, <1>13, <1>14, <1>15
     DEF T!Next, T!Main, T!Worker

(* Nobody forgets a descriptor he has, and nobody has one of a client that *)
(* is not there.                                                           *)
LEMMA TFilesKept == TInv /\ T!Next /\ UNCHANGED program => TFiles'
<1> SUFFICES ASSUME TInv, T!Next, UNCHANGED program PROVE TFiles'
  OBVIOUS
<1>k. /\ Nobody \notin TcpClients /\ Descriptors \subseteq Nat
      /\ T!Processes = Workers \cup {Parent} /\ \A w \in Workers : w \in T!Processes
  BY TConstants
<1>t. /\ files \in [T!Processes -> [Descriptors -> TcpClients \cup {Nobody}]]
      /\ tclient \in [TcpClients -> {"away", "idle", "waiting", "closed"}]
      /\ tbacklog \subseteq TcpClients
  BY TTypes
<1>i. TFiles
  BY DEF TInv
<1>s. T!Processes' = T!Processes
  BY TSame
<1>1. ASSUME tclient' = tclient, tbacklog' = tbacklog,
             \A p \in T!Processes, fd \in Descriptors :
               \/ files'[p][fd] = Nobody
               \/ \E q \in T!Processes : files'[p][fd] = files[q][fd]
      PROVE  TFiles'
  BY <1>1, <1>i, <1>k, <1>s DEF TFiles
<1>2. CASE files' = files /\ tclient' = tclient /\ tbacklog' = tbacklog
  BY <1>1, <1>2
<1>3. CASE T!Reap
  <2>1. files' = files \/ \E w \in Descriptors : files' = [files EXCEPT ![Parent][w] = Nobody]
    BY <1>3 DEF T!Reap
  <2> QED
    BY <1>1, <1>3, <1>k, <1>t, <2>1 DEF T!Reap, T!net
<1>4. ASSUME NEW c \in TcpClients, T!Accept(c) PROVE TFiles'
  <2>1. /\ c \in tbacklog /\ tbacklog' = tbacklog \ {c} /\ tclient' = tclient
        /\ files' = [files EXCEPT ![Parent][newSockfd'] = c]
    BY <1>4 DEF T!Accept
  <2>2. \A p \in T!Processes, fd \in Descriptors : files'[p][fd] = files[p][fd] \/ files'[p][fd] = c
    BY <1>t, <1>k, <2>1
  <2>3. tclient[c] # "away"
    BY <1>i, <2>1 DEF TFiles
  <2> QED
    BY <1>i, <1>s, <2>1, <2>2, <2>3 DEF TFiles
<1>5. ASSUME NEW w \in Workers, T!Start(w) PROVE TFiles'
  <2>1. /\ files' = files \/ files' = [files EXCEPT ![w] = files[Parent]]
        /\ tclient' = tclient /\ tbacklog' = tbacklog
    BY <1>5 DEF T!Start, T!net
  <2>2. \A p \in T!Processes : files'[p] = files[p] \/ files'[p] = files[Parent]
    BY <1>k, <1>t, <2>1
  <2> QED
    BY <1>1, <1>k, <2>1, <2>2
<1>6. CASE T!ForkFails
  <2>1. /\ files' = files \/ files' = [files EXCEPT ![Parent] = T!Empty]
        /\ tclient' = tclient /\ tbacklog' = tbacklog
    BY <1>6 DEF T!ForkFails, T!net
  <2> QED
    BY <1>1, <1>k, <1>t, <2>1 DEF T!Empty
<1>7. ASSUME NEW w \in Workers, T!SendKills(w) \/ T!Close(w) PROVE TFiles'
  <2>1. /\ \/ files' = files
           \/ \E p \in T!Processes : files' = [files EXCEPT ![p] = T!Empty]
           \/ \E fd \in Descriptors : files' = [files EXCEPT ![Parent][fd] = Nobody]
        /\ tclient' = tclient /\ tbacklog' = tbacklog
    BY <1>7, <1>k DEF T!SendKills, T!Close, T!net, T!Owner
  <2> QED
    BY <1>1, <1>k, <1>t, <2>1 DEF T!Empty
<1>8. ASSUME NEW c \in TcpClients, T!Connect(c) PROVE TFiles'
  <2>1. /\ tclient[c] = "away" /\ tclient' = [tclient EXCEPT ![c] = "idle"]
        /\ tbacklog' = tbacklog \cup {c} /\ files' = files
    BY <1>8 DEF T!Connect, T!Client
  <2>2. tclient'[c] = "idle" /\ \A x \in TcpClients : x # c => tclient'[x] = tclient[x]
    BY <1>t, <2>1
  <2> QED
    BY <1>i, <1>s, <2>1, <2>2 DEF TFiles
<1>9. ASSUME NEW c \in TcpClients, T!Ask(c) \/ T!TakeReply(c) \/ T!CloseClient(c) PROVE TFiles'
  <2>1. /\ tclient[c] # "away" /\ tbacklog' = tbacklog /\ files' = files
        /\ \E to \in {"idle", "waiting", "closed"} : tclient' = [tclient EXCEPT ![c] = to]
    BY <1>9 DEF T!Ask, T!TakeReply, T!CloseClient, T!Client
  <2>2. tclient'[c] # "away" /\ \A x \in TcpClients : x # c => tclient'[x] = tclient[x]
    BY <1>t, <2>1
  <2> QED
    BY <1>i, <1>s, <2>1, <2>2 DEF TFiles
<1>10. ASSUME NEW c \in TcpClients, T!Gone(c) PROVE TFiles'
  <2>1. /\ ~T!Held(c) /\ tclient' = [tclient EXCEPT ![c] = "away"]
        /\ tbacklog' = tbacklog \ {c} /\ files' = files
    BY <1>10 DEF T!Gone, T!Client
  <2>2. \A x \in TcpClients : x # c => tclient'[x] = tclient[x]
    BY <1>t, <2>1
  <2>3. \A p \in T!Processes, fd \in Descriptors : files[p][fd] # c
    BY <1>t, <2>1 DEF T!Held, T!Range
  <2> QED
    BY <1>i, <1>s, <2>1, <2>2, <2>3 DEF TFiles
<1> QED
  BY <1>2, <1>3, <1>4, <1>5, <1>6, <1>7, <1>8, <1>9, <1>10
     DEF T!Next, T!Main, T!Worker, T!Idle, T!AcceptFails, T!ReadArg, T!Call, T!Receive,
         T!ReceiveEnd, T!Send, T!SendFails, T!vars, T!net

LEMMA TZombiesKept == TInv /\ T!Next /\ UNCHANGED program => TZombies'
<1> SUFFICES ASSUME TInv, T!Next, UNCHANGED program, TKind = "Webserver.c"
             PROVE  TZombies'
  BY TSame DEF TZombies
<1>k. TForks /\ ~TAlone /\ T!forks /\ ~T!alone /\ T!Loop = "reap" /\ TKind' = TKind
  BY TSame, TKinds DEF TForks, TAlone, T!Loop, TKind
<1>t. /\ worker \in [Workers -> {"none", "start", "call", "recv", "send", "close", "zombie"}]
      /\ T!alive \in SUBSET TChildren /\ TChildren \in SUBSET Workers
      /\ T!alive = {w \in Workers : worker[w] \notin {"none", "zombie"}}
      /\ T!alive' = {w \in Workers : worker'[w] \notin {"none", "zombie"}}
      /\ TChildren' = {w \in Workers : worker'[w] # "none"}
  BY TTypes DEF T!alive, T!Busy, TChildren
<1>f. /\ IsFiniteSet(TChildren) /\ IsFiniteSet(T!alive)
      /\ Cardinality(TChildren) \in Nat /\ Cardinality(T!alive) \in Nat
  BY <1>t, TConstants, FS_Subset, FS_CardinalityType
<1>i. /\ Cardinality(T!alive) <= peak
      /\ Cardinality(TChildren) <= peak + (IF tpc \in {"accept", "start"} THEN 0 ELSE 1)
      /\ peak \in Nat
  <2>1. peak \in 0..T!Cardinality(Workers)
    BY DEF TInv, T!TypeOK
  <2> QED
    BY <2>1 DEF TInv, TZombies
<1>1. ASSUME T!alive' \subseteq T!alive, TChildren' = TChildren, peak' = peak,
             tpc' \in {"accept", "start"} => tpc \in {"accept", "start"}
      PROVE  TZombies'
  <2>1. Cardinality(T!alive') <= Cardinality(T!alive) /\ Cardinality(T!alive') \in Nat
    BY <1>1, <1>f, FS_Subset, FS_CardinalityType
  <2> QED
    BY <1>1, <1>f, <1>i, <2>1 DEF TZombies
<1>2. CASE UNCHANGED <<worker, peak>> /\ (tpc' \in {"accept", "start"} => tpc \in {"accept", "start"})
  BY <1>1, <1>2, <1>t DEF TChildren
<1>3. CASE T!Reap
  <2>1. /\ tpc' = "accept" /\ peak' = peak /\ tpc = "reap"
        /\ \/ worker' = worker /\ \A w \in Workers : worker[w] # "zombie"
           \/ \E w \in Workers : worker[w] = "zombie" /\ worker' = [worker EXCEPT ![w] = "none"]
    BY <1>3 DEF T!Reap
  <2>2. CASE worker' = worker /\ \A w \in Workers : worker[w] # "zombie"
    <3>1. TChildren' = T!alive /\ T!alive' = T!alive
      BY <1>t, <2>2
    <3> QED
      BY <1>f, <1>i, <2>1, <3>1 DEF TZombies
  <2>3. ASSUME NEW w \in Workers, worker[w] = "zombie", worker' = [worker EXCEPT ![w] = "none"]
        PROVE  TZombies'
    <3>1. worker'[w] = "none" /\ \A v \in Workers : v # w => worker'[v] = worker[v]
      BY <1>t, <2>3
    <3>2. TChildren' = TChildren \ {w} /\ T!alive' = T!alive /\ w \in TChildren
      BY <1>t, <2>3, <3>1 DEF TChildren
    <3>3. Cardinality(TChildren') = Cardinality(TChildren) - 1
      BY <1>f, <3>2, FS_RemoveElement
    <3> QED
      BY <1>f, <1>i, <2>1, <3>2, <3>3 DEF TZombies
  <2> QED
    BY <2>1, <2>2, <2>3
<1>4. CASE T!ForkFails \/ (\E c \in TcpClients : T!Accept(c)) \/ T!AcceptFails
  BY <1>2, <1>4, <1>k DEF T!ForkFails, T!Accept, T!AcceptFails, T!work, T!main
<1>5. ASSUME NEW w \in Workers, T!Start(w) PROVE TZombies'
  <2>1. /\ tpc = "start" /\ tpc' = "reap" /\ worker[w] = "none"
        /\ \E x \in {"start", "call"} : worker' = [worker EXCEPT ![w] = x]
    BY <1>5, <1>k DEF T!Start
  <2>2. peak' = IF peak <= Cardinality(T!alive) THEN Cardinality(T!alive) + 1 ELSE peak
    BY <1>5, TCard DEF T!Start, TKind
  <2>3. worker'[w] \in {"start", "call"} /\ \A v \in Workers : v # w => worker'[v] = worker[v]
    BY <1>t, <2>1
  <2>4. TChildren' = TChildren \cup {w} /\ T!alive' = T!alive \cup {w}
        /\ w \notin TChildren /\ w \notin T!alive
    BY <1>t, <2>1, <2>3 DEF TChildren
  <2>5. /\ Cardinality(TChildren') = Cardinality(TChildren) + 1
        /\ Cardinality(T!alive') = Cardinality(T!alive) + 1
    BY <1>f, <2>4, FS_AddElement
  <2> QED
    BY <1>f, <1>i, <2>1, <2>2, <2>5 DEF TZombies
<1>6. ASSUME NEW w \in Workers, T!At(w, worker[w], worker'[w]), worker[w] \notin {"none", "zombie"},
             worker'[w] \notin {"none", "zombie"}, UNCHANGED <<tpc, peak>>
      PROVE  TZombies'
  <2>1. T!alive' = T!alive /\ TChildren' = TChildren
    BY <1>6, <1>t DEF T!At, TChildren
  <2> QED
    BY <1>1, <1>6, <2>1
<1>7. ASSUME NEW w \in Workers, T!End({w}), worker[w] \in {"send", "close"}, UNCHANGED <<tpc, peak>>
      PROVE  TZombies'
  <2>1. worker'[w] = "zombie" /\ \A v \in Workers : v # w => worker'[v] = worker[v]
    BY <1>7 DEF T!End, TKind
  <2>2. T!alive' \subseteq T!alive /\ TChildren' = TChildren
    BY <1>7, <1>t, <2>1 DEF TChildren
  <2> QED
    BY <1>1, <1>7, <2>2
<1>8. ASSUME NEW w \in Workers, T!Worker(w) PROVE TZombies'
  <2>1. CASE T!Close(w) \/ T!SendKills(w)
    BY <1>7, <1>k, <2>1 DEF T!Close, T!SendKills
  <2>2. CASE T!ReadArg(w) \/ T!Call(w) \/ T!Receive(w) \/ T!ReceiveEnd(w) \/ T!SendFails(w)
    <3>1. \E from \in {"start", "call", "recv", "send"}, to \in {"call", "recv", "send", "close"} :
            worker[w] = from /\ worker' = [worker EXCEPT ![w] = to]
      BY <2>2 DEF T!ReadArg, T!Call, T!Receive, T!ReceiveEnd, T!SendFails, T!At
    <3>2. UNCHANGED <<tpc, peak>>
      BY <2>2 DEF T!ReadArg, T!Call, T!Receive, T!ReceiveEnd, T!SendFails, T!main
    <3> QED
      BY <1>6, <1>t, <3>1, <3>2 DEF T!At
  <2>3. CASE T!Send(w)
    <3>1. /\ worker[w] = "send" /\ worker' = [worker EXCEPT ![w] = "call"] /\ UNCHANGED <<tpc, peak>>
      BY <2>3, <1>k DEF T!Send, T!At, TKind
    <3> QED
      BY <1>6, <1>t, <3>1 DEF T!At
  <2> QED
    BY <1>8, <2>1, <2>2, <2>3 DEF T!Worker
<1>9. ASSUME NEW c \in TcpClients,
             T!Connect(c) \/ T!Ask(c) \/ T!TakeReply(c) \/ T!CloseClient(c) \/ T!Gone(c)
      PROVE  TZombies'
  BY <1>2, <1>9 DEF T!Connect, T!Ask, T!TakeReply, T!CloseClient, T!Gone, T!main, T!work
<1>10. CASE T!Idle
  BY <1>2, <1>10 DEF T!Idle, T!vars, T!main, T!work
<1> QED
  BY <1>3, <1>4, <1>5, <1>8, <1>9, <1>10 DEF T!Next, T!Main

(* A step that leaves the connections of those who go on as they are.      *)
LEMMA TOwnCarried ==
  ASSUME TInv, UNCHANGED <<program, raced, newSockfd>>,
         tpc' = "start" => tpc = "start",
         \A w \in Workers : T!Busy(w)' => /\ T!Busy(w) /\ mine'[w] = mine[w]
                                          /\ worker'[w] = "start" <=> worker[w] = "start"
                                          /\ worker[w] = "start" \/ T!Conn(w)' = T!Conn(w),
         /\ tpc' = "start" \/ \E w \in Workers : worker'[w] = "start"
         /\ newSockfd \in Descriptors
         => files'[Parent][newSockfd] = files[Parent][newSockfd]
  PROVE  TOwn'
<1> SUFFICES ASSUME ~raced PROVE TOwn'
  BY DEF TOwn
<1>i. (\A w \in T!alive : TOwns(w)) /\ TApart /\ TAccepted
  BY DEF TInv, TOwn
<1>k. TKind' = TKind
  BY TSame
<1>a. \A w : (w \in T!alive <=> w \in Workers /\ T!Busy(w)) /\ (w \in T!alive' <=> w \in Workers /\ T!Busy(w)')
  BY DEF T!alive
<1>b. \A w \in T!alive' : w \in T!alive /\ w \in Workers
  BY <1>a
<1>1. ASSUME NEW w \in T!alive' PROVE TOwns(w)'
  <2>1. TOwns(w) /\ mine'[w] = mine[w] /\ (worker'[w] = "start" <=> worker[w] = "start")
        /\ (worker[w] = "start" \/ T!Conn(w)' = T!Conn(w)) /\ w \in Workers
    BY <1>a, <1>b, <1>i
  <2> QED
    BY <1>k, <2>1 DEF TOwns
<1>2. TApart'
  BY <1>a, <1>b, <1>i DEF TApart
<1>3. TAccepted'
  BY <1>a, <1>b, <1>i, <1>k DEF TAccepted
<1> QED
  BY <1>1, <1>2, <1>3 DEF TOwn

LEMMA TOwnKept == TInv /\ T!Next /\ UNCHANGED program => TOwn'
<1> SUFFICES ASSUME TInv, T!Next, UNCHANGED program PROVE TOwn'
  OBVIOUS
<1>k. /\ Nobody \notin TcpClients /\ Descriptors \subseteq Nat /\ -1 \notin Descriptors
      /\ Parent \notin Workers
      /\ T!Processes = Workers \cup {Parent} /\ \A w \in Workers : w \in T!Processes
  BY TConstants
<1>t. /\ tpc \in {"reap", "accept", "start", "join", "dead"}
      /\ newSockfd \in Descriptors \cup {-1}
      /\ files \in [T!Processes -> [Descriptors -> TcpClients \cup {Nobody}]]
      /\ worker \in [Workers -> {"none", "start", "call", "recv", "send", "close", "zombie"}]
      /\ sockfd \in [Workers -> Descriptors \cup {-1}]
      /\ mine \in [Workers -> TcpClients \cup {Nobody}]
      /\ tbacklog \subseteq TcpClients
  BY TTypes
<1>i. (~raced => (\A w \in T!alive : TOwns(w)) /\ TApart /\ TAccepted) /\ TFiles
  BY DEF TInv, TOwn
<1>s. /\ TKind' = TKind
      /\ \A w : T!Conn(w) = IF sockfd[w] \in Descriptors THEN files[TOwner(w)][sockfd[w]] ELSE Nobody
      /\ \A w : T!Conn(w)' = IF sockfd'[w] \in Descriptors THEN files'[TOwner(w)][sockfd'[w]] ELSE Nobody
  BY TKinds, TSame
<1>f. (T!forks <=> TForks) /\ (T!alone <=> TAlone) /\ \A w : T!Owner(w) = TOwner(w)
  BY TKinds
<1>b. \A w : /\ T!Busy(w) <=> worker[w] \notin {"none", "zombie"}
             /\ T!Busy(w)' <=> worker'[w] \notin {"none", "zombie"}
  BY DEF T!Busy
<1>a. \A w : (w \in T!alive <=> w \in Workers /\ T!Busy(w)) /\ (w \in T!alive' <=> w \in Workers /\ T!Busy(w)')
  BY DEF T!alive
<1>0. CASE UNCHANGED <<tpc, newSockfd, files, worker, sockfd, mine, raced>>
  BY <1>0, <1>s, <1>b, TOwnCarried
<1>1. CASE T!Reap
  <2>1. /\ tpc' = "accept" /\ UNCHANGED <<newSockfd, raced, sockfd, mine>>
        /\ \A w \in Workers : T!Busy(w)' => T!Busy(w) /\ worker'[w] = worker[w]
        /\ files' = files \/ \E w \in Descriptors : files' = [files EXCEPT ![Parent][w] = Nobody]
    BY <1>1, <1>b, <1>t DEF T!Reap
  <2>2. TKind = "Webserver.c" /\ TForks
    BY <1>1 DEF T!Reap, TInv, TReaps, TForks
  <2>3. \A w \in Workers : T!Conn(w)' = T!Conn(w)
    <3>1. \A w \in Workers : files'[w] = files[w] /\ TOwner(w) = w
      BY <1>k, <1>t, <2>1, <2>2 DEF TOwner
    <3> QED
      BY <1>s, <2>1, <3>1
  <2>4. raced \/ \A w \in Workers : worker[w] # "start"
    BY <1>i, <1>a, <1>b, <2>2 DEF TOwns
  <2>5. CASE raced
    BY <2>1, <2>5 DEF TOwn
  <2>6. CASE ~raced
    <3>1. \A w \in Workers : worker'[w] # "start"
      BY <1>b, <2>1, <2>4, <2>6
    <3> QED
      BY <2>1, <2>3, <3>1, TOwnCarried
  <2> QED
    BY <2>5, <2>6
<1>2. ASSUME NEW c \in TcpClients, T!Accept(c) PROVE TOwn'
  <2> SUFFICES ASSUME ~raced' PROVE (\A w \in T!alive' : TOwns(w)') /\ TApart' /\ TAccepted'
    BY DEF TOwn
  <2> DEFINE fd == newSockfd'
  <2>1. /\ tpc' = "start" /\ c \in tbacklog /\ fd = T!Min(T!Free) /\ T!Free # {}
        /\ files' = [files EXCEPT ![Parent][fd] = c]
        /\ worker' = worker /\ sockfd' = sockfd /\ mine' = mine
    BY <1>2 DEF T!Accept, T!work
  <2>2. ~raced /\ \A w \in Workers : worker[w] # "start"
    BY Zenon, <1>2 DEF T!Accept, T!Overwrites
  <2>3. fd \in Descriptors /\ files[Parent][fd] = Nobody
    <3>1. T!Free \in SUBSET Nat
      BY <1>k DEF T!Free
    <3>2. fd \in T!Free
      BY <2>1, <3>1, TMin
    <3> QED
      BY <3>2 DEF T!Free
  <2> HIDE DEF fd
  <2>4. /\ files'[Parent][fd] = c
        /\ \A p \in T!Processes, x \in Descriptors : p # Parent \/ x # fd => files'[p][x] = files[p][x]
    BY <1>k, <1>t, <2>1, <2>3
  <2>5. T!alive' = T!alive
    BY <1>a, <1>b, <2>1
  <2>6. ASSUME NEW w \in T!alive
        PROVE  TOwns(w)' /\ mine[w] # c
    <3>1. w \in Workers /\ TOwns(w) /\ T!Conn(w) = mine[w] /\ (mine[w] = Nobody => TKind = "Webserver.c")
      BY <1>a, <1>i, <2>2 DEF TOwns
    <3>2. T!Conn(w)' = T!Conn(w)
      <4>1. CASE sockfd[w] \notin Descriptors
        BY <1>s, <2>1, <4>1
      <4>2. CASE sockfd[w] \in Descriptors /\ TOwner(w) = w
        BY <1>k, <1>s, <2>1, <2>4, <3>1, <4>2
      <4>3. CASE sockfd[w] \in Descriptors /\ TOwner(w) = Parent
        <5>1. TKind # "Webserver.c"
          BY <1>k, <3>1, <4>3 DEF TOwner, TForks
        <5>2. sockfd[w] # fd
          BY <1>s, <2>3, <3>1, <4>3, <5>1
        <5> QED
          BY <1>k, <1>s, <2>1, <2>4, <4>3, <5>2
      <4> QED
        BY <4>1, <4>2, <4>3 DEF TOwner
    <3>3. mine[w] # c
      <4>1. TOwner(w) \in T!Processes
        BY <1>k, <3>1 DEF TOwner
      <4> QED
        BY <1>i, <1>k, <1>s, <2>1, <3>1, <4>1 DEF TFiles
    <3> QED
      BY <1>s, <2>1, <2>2, <3>1, <3>2, <3>3 DEF TOwns
  <2>7. TApart'
    BY <1>i, <2>1, <2>2, <2>5 DEF TApart
  <2>8. TAccepted'
    BY <1>k, <2>1, <2>3, <2>4, <2>5, <2>6 DEF TAccepted, fd
  <2> QED
    BY <2>5, <2>6, <2>7, <2>8
<1>3. CASE T!AcceptFails
  <2> SUFFICES ASSUME ~raced' PROVE (\A w \in T!alive' : TOwns(w)') /\ TApart' /\ TAccepted'
    BY DEF TOwn
  <2>1. /\ tpc' = "start" => TKind = "Webserver.c"
        /\ newSockfd' = -1 /\ files' = files /\ worker' = worker /\ sockfd' = sockfd /\ mine' = mine
    BY <1>3 DEF T!AcceptFails, T!work, TKind
  <2>2. ~raced /\ \A w \in Workers : worker[w] # "start"
    BY Zenon, <1>3 DEF T!AcceptFails, T!Overwrites
  <2>3. T!alive' = T!alive
    BY <1>a, <1>b, <2>1
  <2>4. \A w \in T!alive : TOwns(w)'
    BY <1>a, <1>i, <1>s, <2>1, <2>2 DEF TOwns
  <2>5. TApart'
    BY <1>i, <2>1, <2>2, <2>3 DEF TApart
  <2>6. TAccepted'
    BY <1>s, <2>1 DEF TAccepted
  <2> QED
    BY <2>3, <2>4, <2>5, <2>6
<1>4. ASSUME NEW w \in Workers, T!Start(w) PROVE TOwn'
  <2>1. /\ tpc = "start" /\ worker[w] = "none" /\ tpc' # "start"
        /\ worker' = [worker EXCEPT ![w] = IF TKind = "threadServTCP.cpp" THEN "start" ELSE "call"]
        /\ sockfd' = [sockfd EXCEPT ![w] = newSockfd]
        /\ mine' = [mine EXCEPT ![w] = IF newSockfd = -1 THEN Nobody ELSE files[Parent][newSockfd]]
        /\ files' = IF TForks THEN [files EXCEPT ![w] = files[Parent]] ELSE files
        /\ newSockfd' = newSockfd /\ raced' = raced
    BY <1>4, <1>f DEF T!Start, T!Loop, TKind
  <2> SUFFICES ASSUME ~raced PROVE (\A v \in T!alive' : TOwns(v)') /\ TApart' /\ TAccepted'
    BY <2>1 DEF TOwn
  <2>2. /\ worker'[w] = (IF TKind = "threadServTCP.cpp" THEN "start" ELSE "call")
        /\ sockfd'[w] = newSockfd
        /\ mine'[w] = (IF newSockfd = -1 THEN Nobody ELSE files[Parent][newSockfd])
        /\ \A v \in Workers : v # w => /\ worker'[v] = worker[v] /\ sockfd'[v] = sockfd[v]
                                       /\ mine'[v] = mine[v]
    BY <1>t, <2>1
  <2>3. \A v \in T!alive' : v # w => v \in T!alive /\ v \in Workers
    BY <1>a, <1>b, <2>2
  <2>4. files'[Parent] = files[Parent] /\ (TForks => files'[w] = files[Parent])
        /\ \A v \in Workers : v # w => files'[v] = files[v]
    BY <1>k, <1>t, <2>1
  <2>5. TAccepted
    BY <1>i
  <2>6. ASSUME NEW v \in T!alive', v # w PROVE TOwns(v)'
    <3>1. TOwns(v) /\ v \in Workers
      BY <1>i, <2>3, <2>6
    <3>2. T!Conn(v)' = T!Conn(v)
      BY <1>s, <2>2, <2>4, <2>6, <3>1 DEF TOwner
    <3> QED
      BY <1>s, <2>1, <2>2, <2>4, <2>6, <3>1, <3>2 DEF TOwns
  <2>7. TOwns(w)'
    <3>1. T!Conn(w)' = IF newSockfd \in Descriptors THEN files[Parent][newSockfd] ELSE Nobody
      BY <1>s, <2>2, <2>4 DEF TOwner
    <3>2. T!Conn(w)' = mine'[w]
      BY <1>k, <1>t, <2>2, <3>1
    <3>3. mine'[w] = Nobody => TKind = "Webserver.c"
      BY <1>k, <2>1, <2>2, <2>5 DEF TAccepted
    <3>4. TKind = "threadServTCP.cpp" => newSockfd \in Descriptors
      BY <2>1, <2>5 DEF TAccepted
    <3> QED
      BY <1>k, <1>s, <2>1, <2>2, <2>4, <3>2, <3>3, <3>4 DEF TOwns
  <2>8. TApart'
    <3>1. \A v \in T!alive : mine[v] # mine'[w] \/ mine'[w] = Nobody
      BY <1>k, <2>1, <2>2, <2>5 DEF TAccepted
    <3> QED
      BY <1>a, <1>i, <2>2, <2>3, <3>1 DEF TApart
  <2> QED
    BY <2>1, <2>6, <2>7, <2>8 DEF TAccepted
<1>5. CASE T!ForkFails
  <2>1. /\ TForks /\ tpc' # "start" /\ UNCHANGED <<newSockfd, raced, worker, sockfd, mine>>
        /\ \A w \in Workers : files'[w] = files[w]
    BY <1>5, <1>f, <1>k, <1>t DEF T!ForkFails, T!Loop, T!work
  <2>2. \A w \in Workers : T!Conn(w)' = T!Conn(w)
    BY <1>s, <2>1 DEF TOwner
  <2>3. raced \/ \A w \in Workers : worker[w] # "start"
    BY <1>i, <1>a, <1>b, <2>1 DEF TOwns, TForks
  <2>4. CASE raced
    BY <2>1, <2>4 DEF TOwn
  <2>5. CASE ~raced
    BY <1>b, <2>1, <2>2, <2>3, <2>5, TOwnCarried
  <2> QED
    BY <2>4, <2>5
<1>6. ASSUME NEW w \in Workers, T!ReadArg(w) PROVE TOwn'
  <2>1. /\ worker[w] = "start" /\ worker' = [worker EXCEPT ![w] = "call"]
        /\ sockfd' = [sockfd EXCEPT ![w] = newSockfd]
        /\ UNCHANGED <<tpc, newSockfd, raced, files, mine>>
    BY <1>6 DEF T!ReadArg, T!At, T!main
  <2> SUFFICES ASSUME ~raced PROVE (\A v \in T!alive' : TOwns(v)') /\ TApart' /\ TAccepted'
    BY <2>1 DEF TOwn
  <2>2. /\ worker'[w] = "call" /\ sockfd'[w] = newSockfd
        /\ \A v \in Workers : v # w => worker'[v] = worker[v] /\ sockfd'[v] = sockfd[v]
    BY <1>t, <2>1
  <2>3. T!alive' = T!alive /\ w \in T!alive /\ \A v \in T!alive : v \in Workers
    BY <1>a, <1>b, <2>1, <2>2
  <2>4. ASSUME NEW v \in T!alive, v # w PROVE TOwns(v)'
    <3>1. TOwns(v) /\ T!Conn(v)' = T!Conn(v)
      BY <1>i, <1>s, <2>1, <2>2, <2>3, <2>4
    <3> QED
      BY <1>s, <2>1, <2>2, <2>3, <2>4, <3>1 DEF TOwns
  <2>5. TOwns(w)'
    <3>1. /\ TKind = "threadServTCP.cpp" /\ newSockfd \in Descriptors
          /\ files[Parent][newSockfd] = mine[w] /\ mine[w] # Nobody
      BY <1>i, <2>1, <2>3 DEF TOwns
    <3>2. T!Conn(w)' = mine[w]
      BY <1>s, <2>1, <2>2, <3>1 DEF TOwner, TForks
    <3> QED
      BY <2>1, <2>2, <3>1, <3>2 DEF TOwns
  <2>6. TApart' /\ TAccepted'
    BY <1>i, <1>s, <2>1, <2>3 DEF TApart, TAccepted
  <2> QED
    BY <2>3, <2>4, <2>5, <2>6
<1>7. ASSUME NEW w \in Workers, worker[w] \in {"call", "recv", "send"},
             NEW to \in {"call", "recv", "send", "close"}, worker' = [worker EXCEPT ![w] = to],
             UNCHANGED <<tpc, newSockfd, raced, files, sockfd, mine>>
      PROVE  TOwn'
  <2>1. worker'[w] = to /\ \A v \in Workers : v # w => worker'[v] = worker[v]
    BY <1>7, <1>t
  <2>2. \A v \in Workers : T!Conn(v)' = T!Conn(v)
    BY <1>7, <1>s
  <2> QED
    BY <1>7, <1>b, <2>1, <2>2, TOwnCarried
<1>8. ASSUME NEW w \in Workers, T!Call(w) \/ T!Receive(w) \/ T!ReceiveEnd(w) \/ T!SendFails(w) PROVE TOwn'
  BY <1>7, <1>8 DEF T!Call, T!Receive, T!ReceiveEnd, T!SendFails, T!At, T!main
(* Workers end: those that go on keep what they have.                      *)
<1>e. ASSUME NEW S, T!End(S)
      PROVE  \A v \in Workers : T!Busy(v)' => /\ v \notin S /\ T!Busy(v) /\ worker'[v] = worker[v]
                                              /\ sockfd'[v] = sockfd[v] /\ mine'[v] = mine[v]
  BY <1>b, <1>e DEF T!End
<1>9. ASSUME NEW w \in Workers, T!Send(w) PROVE TOwn'
  <2>1. CASE TKind = "servTCP.cpp"
    <3>1. T!End({w}) /\ tpc' = "accept" /\ UNCHANGED <<newSockfd, raced, files>>
      BY <1>9, <2>1 DEF T!Send, TKind
    <3>2. \A v \in Workers : T!Busy(v)' => T!Busy(v) /\ mine'[v] = mine[v] /\ worker'[v] = worker[v]
                                          /\ T!Conn(v)' = T!Conn(v)
      BY <1>e, <1>s, <3>1
    <3> QED
      BY <3>1, <3>2, TOwnCarried
  <2>2. CASE TKind # "servTCP.cpp"
    BY <1>7, <1>9, <2>2 DEF T!Send, T!At, TKind
  <2> QED
    BY <2>1, <2>2
<1>10. ASSUME NEW w \in Workers, T!SendKills(w) PROVE TOwn'
  <2>1. CASE TForks
    <3>1. /\ T!End({w}) /\ tpc' = tpc /\ files' = [files EXCEPT ![w] = T!Empty]
          /\ UNCHANGED <<newSockfd, raced>>
      BY <1>10, <1>f, <2>1 DEF T!SendKills, TOwner
    <3>2. \A v \in T!Processes : v # w => files'[v] = files[v]
      BY <1>t, <3>1
    <3>3. \A v \in Workers : T!Busy(v)' => T!Busy(v) /\ mine'[v] = mine[v] /\ worker'[v] = worker[v]
                                          /\ T!Conn(v)' = T!Conn(v)
      BY <1>e, <1>k, <1>s, <2>1, <3>1, <3>2 DEF TOwner
    <3> QED
      BY <1>k, <3>1, <3>2, <3>3, TOwnCarried
  <2>2. CASE ~TForks
    <3>1. T!End(Workers) /\ tpc' = "dead" /\ UNCHANGED <<newSockfd, raced>>
      BY <1>10, <1>f, <2>2 DEF T!SendKills
    <3>2. T!alive' = {}
      BY <1>a, <1>e, <3>1
    <3> QED
      BY <3>1, <3>2 DEF TOwn, TApart, TAccepted
  <2> QED
    BY <2>1, <2>2
<1>11. ASSUME NEW w \in Workers, T!Close(w) PROVE TOwn'
  <2>1. /\ worker[w] = "close" /\ T!End({w})
        /\ files' = IF TForks THEN [files EXCEPT ![w] = T!Empty]
                    ELSE IF sockfd[w] \in Descriptors
                         THEN [files EXCEPT ![Parent][sockfd[w]] = Nobody] ELSE files
        /\ tpc' = "accept" \/ tpc' = tpc
        /\ UNCHANGED <<newSockfd, raced>>
    BY <1>11, <1>f DEF T!Close
  <2>2. CASE raced
    BY <2>1, <2>2 DEF TOwn
  <2>3. CASE TForks
    <3>1. \A v \in T!Processes : v # w => files'[v] = files[v]
      BY <1>t, <2>1, <2>3
    <3>2. \A v \in Workers : T!Busy(v)' => T!Busy(v) /\ mine'[v] = mine[v] /\ worker'[v] = worker[v]
                                          /\ T!Conn(v)' = T!Conn(v)
      BY <1>e, <1>k, <1>s, <2>1, <2>3, <3>1 DEF TOwner
    <3> QED
      BY <1>k, <2>1, <3>1, <3>2, TOwnCarried
  <2>4. CASE ~TForks /\ ~raced
    <3>1. w \in T!alive /\ T!Conn(w) = mine[w] /\ mine[w] # Nobody
      BY <1>a, <1>b, <1>i, <2>1, <2>4 DEF TOwns, TForks
    <3>2. sockfd[w] \in Descriptors /\ files[Parent][sockfd[w]] = mine[w]
      BY <1>s, <2>4, <3>1 DEF TOwner
    <3>3. \A x \in Descriptors : x # sockfd[w] => files'[Parent][x] = files[Parent][x]
      BY <1>k, <1>t, <2>1, <2>4
    <3>4. ASSUME NEW v \in Workers, T!Busy(v)'
          PROVE  /\ T!Busy(v) /\ mine'[v] = mine[v] /\ worker'[v] = worker[v]
                 /\ worker[v] = "start" \/ T!Conn(v)' = T!Conn(v)
                 /\ worker[v] = "start" => newSockfd # sockfd[w]
      <4>1. /\ v # w /\ T!Busy(v) /\ worker'[v] = worker[v]
            /\ sockfd'[v] = sockfd[v] /\ mine'[v] = mine[v]
        BY <1>e, <2>1, <3>4
      <4>2. TOwns(v) /\ mine[v] # mine[w] /\ mine[v] # Nobody
        BY <1>a, <1>i, <2>4, <3>1, <4>1 DEF TApart, TOwns, TForks
      <4>3. worker[v] # "start" => sockfd[v] # sockfd[w] /\ sockfd[v] \in Descriptors
        BY <1>s, <2>4, <3>2, <4>2 DEF TOwns, TOwner
      <4>4. worker[v] # "start" => T!Conn(v)' = T!Conn(v)
        BY <1>s, <2>4, <3>3, <4>1, <4>3 DEF TOwner
      <4>5. worker[v] = "start" => newSockfd # sockfd[w]
        BY <3>2, <4>2 DEF TOwns
      <4> QED
        BY <4>1, <4>4, <4>5
    <3>5. tpc' = "start" => newSockfd # sockfd[w]
      <4>1. tpc' = "start" => tpc = "start" /\ TKind # "Webserver.c"
        BY <2>1, <2>4 DEF TForks
      <4> QED
        BY <1>i, <2>4, <3>1, <3>2, <4>1 DEF TAccepted
    <3>6. /\ tpc' = "start" \/ \E v \in Workers : worker'[v] = "start"
          /\ newSockfd \in Descriptors
          => files'[Parent][newSockfd] = files[Parent][newSockfd]
      <4>1. \A v \in Workers : worker'[v] = "start" => newSockfd # sockfd[w]
        BY <1>b, <3>4
      <4> QED
        BY <3>3, <3>5, <4>1
    <3>7. \A v \in Workers : T!Busy(v)' => /\ T!Busy(v) /\ mine'[v] = mine[v]
                                           /\ worker'[v] = "start" <=> worker[v] = "start"
                                           /\ worker[v] = "start" \/ T!Conn(v)' = T!Conn(v)
      BY <3>4
    <3>8. tpc' = "start" => tpc = "start"
      BY <2>1
    <3> QED
      BY <2>1, <3>6, <3>7, <3>8, TOwnCarried
  <2> QED
    BY <2>2, <2>3, <2>4
<1>12. ASSUME NEW c \in TcpClients,
              T!Connect(c) \/ T!Ask(c) \/ T!TakeReply(c) \/ T!CloseClient(c) \/ T!Gone(c)
       PROVE  TOwn'
  BY <1>0, <1>12 DEF T!Connect, T!Ask, T!TakeReply, T!CloseClient, T!Gone, T!main, T!work
<1>13. CASE T!Idle
  BY <1>0, <1>13 DEF T!Idle, T!vars, T!main, T!work
<1> QED
  BY <1>1, <1>2, <1>3, <1>4, <1>5, <1>6, <1>8, <1>9, <1>10, <1>11, <1>12, <1>13
     DEF T!Next, T!Main, T!Worker

LEMMA TTalkKept == TInv /\ T!Next /\ UNCHANGED program => TTalk'
<1> SUFFICES ASSUME TInv, T!Next, UNCHANGED program, ~raced' PROVE TTalk'
  BY DEF TTalk
<1>k. Nobody \notin TcpClients
  BY TConstants
<1>t. /\ worker \in [Workers -> {"none", "start", "call", "recv", "send", "close", "zombie"}]
      /\ sockfd \in [Workers -> Descriptors \cup {-1}]
      /\ at \in [Workers -> TcpClients \cup {Nobody}]
      /\ mine \in [Workers -> TcpClients \cup {Nobody}]
      /\ tclient \in [TcpClients -> {"away", "idle", "waiting", "closed"}]
      /\ tunread \subseteq TcpClients /\ reply \subseteq TcpClients
  BY TTypes
<1>r. ~raced
  BY Zenon DEF T!Next, T!Main, T!Worker, T!Idle, T!vars, T!main, T!Reap, T!Accept, T!AcceptFails,
               T!Overwrites, T!Start, T!ForkFails, T!ReadArg, T!Call, T!Receive, T!ReceiveEnd,
               T!Send, T!SendFails, T!SendKills, T!Close, T!Connect, T!Ask, T!TakeReply,
               T!CloseClient, T!Gone
<1>b. \A w : (w \in T!alive <=> w \in Workers /\ worker[w] \notin {"none", "zombie"})
            /\ (w \in T!alive' <=> w \in Workers /\ worker'[w] \notin {"none", "zombie"})
  BY DEF T!alive, T!Busy
<1>i. /\ \A c \in tunread \cup reply : tclient[c] \in {"waiting", "closed"}
      /\ tunread \cap reply = {}
      /\ \A w \in T!alive : TTurn(w)
  BY <1>r DEF TInv, TTalk
<1>o. /\ \A w \in T!alive : worker[w] # "start" => T!Conn(w) = mine[w]
      /\ \A v, w \in T!alive : v # w /\ mine[v] = mine[w] => mine[v] = Nobody
  BY <1>r DEF TInv, TOwn, TOwns, TApart
(* Whoever receives or sends went on with it.                              *)
<1>1. ASSUME UNCHANGED <<tclient, tunread, reply>>,
             \A w \in Workers : worker'[w] \in {"recv", "send"} =>
               worker'[w] = worker[w] /\ at'[w] = at[w] /\ mine'[w] = mine[w]
      PROVE  TTalk'
  BY <1>1, <1>b, <1>i DEF TTalk, TTurn
<1>2. CASE T!Reap
  <2>1. \A w \in Workers : worker'[w] = worker[w] \/ worker'[w] = "none"
    BY <1>2, <1>t DEF T!Reap
  <2> QED
    BY <1>1, <1>2, <2>1 DEF T!Reap, T!net
<1>3. CASE (\E c \in TcpClients : T!Accept(c)) \/ T!AcceptFails \/ T!ForkFails \/ T!Idle
  BY <1>1, <1>3 DEF T!Accept, T!AcceptFails, T!ForkFails, T!Idle, T!vars, T!work, T!net
<1>4. ASSUME NEW w \in Workers, T!Start(w) PROVE TTalk'
  <2>1. /\ worker'[w] \in {"start", "call"}
        /\ \A v \in Workers : v # w => worker'[v] = worker[v] /\ mine'[v] = mine[v]
        /\ UNCHANGED <<at, tclient, tunread, reply>>
    BY <1>4, <1>t DEF T!Start, T!net
  <2> QED
    BY <1>1, <2>1
<1>5. ASSUME NEW w \in Workers, T!At(w, worker[w], worker'[w]), worker'[w] \in {"call", "close"},
             \A v \in Workers : v # w => at'[v] = at[v], UNCHANGED <<mine, T!net>>
      PROVE  TTalk'
  <2>1. \A v \in Workers : v # w => worker'[v] = worker[v]
    BY <1>5, <1>t DEF T!At
  <2> QED
    BY <1>1, <1>5, <2>1 DEF T!net
<1>6. ASSUME NEW w \in Workers, T!ReadArg(w) \/ T!SendFails(w) PROVE TTalk'
  <2>1. T!At(w, worker[w], worker'[w]) /\ worker'[w] \in {"call", "close"} /\ UNCHANGED <<at, mine, T!net>>
    BY <1>6, <1>t DEF T!ReadArg, T!SendFails, T!At, T!work
  <2> QED
    BY <1>5, <2>1
<1>7. ASSUME NEW w \in Workers, T!Call(w) PROVE TTalk'
  <2>1. /\ worker[w] = "call" /\ worker'[w] \in {"recv", "close"} /\ at'[w] = T!Conn(w)
        /\ \A v \in Workers : v # w => worker'[v] = worker[v] /\ at'[v] = at[v]
        /\ UNCHANGED <<mine, tclient, tunread, reply>>
    BY <1>7, <1>t DEF T!Call, T!At, T!net
  <2>2. at'[w] = mine[w]
    BY <1>b, <1>o, <2>1
  <2>3. \A v \in T!alive' : TTurn(v)'
    BY <1>b, <1>i, <2>1, <2>2 DEF TTurn
  <2> QED
    BY <1>i, <2>1, <2>3 DEF TTalk
(* A request is received, or the end of the connection.                    *)
<1>8. ASSUME NEW w \in Workers, worker[w] = "recv", worker' = [worker EXCEPT ![w] = "send"],
             at' = [at EXCEPT ![w] = Nobody], mine' = mine, tclient' = tclient, reply' = reply,
             tunread' \subseteq tunread, mine[w] # Nobody => mine[w] \notin tunread',
             \/ at[w] \in tunread
             \/ at[w] \in TcpClients /\ tclient[at[w]] = "closed"
      PROVE  TTalk'
  <2>1. /\ worker'[w] = "send"
        /\ \A v \in Workers : v # w => worker'[v] = worker[v] /\ at'[v] = at[v]
    BY <1>8, <1>t
  <2>2. w \in T!alive /\ at[w] = mine[w]
    BY <1>8, <1>b, <1>i DEF TTurn
  <2>3. TTurn(w)'
    BY <1>8, <1>i, <2>1, <2>2 DEF TTurn
  <2>4. \A v \in T!alive' : v # w => TTurn(v)'
    BY <1>8, <1>b, <1>i, <2>1 DEF TTurn
  <2> QED
    BY <1>8, <1>i, <2>3, <2>4 DEF TTalk
<1>9. ASSUME NEW w \in Workers, T!Receive(w) PROVE TTalk'
  <2>1. /\ worker[w] = "recv" /\ worker' = [worker EXCEPT ![w] = "send"]
        /\ at' = [at EXCEPT ![w] = Nobody] /\ at[w] \in tunread /\ tunread' = tunread \ {at[w]}
        /\ mine' = mine /\ tclient' = tclient /\ reply' = reply
    BY <1>9 DEF T!Receive, T!At
  <2>2. at[w] = mine[w]
    BY <2>1, <1>b, <1>i DEF TTurn
  <2> QED
    BY <1>8, <2>1, <2>2
<1>10. ASSUME NEW w \in Workers, T!ReceiveEnd(w) PROVE TTalk'
  <2>1. /\ worker[w] = "recv" /\ at' = [at EXCEPT ![w] = Nobody]
        /\ at[w] \in TcpClients /\ tclient[at[w]] = "closed" /\ at[w] \notin tunread
        /\ UNCHANGED <<mine, T!net>> /\ UNCHANGED <<tclient, reply, tunread>>
    BY <1>10 DEF T!ReceiveEnd, T!At, T!Left, T!net
  <2>2. at[w] = mine[w]
    BY <2>1, <1>b, <1>i DEF TTurn
  <2>3. CASE worker' = [worker EXCEPT ![w] = "send"]
    BY <1>8, <2>1, <2>2, <2>3
  <2>4. CASE worker' = [worker EXCEPT ![w] = "close"]
    <3>1. worker'[w] = "close" /\ T!At(w, worker[w], worker'[w]) /\ \A v \in Workers : v # w => at'[v] = at[v]
      BY <1>t, <2>1, <2>4 DEF T!At
    <3> QED
      BY <1>5, <2>1, <3>1
  <2> QED
    BY <1>10, <2>3, <2>4 DEF T!ReceiveEnd, T!At
<1>e. ASSUME NEW S, T!End(S)
      PROVE  \A v \in Workers : worker'[v] \in {"recv", "send"} =>
               /\ v \notin S /\ worker'[v] = worker[v] /\ at'[v] = at[v] /\ mine'[v] = mine[v]
  BY <1>e DEF T!End
<1>11. ASSUME NEW w \in Workers, T!Send(w) PROVE TTalk'
  <2>1. worker[w] = "send" /\ T!Conn(w) # Nobody /\ reply' = reply \cup {T!Conn(w)}
        /\ UNCHANGED <<tclient, tunread>>
    BY <1>11 DEF T!Send
  <2>2. w \in T!alive /\ T!Conn(w) = mine[w]
    BY <1>b, <1>o, <2>1
  <2>3. /\ mine[w] \notin tunread /\ tclient[mine[w]] \in {"closed", "waiting"}
    BY <1>i, <2>1, <2>2 DEF TTurn
  <2>4. \A v \in Workers : worker'[v] \in {"recv", "send"} =>
          v # w /\ worker'[v] = worker[v] /\ at'[v] = at[v] /\ mine'[v] = mine[v]
    <3>1. CASE T!End({w})
      BY <1>e, <3>1
    <3>2. CASE \E to \in {"close", "call"} : worker' = [worker EXCEPT ![w] = to] /\ UNCHANGED <<at, mine>>
      BY <1>t, <3>2
    <3> QED
      BY <1>11, <3>1, <3>2 DEF T!Send, T!At
  <2>5. \A v \in T!alive' : TTurn(v)'
    BY <1>b, <1>i, <1>o, <2>1, <2>2, <2>4 DEF TTurn
  <2> QED
    BY <1>i, <2>1, <2>2, <2>3, <2>5 DEF TTalk
<1>12. ASSUME NEW w \in Workers, T!SendKills(w) \/ T!Close(w) PROVE TTalk'
  <2>1. (T!End({w}) \/ T!End(Workers)) /\ UNCHANGED <<tclient, tunread, reply>>
    BY <1>12 DEF T!SendKills, T!Close, T!net
  <2>2. \A v \in Workers : worker'[v] \in {"recv", "send"} =>
          worker'[v] = worker[v] /\ at'[v] = at[v] /\ mine'[v] = mine[v]
    BY <1>e, <2>1
  <2> QED
    BY <1>1, <2>1, <2>2
<1>13. ASSUME NEW c \in TcpClients,
              T!Connect(c) \/ T!Ask(c) \/ T!TakeReply(c) \/ T!CloseClient(c) \/ T!Gone(c)
       PROVE  TTalk'
  <2>1. UNCHANGED <<worker, at, mine>>
    BY <1>13 DEF T!Connect, T!Ask, T!TakeReply, T!CloseClient, T!Gone, T!work
  <2>2. T!alive' = T!alive
    BY <1>b, <2>1
  <2>3. \A x \in TcpClients : x # c => tclient'[x] = tclient[x]
    BY <1>13, <1>t DEF T!Connect, T!Ask, T!TakeReply, T!CloseClient, T!Gone, T!Client
  (* The client of a worker that is about to send waits, or has closed.    *)
  <2>4. ASSUME NEW w \in T!alive, worker[w] = "send", mine[w] = c PROVE ~T!Connect(c) /\ ~T!Ask(c) /\ ~T!Gone(c)
    <3>1. tclient[c] \in {"waiting", "closed"}
      BY <1>i, <1>k, <2>4 DEF TTurn
    <3>2. T!Held(c)
      <4>1. T!Conn(w) = c /\ w \in Workers
        BY <1>b, <1>o, <2>4
      <4>2. sockfd[w] \in Descriptors /\ files[T!Owner(w)][sockfd[w]] = c
        BY <1>k, <4>1 DEF T!Conn
      <4>3. T!Owner(w) \in T!Processes
        BY <4>1, TKinds, TConstants DEF TOwner
      <4>4. DOMAIN files[T!Owner(w)] = Descriptors
        BY <4>3, TTypes
      <4> QED
        BY <4>2, <4>3, <4>4 DEF T!Held, T!Range
    <3> QED
      BY <3>1, <3>2 DEF T!Connect, T!Ask, T!Gone, T!Client
  <2>5. ASSUME NEW to, tclient' = [tclient EXCEPT ![c] = to],
               to \in {"waiting", "closed"} \/ c \notin tunread' \cup reply',
               tunread' \cup reply' \subseteq tunread \cup reply \cup {c}, tunread' \cap reply' = {},
               \A x \in TcpClients : x # c => (x \in tunread' => x \in tunread) /\ (x \in reply' => x \in reply),
               \A w \in T!alive : worker[w] = "send" /\ mine[w] = c =>
                 c \notin tunread' /\ (to = "closed" \/ (to = "waiting" /\ c \notin reply'))
        PROVE  TTalk'
    <3>1. tclient'[c] = to
      BY <1>t, <2>5
    <3>2. \A x \in tunread' \cup reply' : tclient'[x] \in {"waiting", "closed"}
      BY <1>i, <1>t, <2>3, <2>5, <3>1
    <3>3. \A w \in T!alive : TTurn(w)'
      BY <1>b, <1>i, <1>t, <2>1, <2>3, <2>5, <3>1 DEF TTurn
    <3> QED
      BY <2>2, <2>5, <3>2, <3>3 DEF TTalk
  <2>6. CASE T!Connect(c)
    <3>1. c \notin tunread \cup reply
      BY <1>i, <2>6 DEF T!Connect, T!Client
    <3> QED
      BY <1>i, <2>4, <2>5, <2>6, <3>1 DEF T!Connect, T!Client
  <2>7. CASE T!Ask(c)
    <3>1. c \notin tunread \cup reply
      BY <1>i, <2>7 DEF T!Ask, T!Client
    <3> QED
      BY <1>i, <2>4, <2>5, <2>7, <3>1 DEF T!Ask, T!Client
  <2>8. CASE T!TakeReply(c)
    <3>1. c \in reply /\ c \notin tunread /\ tclient[c] = "waiting" /\ reply' = reply \ {c}
          /\ tunread' = tunread /\ tclient' = [tclient EXCEPT ![c] = "idle"]
      BY <1>i, <2>8 DEF T!TakeReply, T!Client
    <3>2. \A w \in T!alive : ~(worker[w] = "send" /\ mine[w] = c)
      BY <1>i, <1>k, <3>1 DEF TTurn
    <3> QED
      BY <1>i, <2>5, <3>1, <3>2
  <2>9. CASE T!CloseClient(c)
    <3>1. tclient' = [tclient EXCEPT ![c] = "closed"] /\ tunread' = tunread /\ reply' = reply
      BY <2>9 DEF T!CloseClient, T!Client
    <3>2. \A w \in T!alive : worker[w] = "send" /\ mine[w] = c => c \notin tunread
      BY <1>i, <1>k DEF TTurn
    <3> QED
      BY <1>i, <2>5, <3>1, <3>2
  <2>10. CASE T!Gone(c)
    <3>1. tclient' = [tclient EXCEPT ![c] = "away"] /\ tunread' = tunread \ {c} /\ reply' = reply \ {c}
      BY <2>10 DEF T!Gone, T!Client
    <3>2. \A w \in T!alive : ~(worker[w] = "send" /\ mine[w] = c)
      BY <2>4, <2>10
    <3> QED
      BY <1>i, <2>5, <3>1, <3>2
  <2> QED
    BY <1>13, <2>6, <2>7, <2>8, <2>9, <2>10
<1> QED
  BY <1>2, <1>3, <1>4, <1>6, <1>7, <1>9, <1>10, <1>11, <1>12, <1>13
     DEF T!Next, T!Main, T!Worker

LEMMA TReapsKept == TInv /\ T!Next /\ UNCHANGED program => TReaps'
<1> SUFFICES ASSUME TInv, T!Next, UNCHANGED program, tpc' = "reap" PROVE TKind = "Webserver.c"
  BY TSame DEF TReaps
<1>1. tpc = "reap" \/ T!Loop = "reap"
  BY DEF T!Next, T!Main, T!Worker, T!Idle, T!vars, T!main, T!Reap, T!Accept, T!AcceptFails,
         T!Start, T!ForkFails, T!ReadArg, T!Call, T!Receive, T!ReceiveEnd,
         T!Send, T!SendFails, T!SendKills, T!Close, T!Connect, T!Ask, T!TakeReply,
         T!CloseClient, T!Gone
<1> QED
  BY <1>1 DEF TInv, TReaps, T!Loop, TKind

LEMMA TNext == TInv /\ [T!Next]_tvars /\ UNCHANGED program => TInv'
<1> SUFFICES ASSUME TInv, [T!Next]_tvars, UNCHANGED program PROVE TInv'
  OBVIOUS
<1>1. CASE T!Next
  BY <1>1, TTypeKept, TFilesKept, TOwnKept, TTalkKept, TZombiesKept, TReapsKept DEF TInv
<1>2. CASE UNCHANGED tvars
  <2>s. TKind' = TKind /\ T!Processes' = T!Processes
    BY TSame
  <2>u. UNCHANGED <<tpc, newSockfd, files, worker, sockfd, at, mine, tclient, tbacklog, tunread,
                    reply, raced, peak>>
    BY <1>2 DEF tvars
  <2>a. T!alive' = T!alive /\ TChildren' = TChildren /\ \A w : T!Conn(w)' = T!Conn(w)
    BY <2>u, TSame, TKinds DEF T!alive, T!Busy, TChildren
  <2>1. T!TypeOK'
    BY Zenon, <2>s, <2>u DEF TInv, T!TypeOK, T!Kinds
  <2>2. TFiles'
    BY <2>s, <2>u DEF TInv, TFiles
  <2>3. TOwn'
    BY <2>s, <2>u, <2>a DEF TInv, TOwn, TOwns, TApart, TAccepted
  <2>4. TTalk' /\ TZombies' /\ TReaps'
    BY <2>s, <2>u, <2>a DEF TInv, TTalk, TTurn, TZombies, TReaps
  <2> QED
    BY <2>1, <2>2, <2>3, <2>4 DEF TInv
<1> QED
  BY <1>1, <1>2

LEMMA TOrder == TInv => T!OneWorkerEach /\ T!ZombiesBounded
<1> SUFFICES ASSUME TInv PROVE T!OneWorkerEach /\ T!ZombiesBounded
  OBVIOUS
<1>1. T!OneWorkerEach
  <2> SUFFICES ASSUME ~raced PROVE T!OneWorkerEach
    BY DEF T!OneWorkerEach
  <2>1. \A w \in T!alive : worker[w] # "start" => T!Conn(w) = mine[w]
    BY DEF TInv, TOwn, TOwns
  <2>2. \A v, w \in T!alive : v # w /\ mine[v] = mine[w] => mine[v] = Nobody
    BY DEF TInv, TOwn, TApart
  <2>3. \A c \in reply : tclient[c] \in {"waiting", "closed"} /\ c \notin tunread
    BY DEF TInv, TTalk
  <2> QED
    BY <2>1, <2>2, <2>3 DEF T!OneWorkerEach
<1>2. T!ZombiesBounded
  <2>1. peak \in Nat /\ Cardinality(TChildren) \in Nat
    BY TConstants, FS_Subset, FS_CardinalityType, TCard DEF TInv, T!TypeOK, TChildren
  <2>2. TKind = "Webserver.c" => Cardinality(TChildren) <= peak + 1
    BY <2>1 DEF TInv, TZombies
  <2> QED
    BY <2>2, TCard DEF T!ZombiesBounded, TKind, TChildren
<1> QED
  BY <1>1, <1>2

-----------------------------------------------------------------------------
(* WebStream: one connection of Webserver.c and Webclient.c                *)

(* The second half of the mark is the last that is written of an answer.   *)
WEnd == \A k \in 1..Len(stream) : stream[k] = "N" => k = Len(stream) /\ spc \in {"read", "ended"}

(* A request is made when everything has been read, and the server reads   *)
(* it before it writes.                                                    *)
WQuiet == request \/ wpc = "input" => stream = <<>> /\ spc \in {"read", "ended"}
WClient == /\ request => wpc # "input"
           /\ wpc = "crashed" => spc = "ended"

(* The mark is still to be read, if the client did not miss it.            *)
WWait == spc = "read" /\ wpc = "read" /\ ~request /\ ~unseen =>
           stream # <<>> /\ stream[Len(stream)] = "N"

WInv == W!TypeOK /\ WEnd /\ WQuiet /\ WClient /\ WWait

LEMMA WInit == W!Init => WInv
<1> SUFFICES ASSUME W!Init PROVE WInv
  OBVIOUS
<1> USE SocketProgramsAssumption DEF W!Init
<1>1. W!TypeOK
  <2>1. stream \in Seq(W!Pieces) /\ chunks \in 0..MaxChunks
    OBVIOUS
  <2> QED
    BY Zenon, <2>1 DEF W!TypeOK
<1>2. WEnd /\ WQuiet /\ WClient /\ WWait
  BY DEF WEnd, WQuiet, WClient, WWait
<1> QED
  BY <1>1, <1>2 DEF WInv

(* What strstr sees is the beginning of what was read.                     *)
LEMMA WSeen ==
  ASSUME NEW p \in Seq(W!Pieces)
  PROVE  /\ W!Visible(p) \in Seq(W!Pieces) /\ Len(W!Visible(p)) <= Len(p)
         /\ \A k \in 1..Len(W!Visible(p)) : W!Visible(p)[k] = p[k]
<1> DEFINE X == {k \in 1..Len(p) : p[k] = "NUL"}
<1>1. CASE X = {}
  <2>1. W!Visible(p) = p
    BY <1>1 DEF W!Visible, W!SelectInSeq
  <2> QED
    BY <2>1
<1>2. CASE X # {}
  <2>1. PICK m \in X : \A k \in X : m <= k
    <3>1. X \in SUBSET Nat
      OBVIOUS
    <3> HIDE DEF X
    <3> QED
      BY <1>2, <3>1, Least
  <2>2. W!Min(X) \in X
    BY <2>1 DEF W!Min
  <2>3. W!Min(X) \in 1..Len(p)
    BY <2>2
  <2>4. W!Visible(p) = IF (IF X # {} THEN W!Min(X) ELSE 0) = 0 THEN p
                       ELSE SubSeq(p, 1, (IF X # {} THEN W!Min(X) ELSE 0) - 1)
    BY Zenon DEF W!Visible, W!SelectInSeq
  <2>5. W!Visible(p) = SubSeq(p, 1, W!Min(X) - 1)
    <3> HIDE DEF X
    <3> QED
      BY <1>2, <2>3, <2>4
  <2> QED
    <3>1. PICK z \in 1..Len(p) : W!Visible(p) = SubSeq(p, 1, z - 1)
      BY <2>3, <2>5
    <3>2. /\ SubSeq(p, 1, z - 1) \in Seq(W!Pieces) /\ Len(SubSeq(p, 1, z - 1)) = z - 1
          /\ \A k \in 1..z-1 : SubSeq(p, 1, z - 1)[k] = p[k]
      OBVIOUS
    <3> QED
      BY <3>1, <3>2
<1> QED
  BY <1>1, <1>2

(* What has been read up to the mark is everything that was written.       *)
LEMMA WMark ==
  ASSUME WInv, NEW k \in 1..Len(stream), W!HasMark(W!Visible(SubSeq(stream, 1, k)))
  PROVE  k = Len(stream) /\ spc \in {"read", "ended"} /\ stream[k] = "N"
<1> DEFINE p == SubSeq(stream, 1, k)
<1>0. stream \in Seq(W!Pieces) /\ Len(stream) \in Nat
  BY DEF WInv, W!TypeOK
<1>1. p \in Seq(W!Pieces) /\ Len(p) = k /\ \A j \in 1..k : p[j] = stream[j]
  BY <1>0
<1> DEFINE q == W!Visible(p)
<1>2. q \in Seq(W!Pieces) /\ Len(q) <= k /\ \A j \in 1..Len(q) : q[j] = p[j]
  <2> HIDE DEF p
  <2> QED
    BY <1>1, WSeen
<1>3. W!HasMark(q)
  OBVIOUS
<1> HIDE DEF p, q
<1>4. PICK j \in 1..Len(q)-1 : SubSeq(q, j, j + 1) = <<"FI", "N">>
  BY <1>3 DEF W!HasMark, W!Mark
<1>5. SubSeq(q, j, j + 1)[2] = q[j + 1]
  BY <1>2
<1>6. stream[j + 1] = "N" /\ j + 1 \in 1..k
  <2>1. Len(q) \in Nat /\ Len(q) <= k /\ k \in Nat
    BY <1>2
  <2>2. j + 1 \in 1..Len(q) /\ j + 1 \in 1..k
    BY <2>1
  <2>3. q[j + 1] = "N"
    <3>1. <<"FI", "N">>[2] = "N"
      OBVIOUS
    <3> QED
      BY Zenon, <1>4, <1>5, <3>1
  <2> QED
    BY <1>1, <1>2, <2>2, <2>3
<1>7. j + 1 = Len(stream) /\ spc \in {"read", "ended"}
  BY <1>0, <1>6 DEF WInv, WEnd
<1> QED
  BY <1>0, <1>6, <1>7

LEMMA WNext == WInv /\ [W!Next]_wvars => WInv'
<1> SUFFICES ASSUME WInv, [W!Next]_wvars PROVE WInv'
  OBVIOUS
<1>t. /\ spc \in {"read", "header", "body", "notFound", "mark", "ended"}
      /\ wpc \in {"input", "read", "crashed", "ended"}
      /\ stream \in Seq(W!Pieces) /\ Len(stream) \in Nat
      /\ chunks \in 0..MaxChunks /\ MaxChunks \in Nat
      /\ request \in BOOLEAN /\ begun \in BOOLEAN /\ unseen \in BOOLEAN
  BY SocketProgramsAssumption DEF WInv, W!TypeOK
<1>i. WEnd /\ WQuiet /\ WClient /\ WWait
  BY DEF WInv
<1>0. CASE UNCHANGED wvars
  BY Zenon, <1>0, <1>i, <1>t DEF wvars, WInv, W!TypeOK, WEnd, WQuiet, WClient, WWait
<1>1. CASE W!Read
  <2>1. /\ spc = "read" /\ spc' \in {"header", "notFound"} /\ request /\ request' = FALSE
        /\ UNCHANGED <<stream, chunks, wpc, begun, unseen>>
    BY <1>1 DEF W!Read, W!Server
  <2>2. stream = <<>> /\ wpc # "input" /\ wpc # "crashed"
    BY <1>i, <2>1 DEF WQuiet, WClient
  <2>3. W!TypeOK'
    BY <1>t, <2>1 DEF W!TypeOK
  <2>4. WEnd' /\ WQuiet' /\ WClient' /\ WWait'
    BY <2>1, <2>2 DEF WEnd, WQuiet, WClient, WWait
  <2> QED
    BY <2>3, <2>4 DEF WInv
<1>2. CASE W!ReadEnd \/ W!Killed
  <2>1. spc' = "ended" /\ UNCHANGED <<stream, chunks, wpc, request, begun, unseen>>
    BY <1>2 DEF W!ReadEnd, W!Killed, W!Server
  <2>2. W!TypeOK'
    BY <1>t, <2>1 DEF W!TypeOK
  <2>3. WEnd' /\ WQuiet' /\ WClient' /\ WWait'
    BY <1>i, <2>1 DEF WEnd, WQuiet, WClient, WWait
  <2> QED
    BY <2>2, <2>3 DEF WInv
<1>3. CASE W!WriteHeader \/ W!WriteChunk \/ W!WriteNotFound \/ W!FileEnd
  <2>1. /\ spc \in {"header", "body", "notFound"} /\ spc' \in {"body", "mark"}
        /\ UNCHANGED <<wpc, request, begun, unseen>>
    BY <1>3 DEF W!WriteHeader, W!WriteChunk, W!WriteNotFound, W!FileEnd, W!Server
  <2>2. chunks' \in 0..MaxChunks
    BY <1>t, <1>3 DEF W!WriteHeader, W!WriteChunk, W!WriteNotFound, W!FileEnd
  <2>3. ~request /\ wpc # "input"
    BY <1>i, <2>1 DEF WQuiet
  <2>4. \A k \in 1..Len(stream) : stream[k] # "N"
    BY <1>i, <2>1 DEF WEnd
  <2>5. stream' \in Seq(W!Pieces) /\ \A k \in 1..Len(stream') : stream'[k] # "N"
    <3>1. CASE stream' = stream
      BY <1>t, <2>4, <3>1
    <3>2. CASE stream' = Append(stream, "text")
      <4>1. "text" \in W!Pieces
        BY DEF W!Pieces
      <4> QED
        BY <1>t, <2>4, <3>2, <4>1
    <3> DEFINE b == <<"text", "NUL", "stale">>
    <3>3. b \in Seq(W!Pieces) /\ \A k \in 1..Len(b) : b[k] # "N"
      BY DEF W!Pieces
    <3> HIDE DEF b
    <3>4. ASSUME NEW s \in Seq(W!Pieces), \A k \in 1..Len(s) : s[k] # "N"
          PROVE  s \o b \in Seq(W!Pieces) /\ \A k \in 1..Len(s \o b) : (s \o b)[k] # "N"
      BY <3>3, <3>4
    <3>5. stream \o b \in Seq(W!Pieces) /\ \A k \in 1..Len(stream \o b) : (stream \o b)[k] # "N"
      BY <1>t, <2>4, <3>4
    <3>6. CASE stream' = stream \o b
      BY <3>5, <3>6
    <3>7. CASE stream' = (stream \o b) \o b
      BY <3>4, <3>5, <3>7
    <3> QED
      BY <1>3, <3>1, <3>2, <3>6, <3>7 DEF W!WriteHeader, W!WriteChunk, W!WriteNotFound, W!FileEnd,
                                          W!Padded, b
  <2>6. W!TypeOK'
    BY <1>t, <2>1, <2>2, <2>5 DEF W!TypeOK
  <2>7. WEnd' /\ WQuiet' /\ WClient' /\ WWait'
    BY <1>i, <2>1, <2>3, <2>5 DEF WEnd, WQuiet, WClient, WWait
  <2> QED
    BY <2>6, <2>7 DEF WInv
<1>4. CASE W!WriteMark
  <2>1. /\ spc = "mark" /\ spc' = "read" /\ stream' = stream \o <<"FI", "N">>
        /\ UNCHANGED <<chunks, wpc, request, begun, unseen>>
    BY <1>4 DEF W!WriteMark, W!Server, W!Mark
  <2>2. ~request /\ wpc \notin {"input", "crashed"}
    BY <1>i, <2>1 DEF WQuiet, WClient
  <2>3. \A k \in 1..Len(stream) : stream[k] # "N"
    BY <1>i, <2>1 DEF WEnd
  <2> DEFINE b == <<"FI", "N">>
  <2>4. b \in Seq(W!Pieces) /\ Len(b) = 2 /\ b[1] = "FI" /\ b[2] = "N"
    BY DEF W!Pieces
  <2> HIDE DEF b
  <2>5. /\ stream' \in Seq(W!Pieces) /\ Len(stream') = Len(stream) + 2
        /\ stream'[Len(stream')] = "N"
        /\ \A k \in 1..Len(stream') : stream'[k] = "N" => k = Len(stream')
    <3>1. stream' = stream \o b
      BY <2>1 DEF b
    <3>a. PICK a \in Nat : a = Len(stream)
      BY <1>t
    <3>2. /\ stream \o b \in Seq(W!Pieces) /\ Len(stream \o b) = a + 2
          /\ \A g \in 1..a : (stream \o b)[g] = stream[g]
          /\ \A h \in 1..2 : (stream \o b)[a + h] = b[h]
      <4>1. PICK z : z = Len(b)
        OBVIOUS
      <4>2. stream \in Seq(W!Pieces) /\ b \in Seq(W!Pieces)
        BY <1>t, <2>4
      <4>3. /\ stream \o b \in Seq(W!Pieces) /\ Len(stream \o b) = a + z /\ a \in Nat /\ z \in Nat
            /\ \A g \in 1..a : (stream \o b)[g] = stream[g]
            /\ \A h \in 1..z : (stream \o b)[a + h] = b[h]
        BY <3>a, <4>1, <4>2, Joined
      <4> QED
        BY <2>4, <4>1, <4>3
    <3>3. (stream \o b)[a + 2] = "N" /\ (stream \o b)[a + 1] = "FI"
      BY <2>4, <3>2
    <3>4. \A g \in 1..a + 2 : g \in 1..a \/ g = a + 1 \/ g = a + 2
      OBVIOUS
    <3>5. \A g \in 1..a : (stream \o b)[g] # "N"
      BY <2>3, <3>2, <3>a
    <3>6. \A g \in 1..a + 2 : (stream \o b)[g] = "N" => g = a + 2
      BY <3>3, <3>4, <3>5
    <3> QED
      BY <3>1, <3>2, <3>3, <3>6, <3>a
  <2>6. W!TypeOK'
    BY <1>t, <2>1, <2>5 DEF W!TypeOK
  <2>7. WEnd' /\ WQuiet' /\ WClient' /\ WWait'
    BY <1>t, <2>1, <2>2, <2>5 DEF WEnd, WQuiet, WClient, WWait
  <2> QED
    BY <2>6, <2>7 DEF WInv
<1>5. CASE W!Request
  <2>1. /\ wpc = "input" /\ wpc' = "read" /\ request' = TRUE /\ begun' = FALSE
        /\ UNCHANGED <<spc, stream, chunks, unseen>>
    BY <1>5 DEF W!Request, W!Client
  <2>2. W!TypeOK'
    BY <1>t, <2>1 DEF W!TypeOK
  <2>3. WEnd' /\ WQuiet' /\ WClient' /\ WWait'
    BY <1>i, <2>1 DEF WEnd, WQuiet, WClient, WWait
  <2> QED
    BY <2>2, <2>3 DEF WInv
<1>6. CASE W!RequestKills \/ W!InputEnds
  <2>1. wpc' = "ended" /\ UNCHANGED <<spc, stream, chunks, request, begun, unseen>>
    BY <1>6 DEF W!RequestKills, W!InputEnds, W!Client
  <2>2. W!TypeOK'
    BY <1>t, <2>1 DEF W!TypeOK
  <2>3. WEnd' /\ WQuiet' /\ WClient' /\ WWait'
    BY <1>i, <2>1 DEF WEnd, WQuiet, WClient, WWait
  <2> QED
    BY <2>2, <2>3 DEF WInv
<1>7. CASE W!ReadSome
  <2>1. PICK k \in 1..Len(stream) :
          /\ stream' = SubSeq(stream, k + 1, Len(stream))
          /\ wpc' = IF W!HasMark(W!Visible(SubSeq(stream, 1, k))) THEN "input" ELSE "read"
          /\ unseen' = (wpc' = "read" /\ (unseen \/ W!Contains(SubSeq(stream, 1, k), "N")))
    BY Zenon, <1>7 DEF W!ReadSome
  <2>2. /\ wpc = "read" /\ begun' = TRUE /\ UNCHANGED <<spc, chunks, request>>
        /\ wpc' \in {"input", "read"} /\ unseen' \in BOOLEAN
    BY Zenon, <1>7, <2>1 DEF W!ReadSome
  <2>3. /\ stream' \in Seq(W!Pieces) /\ Len(stream') = Len(stream) - k
        /\ \A j \in 1..Len(stream') : stream'[j] = stream[k + j] /\ k + j \in 1..Len(stream)
    BY <1>t, <2>1
  <2>4. stream # <<>> /\ ~request
    BY <1>i, <1>t, <2>1 DEF WQuiet
  <2>5. wpc' = "input" => stream' = <<>> /\ spc \in {"read", "ended"}
    <3>1. CASE W!HasMark(W!Visible(SubSeq(stream, 1, k)))
      <4>1. k = Len(stream) /\ spc \in {"read", "ended"}
        BY <3>1, WMark
      <4>2. stream' = <<>>
        BY <1>t, <2>3, <4>1
      <4> QED
        BY <4>1, <4>2
    <3> QED
      BY <2>1, <3>1
  <2>6. W!TypeOK'
    BY <1>t, <2>2, <2>3 DEF W!TypeOK
  <2>7. WEnd'
    BY <1>i, <1>t, <2>2, <2>3 DEF WEnd
  <2>8. WQuiet' /\ WClient'
    BY <2>2, <2>4, <2>5 DEF WQuiet, WClient
  <2>9. WWait'
    <3> SUFFICES ASSUME spc = "read", wpc' = "read", ~unseen'
                 PROVE  stream' # <<>> /\ stream'[Len(stream')] = "N"
      BY <2>2 DEF WWait
    <3>1. ~unseen /\ ~W!Contains(SubSeq(stream, 1, k), "N")
      BY Zenon, <2>1
    <3>2. stream[Len(stream)] = "N"
      BY <1>i, <2>2, <2>4, <3>1 DEF WWait
    <3>3. k # Len(stream)
      <4>1. /\ Len(SubSeq(stream, 1, k)) = k /\ SubSeq(stream, 1, k)[k] = stream[k]
            /\ k \in 1..k
        BY <1>t
      <4> QED
        BY <3>1, <3>2, <4>1 DEF W!Contains
    <3>4. Len(stream') \in Nat /\ Len(stream') > 0
      BY <1>t, <2>3, <3>3
    <3> QED
      BY <1>t, <2>3, <3>2, <3>4
  <2> QED
    BY <2>6, <2>7, <2>8, <2>9 DEF WInv
<1>8. CASE W!ReadNone
  <2>1. /\ spc = "ended" /\ stream = <<>> /\ wpc' \in {"crashed", "input"} /\ request' = FALSE
        /\ UNCHANGED <<spc, stream, chunks, begun, unseen>>
    BY <1>8 DEF W!ReadNone
  <2>2. W!TypeOK'
    BY <1>t, <2>1 DEF W!TypeOK
  <2>3. WEnd' /\ WQuiet' /\ WClient' /\ WWait'
    BY <1>i, <2>1 DEF WEnd, WQuiet, WClient, WWait
  <2> QED
    BY <2>2, <2>3 DEF WInv
<1> QED
  BY <1>0, <1>1, <1>2, <1>3, <1>4, <1>5, <1>6, <1>7, <1>8
     DEF W!Next, W!server, W!client, W!Idle, W!vars, wvars

LEMMA WApart == WInv => W!AnswersApart
<1> SUFFICES ASSUME WInv PROVE W!AnswersApart
  OBVIOUS
<1>1. wpc = "input" => stream = <<>> /\ spc \in {"read", "ended"}
  BY DEF WInv, WQuiet
<1>2. W!Waiting => unseen
  BY DEF WInv, WWait, W!Waiting
<1>3. wpc = "crashed" => spc = "ended"
  BY DEF WInv, WClient
<1> QED
  BY <1>1, <1>2, <1>3 DEF W!AnswersApart

-----------------------------------------------------------------------------
(* Datagram: the UDP programs                                              *)

(* Where a datagram of client c may be: in the net or with the server.     *)
DLoop == program = "UDP/client.c"
DServer == buf = Nobody <=> dspc # "sendto"
DKnown == /\ \A d \in datagrams : d.number <= asked[d.peer]
          /\ buf # Nobody => buf.number <= asked[buf.peer]

(* Until one of its datagrams is duplicated, a client has one under way at *)
(* most, of its last request, and none while it reads its input.           *)
DSole(d) == d.peer \notin duplicated => dpc[d.peer] # "input" /\ d.number = asked[d.peer]
DOne ==
  /\ \A d, e \in datagrams : d.peer = e.peer /\ d.peer \notin duplicated => d = e
  /\ buf # Nobody /\ buf.peer \notin duplicated => \A d \in datagrams : d.peer # buf.peer
  /\ \A d \in datagrams : DSole(d)
  /\ buf # Nobody => DSole(buf)
  /\ \A c \in UdpClients : c \notin duplicated /\ dpc[c] = "input" => answered[c] = asked[c]
  /\ DLoop => duplicated = {}

DInv == D!TypeOK /\ DServer /\ DKnown /\ DOne

(* At the start nothing is under way.                                      *)
LEMMA DInit == D!Init => DInv
<1> SUFFICES ASSUME D!Init PROVE DInv
  OBVIOUS
<1> USE SocketProgramsAssumption DEF D!Init
<1>1. D!TypeOK
  BY DEF D!TypeOK
<1>2. DServer /\ DKnown /\ DOne
  BY DEF DServer, DKnown, DOne
<1> QED
  BY <1>1, <1>2 DEF DInv

(* The types, for the steps of the proofs.                                 *)
LEMMA DTypes ==
  ASSUME DInv
  PROVE  /\ dpc \in [UdpClients -> {"input", "recvfrom", "exited"}]
         /\ asked \in [UdpClients -> 0..MaxRequests]
         /\ answered \in [UdpClients -> 0..MaxRequests]
         /\ dspc \in {"recvfrom", "sendto", "exited"}
         /\ buf \in D!Datagrams \cup {Nobody} /\ datagrams \subseteq D!Datagrams
         /\ duplicated \subseteq UdpClients
         /\ \A d \in D!Datagrams : /\ d.peer \in UdpClients /\ d.number \in 1..MaxRequests
                                   /\ d.to \in {"server", "client"}
         /\ MaxRequests \in Nat
  BY SocketProgramsAssumption DEF DInv, DServer, D!TypeOK, D!Datagrams

(* A client keeps one datagram under way, wherever it is.                  *)
LEMMA DOneInFlight == DInv => D!OneInFlight
<1> SUFFICES ASSUME DInv PROVE D!OneInFlight
  OBVIOUS
<1> DEFINE held(c) == {d \in datagrams \cup ({buf} \ {Nobody}) : d.peer = c}
<1>1. ASSUME NEW c \in UdpClients \ duplicated
      PROVE  /\ \A d, e \in held(c) : d = e
             /\ dpc[c] = "input" => held(c) = {}
  <2>1. \A d, e \in held(c) : d = e
    BY DEF DInv, DOne
  <2>2. dpc[c] = "input" => held(c) = {}
    BY DEF DInv, DOne, DSole
  <2> QED
    BY <2>1, <2>2
<1>2. DLoop => duplicated = {}
  BY DEF DInv, DOne
<1> QED
  BY <1>1, <1>2 DEF D!OneInFlight, DLoop

(* What a delivery does: the datagram is gone, or its client is one of     *)
(* those with a copy under way.                                            *)
LEMMA DDeliver ==
  ASSUME NEW d, D!Deliver(d)
  PROVE  /\ datagrams' \subseteq datagrams /\ duplicated \subseteq duplicated'
         /\ \/ datagrams' = datagrams \ {d} /\ duplicated' = duplicated
            \/ ~DLoop /\ datagrams' = datagrams /\ duplicated' = duplicated \cup {d.peer}
  BY DEF D!Deliver, DLoop

(* Every step of clients, server and network keeps the invariant.          *)
LEMMA DNext == DInv /\ [D!Next]_dvars /\ program' = program => DInv'
<1> SUFFICES ASSUME DInv, [D!Next]_dvars, program' = program PROVE DInv'
  OBVIOUS
<1>t. /\ dpc \in [UdpClients -> {"input", "recvfrom", "exited"}]
      /\ asked \in [UdpClients -> 0..MaxRequests]
      /\ answered \in [UdpClients -> 0..MaxRequests]
      /\ dspc \in {"recvfrom", "sendto", "exited"}
      /\ buf \in D!Datagrams \cup {Nobody} /\ datagrams \subseteq D!Datagrams
      /\ duplicated \subseteq UdpClients
      /\ \A d \in D!Datagrams : /\ d.peer \in UdpClients /\ d.number \in 1..MaxRequests
                                /\ d.to \in {"server", "client"}
      /\ MaxRequests \in Nat
  BY DTypes
<1>i. DServer /\ DKnown /\ DOne
  BY DEF DInv
<1>k. DLoop' = DLoop
  BY DEF DLoop
<1>0. CASE UNCHANGED dvars \/ D!Idle
  BY <1>0, <1>i, <1>k DEF dvars, D!Idle, D!vars, D!clients, D!servers, D!network,
                          DInv, D!TypeOK, D!Datagrams, DServer, DKnown, DOne, DSole
<1>1. ASSUME NEW c \in UdpClients, D!Sendto(c) PROVE DInv'
  <2> DEFINE r == [to |-> "server", peer |-> c, number |-> asked'[c]]
  <2>1. /\ dpc[c] = "input" /\ asked[c] < MaxRequests
        /\ dpc' = [dpc EXCEPT ![c] = "recvfrom"]
        /\ asked' = [asked EXCEPT ![c] = asked[c] + 1]
        /\ datagrams' = datagrams \cup {r}
        /\ answered' = answered /\ dspc' = dspc /\ buf' = buf /\ duplicated' = duplicated
    BY <1>1 DEF D!Sendto, D!SendLine, D!Request, D!servers
  <2>2. asked'[c] = asked[c] + 1 /\ asked[c] + 1 \in 1..MaxRequests /\ asked[c] \in Nat
    <3>0. asked \in [UdpClients -> 0..MaxRequests] /\ asked' = [asked EXCEPT ![c] = asked[c] + 1]
      BY <1>t, <2>1
    <3>1. asked[c] \in 0..MaxRequests /\ asked'[c] = asked[c] + 1
      BY <3>0
    <3>2. asked[c] < MaxRequests
      BY <2>1
    <3>3. MaxRequests \in Nat
      BY <1>t
    <3> HIDE DEF r
    <3>4. asked[c] \in Nat /\ asked[c] + 1 \in 1..MaxRequests
      BY <3>1, <3>2, <3>3
    <3> QED
      BY <3>1, <3>4
  <2>3. r \in D!Datagrams /\ r.peer = c /\ r.number = asked'[c]
    BY <2>2 DEF D!Datagrams
  <2> HIDE DEF r
  <2>4. D!TypeOK'
    <3>1. asked' \in [UdpClients -> 0..MaxRequests] /\ dpc' \in [UdpClients -> {"input", "recvfrom", "exited"}]
      BY <1>t, <2>1, <2>2
    <3> QED
      BY <1>t, <2>1, <2>3, <3>1 DEF D!TypeOK, D!Datagrams
  <2>5. DServer'
    BY <1>i, <2>1 DEF DServer
  <2>6. \A x \in UdpClients : x # c => asked'[x] = asked[x] /\ dpc'[x] = dpc[x]
    BY <1>t, <2>1
  <2>7. \A x \in UdpClients : asked[x] \in Nat /\ asked'[x] \in Nat /\ asked[x] <= asked'[x]
    BY <1>t, <2>2, <2>6
  <2>8. DKnown'
    <3>1. \A d \in datagrams' : d.number <= asked'[d.peer]
      BY <1>t, <1>i, <2>1, <2>3, <2>7 DEF DKnown
    <3>2. buf' # Nobody => buf'.number <= asked'[buf'.peer]
      BY <1>t, <1>i, <2>1, <2>7 DEF DKnown
    <3> QED
      BY <3>1, <3>2 DEF DKnown
  <2>9. DOne'
    <3>1. \A d \in datagrams : d.peer \in UdpClients /\ (d.peer = c => c \in duplicated)
      BY <1>t, <1>i, <2>1 DEF DOne, DSole
    <3>2. buf # Nobody => buf.peer \in UdpClients /\ (buf.peer = c => c \in duplicated)
      BY <1>t, <1>i, <2>1 DEF DOne, DSole
    <3>4. dpc'[c] = "recvfrom"
      BY <1>t, <2>1
    <3>5. \A d, e \in datagrams' : d.peer = e.peer /\ d.peer \notin duplicated' => d = e
      BY <1>i, <2>1, <2>3, <3>1 DEF DOne
    <3>6. buf' # Nobody /\ buf'.peer \notin duplicated' => \A d \in datagrams' : d.peer # buf'.peer
      BY <1>i, <2>1, <2>3, <3>2 DEF DOne
    <3>7. \A d \in datagrams' : DSole(d)'
      BY <1>i, <2>1, <2>3, <2>6, <3>1, <3>4 DEF DOne, DSole
    <3>8. buf' # Nobody => DSole(buf)'
      BY <1>i, <2>1, <2>6, <3>2 DEF DOne, DSole
    <3>9. \A x \in UdpClients : x \notin duplicated' /\ dpc'[x] = "input" => answered'[x] = asked'[x]
      BY <1>i, <2>1, <2>6, <3>4 DEF DOne
    <3>10. DLoop' => duplicated' = {}
      BY <1>i, <1>k, <2>1 DEF DOne
    <3> QED
      BY <3>5, <3>6, <3>7, <3>8, <3>9, <3>10 DEF DOne, DSole
  <2> QED
    BY <2>4, <2>5, <2>8, <2>9 DEF DInv
<1>2. ASSUME NEW c \in UdpClients, NEW d \in datagrams, D!Recvfrom(c, d) PROVE DInv'
  <2>1. /\ dpc[c] = "recvfrom" /\ d.peer = c
        /\ dpc' = [dpc EXCEPT ![c] = "input"]
        /\ answered' = [answered EXCEPT ![c] = d.number]
        /\ asked' = asked /\ dspc' = dspc /\ buf' = buf
    BY <1>2 DEF D!Recvfrom, D!servers
  <2>0. /\ datagrams' \subseteq datagrams /\ duplicated \subseteq duplicated'
        /\ \/ datagrams' = datagrams \ {d} /\ duplicated' = duplicated
           \/ ~DLoop /\ duplicated' = duplicated \cup {c}
    BY <1>2, <2>1, DDeliver DEF D!Recvfrom
  <2>2. d.number \in 0..MaxRequests /\ duplicated' \subseteq UdpClients
    BY <1>t, <2>0, <2>1
  <2>3. D!TypeOK'
    BY <1>t, <2>0, <2>1, <2>2 DEF D!TypeOK, D!Datagrams
  <2>4. DServer'
    BY <1>i, <2>1 DEF DServer
  <2>5. \A x \in UdpClients : x # c => answered'[x] = answered[x] /\ dpc'[x] = dpc[x]
    BY <1>t, <2>1
  <2>6. answered'[c] = d.number /\ dpc'[c] = "input"
    BY <1>t, <2>1
  <2>7. DKnown'
    BY <1>i, <2>0, <2>1 DEF DKnown
  <2>8. DOne'
    <3>1. c \notin duplicated' => d.number = asked[c] /\ (\A e \in datagrams' : e.peer # c)
      BY <1>i, <2>0, <2>1 DEF DOne, DSole
    <3>2. buf # Nobody /\ c \notin duplicated' => buf.peer # c
      BY <1>i, <2>0, <2>1 DEF DOne
    <3>3. /\ \A e \in datagrams' : e.peer \in UdpClients
          /\ buf # Nobody => buf.peer \in UdpClients
      BY <1>t, <2>0
    <3>4. \A e \in datagrams' : DSole(e)'
      BY <1>i, <2>0, <2>1, <2>5, <3>1, <3>3 DEF DOne, DSole
    <3>5. buf' # Nobody => DSole(buf)'
      BY <1>i, <2>0, <2>1, <2>5, <3>2, <3>3 DEF DOne, DSole
    <3>6. \A x \in UdpClients : x \notin duplicated' /\ dpc'[x] = "input" => answered'[x] = asked'[x]
      BY <1>i, <2>0, <2>1, <2>5, <2>6, <3>1 DEF DOne
    <3>7. DLoop' => duplicated' = {}
      BY <1>i, <1>k, <2>0 DEF DOne
    <3>8. /\ \A e, g \in datagrams' : e.peer = g.peer /\ e.peer \notin duplicated' => e = g
          /\ buf' # Nobody /\ buf'.peer \notin duplicated' => \A e \in datagrams' : e.peer # buf'.peer
      BY <1>i, <2>0, <2>1 DEF DOne
    <3> QED
      BY <3>4, <3>5, <3>6, <3>7, <3>8 DEF DOne, DSole
  <2> QED
    BY <2>3, <2>4, <2>7, <2>8 DEF DInv
<1>3. ASSUME NEW c \in UdpClients, D!ClientExits(c) PROVE DInv'
  <2>1. /\ dpc' = [dpc EXCEPT ![c] = "exited"] /\ dpc'[c] = "exited"
        /\ \A x \in UdpClients : x # c => dpc'[x] = dpc[x]
        /\ asked' = asked /\ answered' = answered /\ dspc' = dspc /\ buf' = buf
        /\ datagrams' = datagrams /\ duplicated' = duplicated
    BY <1>t, <1>3 DEF D!ClientExits, D!servers, D!network
  <2>2. D!TypeOK'
    BY <1>t, <2>1 DEF D!TypeOK, D!Datagrams
  <2>3. DServer' /\ DKnown'
    BY <1>i, <2>1 DEF DServer, DKnown
  <2>4. /\ \A e \in datagrams : e.peer \in UdpClients
        /\ buf # Nobody => buf.peer \in UdpClients
    BY <1>t
  <2>5. DOne'
    BY <1>i, <1>k, <2>1, <2>4 DEF DOne, DSole
  <2> QED
    BY <2>2, <2>3, <2>5 DEF DInv
<1>4. ASSUME NEW d \in datagrams, D!ServerRecvfrom(d) PROVE DInv'
  <2>1. /\ dspc' = "sendto" /\ buf' = d /\ dspc = "recvfrom"
        /\ dpc' = dpc /\ asked' = asked /\ answered' = answered
    BY <1>4 DEF D!ServerRecvfrom, D!clients
  <2>0. /\ datagrams' \subseteq datagrams /\ duplicated \subseteq duplicated'
        /\ \/ datagrams' = datagrams \ {d} /\ duplicated' = duplicated
           \/ ~DLoop /\ duplicated' = duplicated \cup {d.peer}
    BY <1>4, DDeliver DEF D!ServerRecvfrom
  <2>2. d \in D!Datagrams /\ d # Nobody
    <3>1. d \in D!Datagrams
      BY <1>t
    <3>2. d # Nobody
      BY <3>1, NobodyIsNoDatagram
    <3> QED
      BY <3>1, <3>2
  <2>3. D!TypeOK'
    <3>1. duplicated' \subseteq UdpClients
      BY <1>t, <2>0
    <3> QED
      BY <1>t, <2>0, <2>1, <2>2, <3>1 DEF D!TypeOK, D!Datagrams
  <2>4. DServer' /\ DKnown'
    BY <1>i, <2>0, <2>1, <2>2 DEF DServer, DKnown
  <2>5. DOne'
    <3>1. \A e, g \in datagrams' : e.peer = g.peer /\ e.peer \notin duplicated' => e = g
      BY <1>i, <2>0 DEF DOne
    <3>2. d.peer \notin duplicated' => \A e \in datagrams' : e.peer # d.peer
      BY <1>i, <2>0 DEF DOne
    <3>3. (\A e \in datagrams' : DSole(e)') /\ (DSole(d) => DSole(d)')
      BY <1>i, <2>0, <2>1 DEF DOne, DSole
    <3>4. \A x \in UdpClients : x \notin duplicated' /\ dpc'[x] = "input" => answered'[x] = asked'[x]
      BY <1>i, <2>0, <2>1 DEF DOne
    <3>5. DLoop' => duplicated' = {}
      BY <1>i, <1>k, <2>0 DEF DOne
    <3>6. DSole(d)
      BY <1>i DEF DOne
    <3>7. DSole(buf)'
      BY <2>1, <3>3, <3>6 DEF DSole
    <3> QED
      BY <2>1, <3>1, <3>2, <3>3, <3>4, <3>5, <3>7 DEF DOne
  <2> QED
    BY <2>3, <2>4, <2>5 DEF DInv
<1>5. CASE D!ServerSendto
  <2> DEFINE r == [buf EXCEPT !.to = "client"]
  <2>1. /\ dspc = "sendto" /\ dspc' = "recvfrom" /\ buf' = Nobody
        /\ datagrams' = datagrams \cup {r}
        /\ dpc' = dpc /\ asked' = asked /\ answered' = answered /\ duplicated' = duplicated
    BY <1>5 DEF D!ServerSendto, D!Reply, D!clients
  <2>2. buf # Nobody /\ buf \in D!Datagrams
    BY <1>t, <1>i, <2>1 DEF DServer
  <2>3. r \in D!Datagrams /\ r.peer = buf.peer /\ r.number = buf.number
    BY <2>2 DEF D!Datagrams
  <2> HIDE DEF r
  <2>4. D!TypeOK'
    BY <1>t, <2>1, <2>3 DEF D!TypeOK, D!Datagrams
  <2>5. DServer' /\ DKnown'
    BY <1>i, <2>1, <2>2, <2>3 DEF DServer, DKnown
  <2>6. DOne'
    BY <1>i, <1>k, <2>1, <2>2, <2>3 DEF DOne, DSole
  <2> QED
    BY <2>4, <2>5, <2>6 DEF DInv
<1>6. CASE D!ServerExits
  <2>1. /\ dspc' = "exited" /\ buf' = Nobody /\ datagrams' = datagrams
        /\ dpc' = dpc /\ asked' = asked /\ answered' = answered /\ duplicated' = duplicated
    BY <1>6 DEF D!ServerExits, D!clients, D!network
  <2>2. D!TypeOK'
    BY <1>t, <2>1 DEF D!TypeOK, D!Datagrams
  <2>3. DServer' /\ DKnown' /\ DOne'
    BY <1>i, <1>k, <2>1 DEF DServer, DKnown, DOne, DSole
  <2> QED
    BY <2>2, <2>3 DEF DInv
<1>7. ASSUME NEW d \in datagrams, D!Lose(d) PROVE DInv'
  <2>1. /\ datagrams' \subseteq datagrams /\ dspc' = dspc /\ buf' = buf
        /\ dpc' = dpc /\ asked' = asked /\ answered' = answered /\ duplicated' = duplicated
    BY <1>7 DEF D!Lose, D!clients, D!servers
  <2>2. D!TypeOK'
    BY <1>t, <2>1 DEF D!TypeOK, D!Datagrams
  <2>3. DServer' /\ DKnown' /\ DOne'
    BY <1>i, <1>k, <2>1 DEF DServer, DKnown, DOne, DSole
  <2> QED
    BY <2>2, <2>3 DEF DInv
<1> QED
  BY <1>0, <1>1, <1>2, <1>3, <1>4, <1>5, <1>6, <1>7 DEF D!Next, D!Server

(* What RequestReply sees of the datagrams: a step of theirs is one of its *)
(* steps.                                                                  *)
LEMMA DPromised ==
  ASSUME DInv, D!Next, UNCHANGED program
  PROVE  [D!Promise!Next]_<<asked, answered, D!Waiting, duplicated>>
<1>t. /\ dpc \in [UdpClients -> {"input", "recvfrom", "exited"}]
      /\ \A d \in D!Datagrams : d.number \in 1..MaxRequests /\ d.peer \in UdpClients
      /\ datagrams \subseteq D!Datagrams /\ MaxRequests \in Nat
      /\ asked \in [UdpClients -> 0..MaxRequests]
  BY DTypes
<1>1. ASSUME NEW c \in UdpClients, D!Sendto(c) PROVE D!Promise!Next
  <2>1. /\ dpc[c] = "input" /\ asked[c] < MaxRequests
        /\ dpc' = [dpc EXCEPT ![c] = "recvfrom"]
        /\ asked' = [asked EXCEPT ![c] = @ + 1]
        /\ answered' = answered /\ duplicated' = duplicated
    BY <1>1 DEF D!Sendto, D!SendLine
  <2>2. c \in duplicated \/ answered[c] = asked[c]
    BY <2>1 DEF DInv, DOne
  <2>3. c \notin D!Waiting /\ D!Waiting' = D!Waiting \cup {c}
    BY <1>t, <2>1 DEF D!Waiting
  <2>4. D!Promise!Ask(c)
    BY <2>1, <2>2, <2>3 DEF D!Promise!Ask
  <2> QED
    BY <2>1, <2>4 DEF D!Promise!Next
<1>2. ASSUME NEW c \in UdpClients, NEW d \in datagrams, D!Recvfrom(c, d) PROVE D!Promise!Next
  <2>1. /\ dpc[c] = "recvfrom" /\ d.peer = c
        /\ dpc' = [dpc EXCEPT ![c] = "input"]
        /\ answered' = [answered EXCEPT ![c] = d.number] /\ asked' = asked
    BY <1>2 DEF D!Recvfrom
  <2>2. duplicated \subseteq duplicated'
    BY <1>2, DDeliver DEF D!Recvfrom
  <2>3. d.number \in D!Promise!Answers(c)
    <3>1. d.number \in 1..MaxRequests /\ asked[c] \in 0..MaxRequests
      BY <1>t
    <3>2. d.number <= asked[c] /\ (c \notin duplicated => d.number = asked[c])
      BY <2>1 DEF DInv, DKnown, DOne, DSole
    <3>3. d.number \in 1..asked[c]
      BY <1>t, <3>1, <3>2
    <3> QED
      BY <3>2, <3>3 DEF D!Promise!Answers
  <2>4. c \in D!Waiting /\ D!Waiting' = D!Waiting \ {c}
    BY <1>t, <2>1 DEF D!Waiting
  <2>5. D!Promise!Answer(c)
    BY <2>1, <2>3, <2>4 DEF D!Promise!Answer
  <2> QED
    BY <2>2, <2>5 DEF D!Promise!Next
<1>3. ASSUME NEW c \in UdpClients, D!ClientExits(c)
      PROVE  [D!Promise!Next]_<<asked, answered, D!Waiting, duplicated>>
  <2>1. /\ dpc' = [dpc EXCEPT ![c] = "exited"]
        /\ UNCHANGED <<asked, answered, duplicated>>
    BY <1>3 DEF D!ClientExits, D!network
  <2>2. D!Waiting' = D!Waiting \ {c}
    BY <1>t, <2>1 DEF D!Waiting
  <2>3. CASE c \in D!Waiting
    <3>1. D!Promise!GiveUp(c)
      BY <2>1, <2>2, <2>3 DEF D!Promise!GiveUp
    <3> QED
      BY <2>1, <3>1 DEF D!Promise!Next
  <2>4. CASE c \notin D!Waiting
    BY <2>1, <2>2, <2>4
  <2> QED
    BY <2>3, <2>4
<1>4. ASSUME NEW d \in datagrams, D!ServerRecvfrom(d) PROVE D!Promise!Next
  <2>1. UNCHANGED <<dpc, asked, answered>> /\ duplicated \subseteq duplicated'
    BY <1>4, DDeliver DEF D!ServerRecvfrom, D!clients
  <2> QED
    BY <2>1 DEF D!Promise!Next, D!Waiting
<1>5. ASSUME D!ServerSendto \/ D!ServerExits \/ D!Idle \/ \E d \in datagrams : D!Lose(d)
      PROVE  UNCHANGED <<asked, answered, D!Waiting, duplicated>>
  <2>1. UNCHANGED <<dpc, asked, answered, duplicated>>
    BY <1>5 DEF D!ServerSendto, D!ServerExits, D!Idle, D!Lose, D!clients, D!network, D!vars
  <2> QED
    BY <2>1 DEF D!Waiting
<1> QED
  BY <1>1, <1>2, <1>3, <1>4, <1>5 DEF D!Next, D!Server

(* Nobody waits at the start.                                              *)
LEMMA DPromisedInit == D!Init => D!Promise!Init
  BY DEF D!Init, D!Promise!Init, D!Waiting

-----------------------------------------------------------------------------
(* UnixConn: cli_conn.c, serv_listen.c and serv_accept.c                   *)

(* A client that has not called yet is not with the server, and a pid      *)
(* belongs to one client that runs.                                        *)
UClients ==
  /\ \A c \in UnixClients : /\ upc[c] # "none" => pid[c] \in Pids
                            /\ upc[c] \in {"none", "unlink", "bind", "connect"} => c \notin U!Calling
                            /\ upc[c] = "bind" => path[pid[c]] = Nobody
  /\ \A c, d \in UnixClients : U!Running(c) /\ U!Running(d) /\ pid[c] = pid[d] => c = d
UServer == clifd # Nobody <=> uspc \in {"stat", "unlink"}

(* Whoever took a free pid is not refused: until it is served the path of  *)
(* its pid is its own, and the server has nobody else with that pid.       *)
UPaths == \A c \in UnixClients \ reused :
  /\ upc[c] # "refused"
  /\ upc[c] \in {"connect", "waiting"} =>
       path[pid[c]] = c /\ \A d \in UnixClients \cap U!Calling : pid[d] = pid[c] => d = c

UInv == U!TypeOK /\ UClients /\ UServer /\ UPaths

LEMMA UConstants == Nobody \notin UnixClients /\ Nobody \notin Pids
  BY SocketProgramsAssumption

LEMMA UInit == U!Init => UInv
<1> SUFFICES ASSUME U!Init PROVE UInv
  OBVIOUS
<1> USE UConstants DEF U!Init
<1>1. U!TypeOK
  BY DEF U!TypeOK
<1>2. UClients /\ UServer /\ UPaths
  BY DEF UClients, UServer, UPaths, U!Calling, U!ToSet, U!Running
<1> QED
  BY <1>1, <1>2 DEF UInv

(* A client goes on by itself: its state changes and perhaps its pid, its  *)
(* path and what is known of its pid.                                      *)
LEMMA UMoves ==
  ASSUME UInv, NEW c \in UnixClients, NEW s,
         s \in {"unlink", "bind", "connect", "waiting", "ended"},
         upc' = [upc EXCEPT ![c] = s],
         \A x \in UnixClients : x # c => pid'[x] = pid[x],
         pid' \in [UnixClients -> Pids \cup {Nobody}], pid'[c] \in Pids,
         path' \in [Pids -> UnixClients \cup {Nobody}],
         upc[c] = "none" => \A d \in UnixClients : U!Running(d) => pid[d] # pid'[c],
         upc[c] = "none" \/ (U!Running(c) /\ pid'[c] = pid[c]),
         \A p \in Pids : p # pid'[c] => path'[p] = path[p],
         s = "bind" => path'[pid'[c]] = Nobody,
         s \in {"connect", "waiting"} => upc[c] # "none",
         reused \subseteq reused', reused' \subseteq reused \cup {c},
         U!Calling' \subseteq U!Calling \cup {c},
         c \in U!Calling' => c \in U!Calling \/ s = "waiting",
         s \in {"connect", "waiting"} /\ c \notin reused' =>
            path'[pid'[c]] = c /\ \A d \in UnixClients \cap U!Calling : pid[d] = pid[c] => d = c,
         upc[c] \in {"none", "unlink", "bind", "connect"} \/ s = "ended"
  PROVE  UClients' /\ UPaths'
<1>t. /\ upc \in [UnixClients -> {"none", "unlink", "bind", "connect", "waiting",
                                  "served", "refused", "ended"}]
      /\ pid \in [UnixClients -> Pids \cup {Nobody}] /\ path \in [Pids -> UnixClients \cup {Nobody}]
  BY DEF UInv, U!TypeOK
<1>i. UClients /\ UPaths
  BY DEF UInv
<1>1. upc'[c] = s /\ \A x \in UnixClients : x # c => upc'[x] = upc[x]
  BY <1>t
<1>2. \A x \in UnixClients : U!Running(x) => pid[x] \in Pids /\ (U!Running(c) => (pid[x] = pid[c] => x = c))
  BY <1>i DEF UClients, U!Running
<1>3. \A x \in UnixClients : x # c /\ U!Running(x) =>
        pid'[x] = pid[x] /\ pid[x] # pid'[c] /\ path'[pid[x]] = path[pid[x]]
  BY <1>2
<1>4. \A x \in UnixClients : x # c => (U!Running(x)' <=> U!Running(x))
  BY <1>1 DEF U!Running
<1>5. UClients'
  <2>1. ASSUME NEW x \in UnixClients
        PROVE  /\ upc'[x] # "none" => pid'[x] \in Pids
               /\ upc'[x] \in {"none", "unlink", "bind", "connect"} => x \notin U!Calling'
               /\ upc'[x] = "bind" => path'[pid'[x]] = Nobody
    <3>1. CASE x = c
      BY <1>1, <1>i, <3>1 DEF UClients
    <3>2. CASE x # c
      <4>1. upc'[x] = upc[x] /\ pid'[x] = pid[x] /\ (x \in U!Calling' => x \in U!Calling)
        BY <1>1, <3>2
      <4>2. upc[x] = "bind" => path'[pid[x]] = path[pid[x]]
        BY <1>3, <3>2 DEF U!Running
      <4> QED
        BY <1>i, <4>1, <4>2 DEF UClients
    <3> QED
      BY <3>1, <3>2
  <2>2. ASSUME NEW x \in UnixClients, NEW y \in UnixClients,
               U!Running(x)', U!Running(y)', pid'[x] = pid'[y]
        PROVE  x = y
    <3>1. CASE x # c /\ y # c
      BY <1>i, <1>3, <1>4, <2>2, <3>1 DEF UClients
    <3>2. CASE x = c \/ y = c
      BY <1>3, <1>4, <2>2, <3>2
    <3> QED
      BY <3>1, <3>2
  <2> QED
    BY <2>1, <2>2 DEF UClients
<1>6. UPaths'
  <2> SUFFICES ASSUME NEW x \in UnixClients, x \notin reused'
               PROVE  /\ upc'[x] # "refused"
                      /\ upc'[x] \in {"connect", "waiting"} =>
                           /\ path'[pid'[x]] = x
                           /\ \A d \in UnixClients : d \in U!Calling' /\ pid'[d] = pid'[x] => d = x
    BY DEF UPaths
  <2>0. x \notin reused
    OBVIOUS
  <2>1. CASE x = c
    <3>1. s \in {"connect", "waiting"} => pid'[c] = pid[c]
      OBVIOUS
    <3>2. \A d \in UnixClients : d # c => pid'[d] = pid[d] /\ (d \in U!Calling' => d \in U!Calling)
      OBVIOUS
    <3> QED
      BY <1>1, <2>0, <2>1, <3>1, <3>2
  <2>2. CASE x # c
    <3>1. upc'[x] = upc[x] /\ upc[x] # "refused"
      BY <1>1, <1>i, <2>0, <2>2 DEF UPaths
    <3>2. ASSUME upc[x] \in {"connect", "waiting"}
          PROVE  /\ path'[pid'[x]] = x
                 /\ \A d \in UnixClients : d \in U!Calling' /\ pid'[d] = pid'[x] => d = x
      <4>1. U!Running(x) /\ path[pid[x]] = x
            /\ \A d \in UnixClients : d \in U!Calling /\ pid[d] = pid[x] => d = x
        BY <1>i, <2>0, <3>2 DEF UPaths, U!Running
      <4>2. pid'[x] = pid[x] /\ pid[x] # pid'[c] /\ path'[pid[x]] = path[pid[x]]
        BY <1>3, <2>2, <4>1
      <4> QED
        BY <4>1, <4>2
    <3> QED
      BY <3>1, <3>2
  <2> QED
    BY <2>1, <2>2
<1> QED
  BY <1>5, <1>6

LEMMA UNext == UInv /\ [U!Next]_uvars => UInv'
<1> SUFFICES ASSUME UInv, [U!Next]_uvars PROVE UInv'
  OBVIOUS
<1>t. /\ upc \in [UnixClients -> {"none", "unlink", "bind", "connect", "waiting",
                                  "served", "refused", "ended"}]
      /\ pid \in [UnixClients -> Pids \cup {Nobody}] /\ path \in [Pids -> UnixClients \cup {Nobody}]
      /\ ubacklog \in Seq(UnixClients)
      /\ uspc \in {"listen", "accept", "stat", "unlink"} /\ clifd \in UnixClients \cup {Nobody}
      /\ reused \subseteq UnixClients
  BY DEF UInv, U!TypeOK
<1>i. UClients /\ UServer /\ UPaths
  BY DEF UInv
<1>0. CASE UNCHANGED uvars
  BY <1>0, <1>i DEF uvars, UInv, U!TypeOK, UClients, UServer, UPaths, U!Calling, U!ToSet, U!Running
<1>1. ASSUME NEW c \in UnixClients, NEW p \in Pids, U!Start(c, p) PROVE UInv'
  <2>1. /\ upc[c] = "none" /\ upc' = [upc EXCEPT ![c] = "unlink"]
        /\ \A d \in UnixClients : U!Running(d) => pid[d] # p
        /\ pid' = [pid EXCEPT ![c] = p]
        /\ path' = path /\ ubacklog' = ubacklog /\ uspc' = uspc /\ clifd' = clifd /\ reused' = reused
    BY <1>1 DEF U!Start, U!Client, U!server
  <2>2. pid'[c] = p /\ \A x \in UnixClients : x # c => pid'[x] = pid[x]
    BY <1>t, <2>1
  <2>3. U!Calling' = U!Calling
    BY <2>1 DEF U!Calling, U!ToSet
  <2>4. U!TypeOK' /\ UServer'
    BY <1>t, <1>i, <2>1 DEF U!TypeOK, UServer
  <2>5. pid' \in [UnixClients -> Pids \cup {Nobody}] /\ path' \in [Pids -> UnixClients \cup {Nobody}]
    BY <2>4 DEF U!TypeOK
  <2>6. UClients' /\ UPaths'
    BY <2>1, <2>2, <2>3, <2>5, UMoves
  <2> QED
    BY <2>4, <2>6 DEF UInv
<1>2. ASSUME NEW c \in UnixClients, U!Unlink(c) PROVE UInv'
  <2>1. /\ upc[c] = "unlink"
        /\ upc' = [upc EXCEPT ![c] = "bind"]
        /\ pid' = pid /\ uspc' = uspc /\ clifd' = clifd
        /\ path' = [path EXCEPT ![pid[c]] = Nobody] /\ ubacklog' = ubacklog /\ reused' = reused
    BY <1>2 DEF U!Unlink, U!Client, U!server
  <2>2. pid[c] \in Pids /\ U!Running(c)
    BY <1>i, <2>1 DEF UClients, U!Running
  <2>3. U!TypeOK' /\ UServer'
    BY <1>t, <1>i, <2>1, <2>2 DEF U!TypeOK, UServer
  <2>4. U!Calling' = U!Calling
    BY <2>1 DEF U!Calling, U!ToSet
  <2>5. path'[pid[c]] = Nobody /\ \A p \in Pids : p # pid[c] => path'[p] = path[p]
    BY <1>t, <2>1, <2>2
  <2>6. pid' \in [UnixClients -> Pids \cup {Nobody}] /\ path' \in [Pids -> UnixClients \cup {Nobody}]
    BY <2>3 DEF U!TypeOK
  <2>7. UClients' /\ UPaths'
    BY <2>1, <2>2, <2>4, <2>5, <2>6, UMoves
  <2> QED
    BY <2>3, <2>7 DEF UInv
<1>3. ASSUME NEW c \in UnixClients, U!Bind(c) PROVE UInv'
  <2>1. /\ upc[c] = "bind"
        /\ upc' = [upc EXCEPT ![c] = "connect"]
        /\ pid' = pid /\ uspc' = uspc /\ clifd' = clifd
        /\ path' = [path EXCEPT ![pid[c]] = c] /\ ubacklog' = ubacklog
        /\ reused' = IF \E d \in U!Calling \ {Nobody} : pid[d] = pid[c] THEN reused \cup {c} ELSE reused
    BY <1>3 DEF U!Bind, U!Client, U!server
  <2>2. pid[c] \in Pids /\ U!Running(c)
    BY <1>i, <2>1 DEF UClients, U!Running
  <2>3. U!TypeOK' /\ UServer'
    BY <1>t, <1>i, <2>1, <2>2 DEF U!TypeOK, UServer
  <2>4. U!Calling' = U!Calling
    BY <2>1 DEF U!Calling, U!ToSet
  <2>5. /\ path'[pid[c]] = c /\ \A p \in Pids : p # pid[c] => path'[p] = path[p]
        /\ c \notin reused' => \A d \in UnixClients \cap U!Calling : pid[d] # pid[c]
        /\ reused \subseteq reused' /\ reused' \subseteq reused \cup {c}
    BY <1>t, <2>1, <2>2, UConstants
  <2>6. pid' \in [UnixClients -> Pids \cup {Nobody}] /\ path' \in [Pids -> UnixClients \cup {Nobody}]
    BY <2>3 DEF U!TypeOK
  <2>7. UClients' /\ UPaths'
    BY <2>1, <2>2, <2>4, <2>5, <2>6, UMoves
  <2> QED
    BY <2>3, <2>7 DEF UInv
<1>4. ASSUME NEW c \in UnixClients, U!Connect(c) PROVE UInv'
  <2>1. /\ upc[c] = "connect"
        /\ upc' = [upc EXCEPT ![c] = "waiting"]
        /\ pid' = pid /\ uspc' = uspc /\ clifd' = clifd
        /\ path' = path /\ ubacklog' = Append(ubacklog, c) /\ reused' = reused
    BY <1>4 DEF U!Connect, U!Client, U!server
  <2>2. pid[c] \in Pids /\ U!Running(c)
    BY <1>i, <2>1 DEF UClients, U!Running
  <2>3. U!TypeOK' /\ UServer'
    BY <1>t, <1>i, <2>1, <2>2 DEF U!TypeOK, UServer
  <2>4. U!Calling' = U!Calling \cup {c}
    <3>1. ubacklog' \in Seq(UnixClients) /\ Len(ubacklog') = Len(ubacklog) + 1
      BY <1>t, <2>1
    <3>2. \A k \in 1..Len(ubacklog) : ubacklog'[k] = ubacklog[k]
      BY <1>t, <2>1
    <3>3. ubacklog'[Len(ubacklog) + 1] = c
      BY <1>t, <2>1
    <3>4. DOMAIN ubacklog = 1..Len(ubacklog) /\ DOMAIN ubacklog' = 1..Len(ubacklog) + 1 /\ Len(ubacklog) \in Nat
      BY <1>t, <3>1
    <3> QED
      BY <2>1, <3>2, <3>3, <3>4 DEF U!Calling, U!ToSet
  <2>5. c \notin reused => path[pid[c]] = c /\ \A d \in UnixClients \cap U!Calling : pid[d] = pid[c] => d = c
    BY <1>i, <2>1 DEF UPaths
  <2>6. pid' \in [UnixClients -> Pids \cup {Nobody}] /\ path' \in [Pids -> UnixClients \cup {Nobody}]
    BY <2>3 DEF U!TypeOK
  <2>7. UClients' /\ UPaths'
    BY <2>1, <2>2, <2>4, <2>5, <2>6, UMoves
  <2> QED
    BY <2>3, <2>7 DEF UInv
<1>5. ASSUME NEW c \in UnixClients, U!ConnectFails(c) PROVE UInv'
  <2>1. /\ upc[c] = "connect"
        /\ upc' = [upc EXCEPT ![c] = "ended"]
        /\ pid' = pid /\ uspc' = uspc /\ clifd' = clifd
        /\ path' = path /\ ubacklog' = ubacklog /\ reused' = reused
    BY <1>5 DEF U!ConnectFails, U!Client, U!server
  <2>2. pid[c] \in Pids /\ U!Running(c)
    BY <1>i, <2>1 DEF UClients, U!Running
  <2>3. U!TypeOK' /\ UServer'
    BY <1>t, <1>i, <2>1, <2>2 DEF U!TypeOK, UServer
  <2>4. U!Calling' = U!Calling
    BY <2>1 DEF U!Calling, U!ToSet
  <2>5. TRUE
    OBVIOUS
  <2>6. pid' \in [UnixClients -> Pids \cup {Nobody}] /\ path' \in [Pids -> UnixClients \cup {Nobody}]
    BY <2>3 DEF U!TypeOK
  <2>7. UClients' /\ UPaths'
    BY <2>1, <2>2, <2>4, <2>5, <2>6, UMoves
  <2> QED
    BY <2>3, <2>7 DEF UInv
<1>6. ASSUME NEW c \in UnixClients, U!Exit(c) PROVE UInv'
  <2>1. /\ upc[c] \notin {"none", "refused", "ended"} /\ U!Running(c)
        /\ upc' = [upc EXCEPT ![c] = "ended"]
        /\ pid' = pid /\ uspc' = uspc /\ clifd' = clifd
        /\ path' = path /\ ubacklog' = ubacklog /\ reused' = reused
    BY <1>6 DEF U!Exit, U!Running, U!server
  <2>2. pid[c] \in Pids
    BY <1>i, <2>1 DEF UClients
  <2>3. U!TypeOK' /\ UServer'
    BY <1>t, <1>i, <2>1, <2>2 DEF U!TypeOK, UServer
  <2>4. U!Calling' = U!Calling
    BY <2>1 DEF U!Calling, U!ToSet
  <2>5. pid' \in [UnixClients -> Pids \cup {Nobody}] /\ path' \in [Pids -> UnixClients \cup {Nobody}]
    BY <2>3 DEF U!TypeOK
  <2>6. UClients' /\ UPaths'
    BY <2>1, <2>2, <2>4, <2>5, UMoves
  <2> QED
    BY <2>3, <2>6 DEF UInv
<1>7. CASE U!Listen \/ U!Stat
  <2>1. /\ UNCHANGED <<upc, pid, path, ubacklog, clifd, reused>>
        /\ (uspc = "listen" /\ uspc' = "accept") \/ (uspc = "stat" /\ uspc' = "unlink")
    BY <1>7 DEF U!Listen, U!Stat
  <2>2. U!TypeOK'
    BY <1>t, <2>1 DEF U!TypeOK
  <2>3. UServer' /\ UClients' /\ UPaths'
    BY <1>i, <2>1 DEF UServer, UClients, UPaths, U!Calling, U!ToSet, U!Running
  <2> QED
    BY <2>2, <2>3 DEF UInv
<1>8. CASE U!Accept
  <2>1. /\ uspc = "accept" /\ ubacklog # <<>> /\ uspc' = "stat"
        /\ clifd' = Head(ubacklog) /\ ubacklog' = Tail(ubacklog)
        /\ upc' = upc /\ pid' = pid /\ path' = path /\ reused' = reused
    BY <1>8 DEF U!Accept
  <2>2. U!TypeOK'
    BY <1>t, <2>1 DEF U!TypeOK
  <2>3. clifd' \in UnixClients
    BY <1>t, <2>1
  <2>4. U!Calling' \subseteq U!Calling
    <3>1. /\ clifd' = ubacklog[1] /\ 1 \in 1..Len(ubacklog)
          /\ \A k \in 1..Len(ubacklog') : ubacklog'[k] = ubacklog[k+1] /\ k + 1 \in 1..Len(ubacklog)
          /\ DOMAIN ubacklog = 1..Len(ubacklog) /\ DOMAIN ubacklog' = 1..Len(ubacklog')
      BY <1>t, <2>1, HeadTailProperties
    <3> QED
      BY <3>1 DEF U!Calling, U!ToSet
  <2>5. UServer'
    BY <2>1, <2>3, UConstants DEF UServer
  <2>6. UClients' /\ UPaths'
    BY <1>i, <2>1, <2>4 DEF UClients, UPaths, U!Running
  <2> QED
    BY <2>2, <2>5, <2>6 DEF UInv
<1>9. CASE U!StatFails \/ U!UnlinkPath
  <2> DEFINE s == IF uspc = "stat" THEN "refused" ELSE "served"
  <2>1. /\ uspc \in {"stat", "unlink"} /\ uspc' = "accept" /\ clifd' = Nobody
        /\ upc' = [upc EXCEPT ![clifd] = IF upc[clifd] = "waiting" THEN s ELSE upc[clifd]]
        /\ uspc = "stat" => path[pid[clifd]] = Nobody
        /\ path' = path \/ path' = [path EXCEPT ![pid[clifd]] = Nobody]
        /\ pid' = pid /\ ubacklog' = ubacklog /\ reused' = reused
    BY <1>9 DEF U!StatFails, U!UnlinkPath
  <2>2. clifd \in UnixClients /\ clifd \in U!Calling
    BY <1>t, <1>i, <2>1 DEF UServer, U!Calling
  <2>3. upc[clifd] # "none" /\ pid[clifd] \in Pids
    BY <1>i, <2>2 DEF UClients
  <2>4. s \in {"refused", "served"}
    OBVIOUS
  <2> HIDE DEF s
  <2>5. /\ \A x \in UnixClients : x # clifd => upc'[x] = upc[x]
        /\ upc'[clifd] = IF upc[clifd] = "waiting" THEN s ELSE upc[clifd]
    BY <1>t, <2>1, <2>2
  <2>6. U!TypeOK'
    BY <1>t, <2>1, <2>2, <2>3, <2>4, UConstants DEF U!TypeOK
  <2>7. UServer'
    BY <2>1 DEF UServer
  <2>8. U!Calling' \subseteq U!Calling \cup {Nobody}
    BY <2>1 DEF U!Calling, U!ToSet
  <2>9. \A p \in Pids : p # pid[clifd] => path'[p] = path[p]
    BY <1>t, <2>1, <2>3
  <2>10. \A x \in UnixClients : /\ U!Running(x)' => U!Running(x)
                                /\ upc'[x] # "none" => upc[x] # "none"
                                /\ upc'[x] \in {"none", "unlink", "bind", "connect", "waiting"} =>
                                     upc'[x] = upc[x]
    BY <2>4, <2>5 DEF U!Running
  <2>11. UClients'
    <3>1. ASSUME NEW x \in UnixClients
          PROVE  /\ upc'[x] # "none" => pid'[x] \in Pids
                 /\ upc'[x] \in {"none", "unlink", "bind", "connect"} => x \notin U!Calling'
                 /\ upc'[x] = "bind" => path'[pid'[x]] = Nobody
      <4>1. upc'[x] = "bind" => path'[pid[x]] = Nobody
        BY <1>t, <1>i, <2>1, <2>3, <2>10 DEF UClients
      <4> QED
        BY <1>i, <2>1, <2>8, <2>10, <4>1, UConstants DEF UClients
    <3>2. ASSUME NEW x \in UnixClients, NEW y \in UnixClients,
                 U!Running(x)', U!Running(y)', pid'[x] = pid'[y]
          PROVE  x = y
      BY <1>i, <2>1, <2>10, <3>2 DEF UClients
    <3> QED
      BY <3>1, <3>2 DEF UClients
  <2>12. UPaths'
    <3> SUFFICES ASSUME NEW x \in UnixClients, x \notin reused
                 PROVE  /\ upc'[x] # "refused"
                        /\ upc'[x] \in {"connect", "waiting"} =>
                             /\ path'[pid'[x]] = x
                             /\ \A d \in UnixClients \cap U!Calling' : pid'[d] = pid'[x] => d = x
      BY <2>1 DEF UPaths
    <3>1. /\ upc[x] # "refused"
          /\ upc[x] \in {"connect", "waiting"} =>
               /\ path[pid[x]] = x /\ pid[x] \in Pids
               /\ \A d \in UnixClients \cap U!Calling : pid[d] = pid[x] => d = x
      BY <1>i DEF UPaths, UClients
    <3>2. upc'[x] # "refused"
      <4>1. CASE x = clifd /\ upc[x] = "waiting"
        <5>1. path[pid[clifd]] # Nobody
          BY <3>1, <4>1, UConstants
        <5>2. s = "served"
          BY <2>1, <5>1 DEF s
        <5> QED
          BY <2>5, <4>1, <5>2
      <4> QED
        BY <2>5, <3>1, <4>1
    <3>3. ASSUME upc'[x] \in {"connect", "waiting"}
          PROVE  path'[pid[x]] = x /\ \A d \in UnixClients \cap U!Calling' : pid[d] = pid[x] => d = x
      <4>1. upc[x] = upc'[x] /\ x # clifd
        <5>1. upc[x] = upc'[x]
          BY <2>10, <3>3
        <5>2. upc[clifd] # "connect"
          BY <1>i, <2>2 DEF UClients
        <5>3. upc'[clifd] # "waiting"
          BY <2>4, <2>5
        <5> QED
          BY <3>3, <5>1, <5>2, <5>3
      <4>2. pid[x] # pid[clifd]
        BY <2>2, <3>1, <3>3, <4>1
      <4> QED
        BY <2>8, <2>9, <3>1, <3>3, <4>1, <4>2, UConstants
    <3> QED
      BY <2>1, <3>2, <3>3
  <2> QED
    BY <2>6, <2>7, <2>11, <2>12 DEF UInv
<1> QED
  BY <1>0, <1>1, <1>2, <1>3, <1>4, <1>5, <1>6, <1>7, <1>8, <1>9
     DEF U!Next, U!Server, U!Idle, U!vars, U!server, uvars

LEMMA UOrder == UInv => U!PathsInOrder
  BY DEF UInv, UClients, UPaths, U!PathsInOrder

-----------------------------------------------------------------------------
(* The programs side by side                                               *)

(* Each program keeps its invariant.                                       *)
AllInv == SelInv /\ TInv /\ WInv /\ DInv /\ UInv

LEMMA AllInit == StartedInit => AllInv
  BY SelInit, TInit, WInit, DInit, UInit DEF StartedInit, AllInv

(* A step of one program is no step of the others, and starts no other.    *)
LEMMA OneAtATime ==
  ASSUME [StartedNext]_allVars
  PROVE  /\ [Next]_vars /\ [T!Next]_tvars /\ [W!Next]_wvars /\ [D!Next]_dvars
         /\ [U!Next]_uvars /\ UNCHANGED program
<1>0. CASE UNCHANGED allVars
  BY <1>0 DEF allVars
<1>1. CASE Selecting(Next)
  BY <1>1 DEF Selecting
<1>2. CASE Serving(T!Next)
  BY <1>2 DEF Serving
<1>3. CASE Browsing(W!Next)
  BY <1>3 DEF Browsing
<1>4. CASE Sending(D!Next)
  BY <1>4 DEF Sending
<1>5. CASE Meeting(U!Next)
  BY <1>5 DEF Meeting
<1> QED
  BY <1>0, <1>1, <1>2, <1>3, <1>4, <1>5 DEF StartedNext

LEMMA AllNext == AllInv /\ [StartedNext]_allVars => AllInv'
  BY OneAtATime, SelNext, TNext, WNext, DNext, UNext DEF AllInv

(* All the invariants hold in every reachable state.                       *)
THEOREM AllInvariant == StartedSpec => []AllInv
<1>1. StartedInit => AllInv
  BY AllInit
<1>2. AllInv /\ [StartedNext]_allVars => AllInv'
  BY AllNext
<1> QED
  BY <1>1, <1>2, PTL DEF StartedSpec

(* Every variable keeps its type: maxi, maxfd and nready of the select     *)
(* server stay within client[] and the descriptor set (TCP/server.c).      *)
THEOREM TypesKept == StartedSpec => []AllTypeOK
<1>1. AllInv => AllTypeOK
  BY DEF AllInv, SelInv, TInv, WInv, DInv, UInv, AllTypeOK
<1> QED
  BY <1>1, AllInvariant, PTL

(* client[], maxi, maxfd and allset of the select server describe the open *)
(* descriptors and nothing else, each time it calls select (TCP/server.c). *)
THEOREM TablesKept == StartedSpec => []TablesAgree
<1>1. AllInv => TablesAgree
  BY DEF AllInv, SelInv
<1> QED
  BY <1>1, AllInvariant, PTL

(* Leaving the scan as soon as nready is 0 skips nobody who is ready       *)
(* (TCP/server.c).                                                         *)
THEOREM NobodySkipped == StartedSpec => []NothingSkipped
<1>1. AllInv => NothingSkipped
  BY DEF AllInv, SelInv
<1> QED
  BY <1>1, AllInvariant, PTL

(* What a connected client has sent is unread, in the server's buffer or   *)
(* echoed, each byte once (TCP/server.c).                                  *)
THEOREM BytesKept == StartedSpec => []EveryByteAccountedFor
<1>1. AllInv => EveryByteAccountedFor
  BY SelEchoed DEF AllInv
<1> QED
  BY <1>1, AllInvariant, PTL

(* The select server never fails in select: it ends only when descriptors  *)
(* run out or by a write to a client that has gone (TCP/server.c).         *)
THEOREM EndsOnly == StartedSpec => EndsOnlyWhen
<1>1. AllInv /\ [StartedNext]_allVars =>
        [running /\ ~running' => Open = Fds \/ (pc = "write" /\ peer[At] # "up")]_vars
  BY OneAtATime, SelEnds DEF AllInv
<1> QED
  BY <1>1, AllInvariant, PTL DEF StartedSpec, EndsOnlyWhen

(* A worker has the descriptor of its own client, no client has two        *)
(* workers and none is answered before it has asked, unless accept of      *)
(* threadServTCP.cpp was faster than a thread; and one waitpid for each    *)
(* connection bounds the zombies of Webserver.c.                           *)
THEOREM WorkersKept == StartedSpec => []WorkersInOrder
<1>1. AllInv => WorkersInOrder
  BY TOrder DEF AllInv, WorkersInOrder
<1> QED
  BY <1>1, AllInvariant, PTL

(* Nothing of one answer of Webserver.c is left for the next, and client   *)
(* and server wait for each other only after Webclient.c has missed the    *)
(* end mark.                                                               *)
THEOREM AnswersKept == StartedSpec => []AnswersApart
<1>1. AllInv => AnswersApart
  BY WApart DEF AllInv, AnswersApart
<1> QED
  BY <1>1, AllInvariant, PTL

(* The server finds the path of every client that calls, unless a pid was  *)
(* used again too early (cli_conn.c, serv_accept.c).                       *)
THEOREM PathsKept == StartedSpec => []PathsInOrder
<1>1. AllInv => PathsInOrder
  BY UOrder DEF AllInv, PathsInOrder
<1> QED
  BY <1>1, AllInvariant, PTL

(* The UDP programs implement RequestReply: every step of theirs is a      *)
(* request, its answer, a client that gives up or none of these, where the *)
(* answer is to the last request until a datagram of the client has been   *)
(* duplicated; and up to then a client has one datagram under way at most. *)
(* Over the loopback address none is duplicated (UDP/client.c).            *)
THEOREM AnsweredWhatWasAsked == StartedSpec => RequestReplySpec
<1>1. StartedInit => D!Promise!Init
  BY DPromisedInit DEF StartedInit
<1>2. AllInv /\ [StartedNext]_allVars
        => [D!Promise!Next]_<<asked, answered, D!Waiting, duplicated>>
  <2> SUFFICES ASSUME AllInv, [StartedNext]_allVars
               PROVE  [D!Promise!Next]_<<asked, answered, D!Waiting, duplicated>>
    OBVIOUS
  <2>1. [D!Next]_dvars /\ UNCHANGED program
    BY OneAtATime
  <2>2. CASE D!Next
    BY <2>1, <2>2, DPromised DEF AllInv
  <2>3. CASE UNCHANGED dvars
    BY <2>1, <2>3 DEF dvars, D!Waiting
  <2> QED
    BY <2>1, <2>2, <2>3
<1>3. StartedSpec => D!Promise!Spec
  BY <1>1, <1>2, AllInvariant, PTL DEF StartedSpec, D!Promise!Spec
<1>4. AllInv => D!OneInFlight
  BY DOneInFlight DEF AllInv
<1>5. StartedSpec => []D!OneInFlight
  BY <1>4, AllInvariant, PTL
<1> QED
  BY <1>3, <1>5 DEF RequestReplySpec, D!RequestReplySpec

=============================================================================
