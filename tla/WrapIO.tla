------------------------------- MODULE WrapIO --------------------------------
(***************************************************************************)
(* LinuxC/socket/TCP/wrap.c (the same file is in UDP/): Readn, Writen, and *)
(* Readline on top of my_read, over descriptors whose read and write may   *)
(* move fewer bytes than asked for, be interrupted, or fail.  my_read      *)
(* keeps what it has read ahead in one static buffer for all descriptors.  *)
(*                                                                         *)
(* One thread calls the three in any order on any descriptor.  What can be *)
(* read at descriptor f is a text of Length bytes, of which only line ends *)
(* matter; byte k of it is <<f, k>>.  What is written is numbered from 1   *)
(* in every call.  Program counters: idle, readn, writen, readline and     *)
(* fill (the read in my_read).  A read or write that is interrupted is     *)
(* repeated, which changes nothing.                                        *)
(***************************************************************************)
EXTENDS Integers, Sequences, Functions

CONSTANTS Fds, NoFd,
          Length,    \* bound: the bytes there are to read at each descriptor
          LineEnds,  \* bound: the sets of positions where a text has line ends
          BufSize,   \* 100 in my_read
          MaxCount   \* bound: the n and maxlen of a call

VARIABLES newline,   \* of each text: the positions of its line ends
          taken,     \* of each descriptor: how many bytes have been read
          read_buf,  \* the bytes from read_ptr on; read_cnt is their number
          fd, count, \* arguments of the call: descriptor, n or maxlen
          nleft,     \* Readn, Writen
          out,       \* the bytes stored for the caller, or passed to write
          given,     \* history, of each descriptor: the numbers of its bytes in the
                     \* order in which callers got them, each with the call
          kept,      \* history: read_buf as the call found it
          ret,       \* what the call has returned, 0 until then
          op,        \* the call: "Readn", "Writen" or "Readline"
          pc

call == <<fd, count, op, kept>>
vars == <<newline, taken, read_buf, call, nleft, out, given, ret, pc>>

Bytes == Fds \X (1..Length)
Given == [number : 1..Length, by : {"Readn", "Readline"}]
left == Length - taken[fd]

Init == /\ newline \in [Fds -> LineEnds]
        /\ taken = [f \in Fds |-> 0]
        /\ read_buf = <<>>
        /\ fd = NoFd /\ count = 0 /\ nleft = 0 /\ op = "none"
        /\ out = <<>> /\ given = [f \in Fds |-> <<>>] /\ kept = <<>> /\ ret = 0
        /\ pc = "idle"

Call(f, n) == /\ pc = "idle"
              /\ fd' = f /\ count' = n /\ nleft' = n /\ kept' = read_buf
              /\ \/ op' = "Readn" /\ pc' = "readn"
                 \/ op' = "Writen" /\ pc' = "writen"
                 \/ op' = "Readline" /\ pc' = "readline"
              /\ out' = <<>> /\ ret' = 0
              /\ UNCHANGED <<newline, taken, read_buf, given>>

Return(r) == pc' = "idle" /\ ret' = r

(* The next k bytes of descriptor fd.                                      *)
Next_k(k) == [m \in 1..k |-> <<fd, taken[fd] + m>>]
Take(k) == taken' = [taken EXCEPT ![fd] = @ + k]

(* The caller gets bytes of descriptor f.                                  *)
Store(f, bytes) ==
  /\ out' = out \o bytes
  /\ given' = [given EXCEPT ![f] =
                 @ \o [m \in DOMAIN bytes |-> [number |-> bytes[m][2], by |-> op]]]

(* Seeded fault: nread stays -1 when read was interrupted.                 *)
ReadnReadMinusOne == /\ pc = "readn" /\ nleft > 0
                     /\ nleft' = nleft + 1
                     /\ UNCHANGED <<newline, taken, read_buf, call, out, given, ret, pc>>

(* read moves k bytes, or none at the end of the text.                     *)
ReadnRead == /\ pc = "readn" /\ nleft > 0
             /\ \E k \in 1..nleft : /\ k <= left
                                    /\ Take(k) /\ Store(fd, Next_k(k))
                                    /\ nleft' = nleft - k
             /\ UNCHANGED <<newline, read_buf, call, ret, pc>>

ReadnReturn == /\ pc = "readn" /\ (nleft = 0 \/ left = 0)
               /\ Return(count - nleft)
               /\ UNCHANGED <<newline, taken, read_buf, call, nleft, out, given>>

(* An error other than EINTR; after that one the loop goes on.             *)
ReadnFails == /\ pc = "readn" /\ nleft > 0
              /\ Return(-1)
              /\ UNCHANGED <<newline, taken, read_buf, call, nleft, out, given>>

WritenWrite == /\ pc = "writen" /\ nleft > 0
               /\ \E k \in 1..nleft :
                    /\ out' = out \o [m \in 1..k |-> count - nleft + m]
                    /\ nleft' = nleft - k
               /\ UNCHANGED <<newline, taken, read_buf, call, given, ret, pc>>

WritenReturn == /\ pc = "writen" /\ nleft = 0
                /\ Return(count)
                /\ UNCHANGED <<newline, taken, read_buf, call, nleft, out, given>>

WritenFails == /\ pc = "writen" /\ nleft > 0
               /\ Return(-1)
               /\ UNCHANGED <<newline, taken, read_buf, call, nleft, out, given>>

-----------------------------------------------------------------------------
(* Readline, whose n is Len(out) + 1.                                      *)

Ends(byte) == byte[2] \in newline[byte[1]]

(* Seeded fault: my_read does not count the byte down.                     *)
ReadlineByteAgain == /\ pc = "readline" /\ Len(out) + 1 < count
                     /\ read_buf # <<>>
                     /\ Store(Head(read_buf)[1], <<Head(read_buf)>>)
                     /\ IF Ends(Head(read_buf)) THEN Return(Len(out) + 1)
                                                ELSE UNCHANGED <<pc, ret>>
                     /\ UNCHANGED <<newline, taken, read_buf, call, nleft>>

(* my_read finds a byte in the buffer; a line end ends the line.           *)
ReadlineByte == /\ pc = "readline" /\ Len(out) + 1 < count
                /\ read_buf # <<>>
                /\ Store(Head(read_buf)[1], <<Head(read_buf)>>)
                /\ read_buf' = Tail(read_buf)
                /\ IF Ends(Head(read_buf)) THEN Return(Len(out) + 1)
                                           ELSE UNCHANGED <<pc, ret>>
                /\ UNCHANGED <<newline, taken, call, nleft>>

(* The line is as long as the caller's buffer allows.                      *)
ReadlineFull == /\ pc = "readline" /\ Len(out) + 1 >= count
                /\ Return(Len(out) + 1)
                /\ UNCHANGED <<newline, taken, read_buf, call, nleft, out, given>>

ReadlineEmpty == /\ pc = "readline" /\ Len(out) + 1 < count
                 /\ read_buf = <<>>
                 /\ pc' = "fill"
                 /\ UNCHANGED <<newline, taken, read_buf, call, nleft, out, given, ret>>

Fill == /\ pc = "fill"
        /\ \E k \in 1..BufSize : /\ k <= left
                                 /\ Take(k) /\ read_buf' = Next_k(k)
        /\ pc' = "readline"
        /\ UNCHANGED <<newline, call, nleft, out, given, ret>>

FillEnd == /\ pc = "fill" /\ left = 0
           /\ Return(Len(out))
           /\ UNCHANGED <<newline, taken, read_buf, call, nleft, out, given>>

FillFails == /\ pc = "fill"
             /\ Return(-1)
             /\ UNCHANGED <<newline, taken, read_buf, call, nleft, out, given>>

Next == \/ \E f \in Fds, n \in 1..MaxCount : Call(f, n)
        \/ ReadnRead \/ ReadnReturn \/ ReadnFails
        \/ WritenWrite \/ WritenReturn \/ WritenFails
        \/ ReadlineByte \/ ReadlineFull \/ ReadlineEmpty
        \/ Fill \/ FillEnd \/ FillFails

Spec == Init /\ [][Next]_vars

-----------------------------------------------------------------------------
TypeOK == /\ newline \in [Fds -> LineEnds]
          /\ taken \in [Fds -> 0..Length]
          /\ \A m \in DOMAIN read_buf : read_buf[m] \in Bytes
          /\ Len(read_buf) <= BufSize
          /\ fd \in Fds \cup {NoFd} /\ count \in 0..MaxCount
          /\ nleft \in 0..MaxCount
          /\ Len(out) <= MaxCount
          /\ DOMAIN given = Fds
          /\ \A f \in Fds : \A m \in DOMAIN given[f] : given[f][m] \in Given
          /\ \A m \in DOMAIN kept : kept[m] \in Bytes
          /\ ret \in -1..MaxCount
          /\ op \in {"none", "Readn", "Writen", "Readline"}
          /\ pc \in {"idle", "readn", "writen", "readline", "fill"}

(* No byte is lost or handed out twice, whatever the chunks and whichever  *)
(* descriptor is read: each byte taken is in the buffer or was stored for  *)
(* a caller once.                                                          *)
HandedOut(b) == \E m \in DOMAIN given[b[1]] : given[b[1]][m].number = b[2]
NoByteLost ==
  /\ \A b \in Bytes : b[2] <= taken[b[1]] <=> HandedOut(b) \/ b \in Range(read_buf)
  /\ \A b \in Range(read_buf) : ~ HandedOut(b)
  /\ IsInjective(read_buf)
  /\ \A f \in Fds : \A m, n \in DOMAIN given[f] :
       given[f][m].number = given[f][n].number => m = n

(* Over all calls the bytes of one descriptor are handed out in order,     *)
(* with one exception: Readn reads past what my_read has read ahead, and   *)
(* a Readline gets that later (wrap.c:94, 133).                            *)
InOrder ==
  \A f \in Fds : \A m, n \in DOMAIN given[f] :
    m < n => \/ given[f][m].number < given[f][n].number
             \/ given[f][m].by = "Readn" /\ given[f][n].by = "Readline"

(* Readn hands out the next bytes of its own descriptor, Writen passes on  *)
(* what it was given from the first byte on.  Readline hands out first     *)
(* what earlier calls have left in the buffer, from whichever descriptor   *)
(* that is (wrap.c:133), and nothing but that and bytes of its own one.    *)
WhoseBytes ==
  /\ op = "Readn" => out = [m \in 1..Len(out) |-> <<fd, taken[fd] - Len(out) + m>>]
  /\ op = "Writen" => out = [m \in 1..Len(out) |-> m]
  /\ op = "Readline" =>
       /\ \A b \in Range(out) \cup Range(read_buf) : b[1] = fd \/ b \in Range(kept)
       /\ \/ Range(kept) \subseteq Range(out)
          \/ Range(out) \cup Range(read_buf) \subseteq Range(kept)

(* What a call has stored agrees with what it returns.  Readn stores n     *)
(* bytes, less only at the end of the text; Writen writes all; Readline    *)
(* stores a line, or what there is at the end, and says how many bytes,    *)
(* except that it counts its final 0 when the line did not fit             *)
(* (wrap.c:106, 126, 162, 167).                                            *)
ReturnAgrees ==
  pc = "idle" /\ ret # -1 =>
    /\ op = "Readn" => ret = Len(out) /\ (ret < count => left = 0)
    /\ op = "Writen" => ret = count /\ out = [m \in 1..count |-> m]
    /\ op = "Readline" =>
         /\ \A m \in 1..Len(out)-1 : ~Ends(out[m])
         /\ \/ ret = Len(out) /\ ret > 0 /\ Ends(out[ret])
            \/ ret = Len(out) /\ left = 0 /\ read_buf = <<>>
            \/ ret = count /\ Len(out) = count - 1

(* All four: what wrap.c takes reaches a caller once, in order and from    *)
(* the caller's own descriptor, but for the buffer that all descriptors    *)
(* share and Readn does not look into.                                     *)
BytesAccountedFor == NoByteLost /\ InOrder /\ WhoseBytes /\ ReturnAgrees

=============================================================================
