------------------------------- MODULE WebStream -------------------------------
(***************************************************************************)
(* One connection of the web server: server() of Webserver.c, run by the   *)
(* child of a client, and Webclient.c.                                     *)
(*                                                                         *)
(* The stream is a sequence of pieces.  server() writes whole buffers of   *)
(* MAXLINE bytes for a header and for the 404 page: the text, the NUL that *)
(* sprintf ends it with, and what the buffer held behind it ("stale").     *)
(* The client reads what there is, however the writes were cut, and looks  *)
(* for the end mark with strstr, which stops at the first NUL.  A read     *)
(* takes any number of pieces: MAXLINE limits it only if it begins with    *)
(* the first byte of a header, and a text is as good read in two parts.    *)
(* The mark is two pieces, so that a read can end inside it.  Files are    *)
(* text and do not hold the mark.                                          *)
(***************************************************************************)
EXTENDS Naturals, SequencesExt

CONSTANT MaxChunks     \* bound: the reads a file takes

VARIABLES spc,     \* of server(): "read", "header", "body", "notFound", "mark" or "ended"
          stream,  \* written and not read yet
          chunks,  \* of the file that are still to be written
          cpc,     \* of Webclient.c: "input", "read", "crashed" or "ended"
          request, \* whether a request is on its way
          begun,   \* history: whether the answer has been read from
          unseen   \* history: the mark was read in parts or behind a NUL

vars == <<spc, stream, chunks, cpc, request, begun, unseen>>

Pieces == {"text", "NUL", "stale", "FI", "N"}
Mark == <<"FI", "N">>
Padded == <<"text", "NUL", "stale">>       \* write(connfd, buf, sizeof(buf))

Init == /\ spc = "read" /\ cpc = "input"
        /\ stream = <<>>
        /\ chunks = 0 /\ request = FALSE /\ begun = FALSE /\ unseen = FALSE

-----------------------------------------------------------------------------
(* server(connfd)                                                          *)

Server(from, to) == spc = from /\ spc' = to

(* A request comes; its file opens or not.  Webclient.c sends a request in *)
(* one write that begins with GET, so that none is ignored (line 27).      *)
Read == /\ Server("read", "header") \/ Server("read", "notFound")
        /\ request /\ request' = FALSE
        /\ UNCHANGED <<stream, chunks, cpc, begun, unseen>>

(* read returns 0: the client has closed the connection.                   *)
ReadEnd == /\ Server("read", "ended")
           /\ cpc \in {"ended", "crashed"} /\ ~request
           /\ UNCHANGED <<stream, chunks, cpc, request, begun, unseen>>

WriteHeader == /\ Server("header", "body")
               /\ stream' = stream \o Padded
               /\ chunks' \in 0..MaxChunks
               /\ UNCHANGED <<cpc, request, begun, unseen>>

WriteChunk == /\ Server("body", "body") /\ chunks > 0
              /\ stream' = Append(stream, "text")
              /\ chunks' = chunks - 1
              /\ UNCHANGED <<cpc, request, begun, unseen>>

WriteNotFound == /\ Server("notFound", "mark")
                 /\ stream' = stream \o Padded \o Padded
                 /\ UNCHANGED <<chunks, cpc, request, begun, unseen>>

FileEnd == /\ Server("body", "mark") /\ chunks = 0
           /\ UNCHANGED <<stream, chunks, cpc, request, begun, unseen>>

(* Seeded fault: the mark is written after every request, again.           *)
WriteMarkTwice == /\ Server("mark", "read")
                  /\ stream' = stream \o Mark \o Mark
                  /\ UNCHANGED <<chunks, cpc, request, begun, unseen>>

WriteMark == /\ Server("mark", "read")
             /\ stream' = stream \o Mark
             /\ UNCHANGED <<chunks, cpc, request, begun, unseen>>

(* A write to a client that has gone kills the child; or somebody does.    *)
Killed == /\ spc # "ended" /\ spc' = "ended"
          /\ UNCHANGED <<stream, chunks, cpc, request, begun, unseen>>

server == \/ Read \/ ReadEnd \/ WriteHeader \/ WriteChunk \/ WriteNotFound
          \/ FileEnd \/ WriteMark

-----------------------------------------------------------------------------
(* Webclient.c                                                             *)

Client(from, to) == cpc = from /\ cpc' = to

Request == /\ Client("input", "read")
           /\ request' = TRUE /\ begun' = FALSE
           /\ UNCHANGED <<spc, stream, chunks, unseen>>

(* The next write after the end of the connection kills it.                *)
RequestKills == /\ Client("input", "ended") /\ spc = "ended"
                /\ UNCHANGED <<spc, stream, chunks, request, begun, unseen>>

InputEnds == /\ Client("input", "ended")
             /\ UNCHANGED <<spc, stream, chunks, request, begun, unseen>>

(* What strstr sees of the pieces read.                                    *)
Visible(pieces) == LET IsNul(piece) == piece = "NUL"
                       end == SelectInSeq(pieces, IsNul)
                   IN IF end = 0 THEN pieces ELSE SubSeq(pieces, 1, end - 1)

HasMark(pieces) == \E k \in 1..Len(pieces)-1 : SubSeq(pieces, k, k + 1) = Mark

(* read(sockfd, buf, MAXLINE) > 0.  What is read after the mark is dropped. *)
ReadSome == /\ cpc = "read"
            /\ \E n \in 1..Len(stream) :
                 LET buf == SubSeq(stream, 1, n)
                 IN /\ stream' = SubSeq(stream, n + 1, Len(stream))
                    /\ cpc' = IF HasMark(Visible(buf)) THEN "input" ELSE "read"
                    /\ unseen' = (cpc' = "read" /\ (unseen \/ Contains(buf, "N")))
            /\ begun' = TRUE
            /\ UNCHANGED <<spc, chunks, request>>

(* read returns 0 or -1, tmp is what the last strstr of this answer        *)
(* returned, NULL, and *tmp is written to.  If there was none, tmp is not  *)
(* initialised and may still point into buf.                               *)
ReadNone == /\ cpc = "read" /\ spc = "ended" /\ stream = <<>>
            /\ cpc' \in IF begun THEN {"crashed"} ELSE {"crashed", "input"}
            /\ request' = FALSE
            /\ UNCHANGED <<spc, stream, chunks, begun, unseen>>

client == Request \/ RequestKills \/ InputEnds \/ ReadSome \/ ReadNone

(* Both wait for each other, or both have ended.                           *)
Waiting == cpc = "read" /\ stream = <<>> /\ spc = "read" /\ ~request
Over == spc = "ended" /\ cpc \in {"ended", "crashed"}
Idle == (Waiting \/ Over) /\ UNCHANGED vars

Next == server \/ Killed \/ client \/ Idle

Spec == Init /\ [][Next]_vars

(* Both processes run while they are not waiting for input.                *)
FairSpec == Spec /\ WF_vars(server) /\ WF_vars(ReadSome) /\ WF_vars(ReadNone)

-----------------------------------------------------------------------------
TypeOK == /\ spc \in {"read", "header", "body", "notFound", "mark", "ended"}
          /\ cpc \in {"input", "read", "crashed", "ended"}
          /\ stream \in Seq(Pieces)
          /\ chunks \in 0..MaxChunks
          /\ request \in BOOLEAN /\ begun \in BOOLEAN /\ unseen \in BOOLEAN

(* Nothing of one answer is left for the next: when the client asks again  *)
(* it has read everything and the server waits for a request.  The two     *)
(* wait for each other only after a mark was read in parts or behind a     *)
(* NUL, and the client crashes only after the server's end.                *)
AnswersApart == /\ cpc = "input" => stream = <<>> /\ spc \in {"read", "ended"}
                /\ Waiting => unseen
                /\ cpc = "crashed" => spc = "ended"

(* The client comes to the end of every answer whose mark it can see.      *)
AnswersEnd == []<>(cpc # "read" \/ unseen)

=============================================================================
