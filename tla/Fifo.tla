---------------------------------- MODULE Fifo ---------------------------------
(***************************************************************************)
(* bite/ipc/fifo_read.c and fifo_write.c: readers and writers that are     *)
(* started one by one and meet at the named pipe test.fifo.  Opening one   *)
(* side waits for somebody to open the other (IPC_note.txt:34-35).  A      *)
(* reader ends when it finds the pipe empty and no writer there; a writer  *)
(* ends when it is stopped, or killed because no reader is there.  What    *)
(* is in the pipe when the last of both leaves is gone.                    *)
(***************************************************************************)
EXTENDS Naturals, FiniteSets, SequencesExt

CONSTANTS Readers, Writers,
          Capacity,   \* of the pipe, in words
          MaxWords    \* bound: the words typed, numbered in the order of writing

VARIABLES pc,      \* "away", "open", "read", "eof" (a reader), "scanf", "write"
                   \* (a writer) or "ended"
          pipe,    \* the words in the pipe
          words,   \* the number of words written
          got,     \* the words readers have printed
          late,    \* history: the words written when every reader had seen the end
          lost     \* history: the words gone with the pipe

vars == <<pc, pipe, words, got, late, lost>>

Open(S) == {p \in S : pc[p] \notin {"away", "ended"}}
Reading == {r \in Readers : pc[r] = "read"}

Init == /\ pc = [p \in Readers \cup Writers |-> "away"]
        /\ pipe = <<>> /\ words = 0 /\ got = <<>>
        /\ late = {} /\ lost = {}

Step(p, from, to) == pc[p] = from /\ pc' = [pc EXCEPT ![p] = to]

-----------------------------------------------------------------------------
(* Whoever arrives lets those in who have waited at the other side.        *)
OpenOne(p, mine, others, opened, theirs) ==
  /\ p \in mine /\ pc[p] = "away"
  /\ pc' = [q \in DOMAIN pc |-> IF q = p THEN IF Open(others) = {} THEN "open" ELSE opened
                                ELSE IF q \in others /\ pc[q] = "open" THEN theirs
                                ELSE pc[q]]
  /\ UNCHANGED <<pipe, words, got, late, lost>>

OpenRead(r) == OpenOne(r, Readers, Writers, "read", "scanf")
OpenWrite(w) == OpenOne(w, Writers, Readers, "scanf", "read")

(* mkfifo or open fails.                                                   *)
OpenFails(p) == /\ Step(p, "away", "ended")
                /\ UNCHANGED <<pipe, words, got, late, lost>>

(* Process p leaves; the last one takes the pipe with it.                  *)
Leave(p) == /\ pc' = [pc EXCEPT ![p] = "ended"]
            /\ IF Open(Readers \cup Writers) = {p}
               THEN lost' = lost \cup ToSet(pipe) /\ pipe' = <<>>
               ELSE UNCHANGED <<lost, pipe>>
            /\ UNCHANGED <<words, got, late>>

-----------------------------------------------------------------------------
(* fifo_read.c                                                             *)

(* Seeded fault: a short read is taken for the end.                        *)
ReadShort(r) == /\ Step(r, "read", "eof") /\ pipe # <<>>
                /\ got' = Append(got, Head(pipe)) /\ pipe' = Tail(pipe)
                /\ UNCHANGED <<words, late, lost>>

(* One read takes what is there, up to the size of its buffer.             *)
Read(r) == /\ pc[r] = "read"
           /\ \E k \in 1..Len(pipe) : /\ got' = got \o SubSeq(pipe, 1, k)
                                      /\ pipe' = SubSeq(pipe, k + 1, Len(pipe))
           /\ UNCHANGED <<pc, words, late, lost>>

(* read returns 0; the reader is still there until it returns from main.   *)
ReadEnd(r) == /\ Step(r, "read", "eof")
              /\ pipe = <<>> /\ Open(Writers) = {}
              /\ UNCHANGED <<pipe, words, got, late, lost>>

ReaderEnds(r) == pc[r] = "eof" /\ Leave(r)

Reader(r) == Read(r) \/ ReadEnd(r) \/ ReaderEnds(r)

-----------------------------------------------------------------------------
(* fifo_write.c                                                            *)

Scanf(w) == /\ Step(w, "scanf", "write")
            /\ words + Cardinality({v \in Writers : pc[v] = "write"}) < MaxWords
            /\ UNCHANGED <<pipe, words, got, late, lost>>

Write(w) == /\ Step(w, "write", "scanf")
            /\ Open(Readers) # {} /\ Len(pipe) < Capacity
            /\ words' = words + 1
            /\ pipe' = Append(pipe, words')
            /\ late' = IF Reading = {} THEN late \cup {words'} ELSE late
            /\ UNCHANGED <<got, lost>>

SigPipe(w) == pc[w] = "write" /\ Open(Readers) = {} /\ Leave(w)

Stopped(w) == w \in Open(Writers) /\ Leave(w)

Writer(w) == Write(w) \/ SigPipe(w)

-----------------------------------------------------------------------------
(* Nobody is there but those who wait for the other side or for input.     *)
Idle == /\ Reading = {} \/ (pipe = <<>> /\ Open(Writers) # {})
        /\ UNCHANGED vars

Next == \/ \E p \in Readers \cup Writers : OpenFails(p)
        \/ \E r \in Readers : OpenRead(r) \/ Reader(r)
        \/ \E w \in Writers : OpenWrite(w) \/ Scanf(w) \/ Writer(w) \/ Stopped(w)
        \/ Idle

Spec == Init /\ [][Next]_vars

(* Processes run; nobody need type anything or stop a writer.              *)
FairSpec == /\ Spec
            /\ \A r \in Readers : WF_vars(Reader(r))
            /\ \A w \in Writers : WF_vars(Writer(w))

-----------------------------------------------------------------------------
TypeOK == /\ pc \in [Readers \cup Writers -> {"away", "open", "read", "eof", "scanf",
                                              "write", "ended"}]
          /\ words \in 0..MaxWords /\ Len(pipe) <= Capacity
          /\ late \subseteq 1..words /\ lost \subseteq 1..words

(* Readers print, in the order of writing, every word that was written     *)
(* while one of them was still reading: only what is written after the     *)
(* last had seen the end can be lost (IPC_note.txt:38 promises a reliable  *)
(* stream).  Nothing is left over for later programs.                      *)
OnlyLateLost == LET seen == got \o pipe IN
  /\ lost \subseteq late
  /\ ToSet(seen) \cup lost = 1..words
  /\ \A m, n \in 1..Len(seen) : m < n => seen[m] < seen[n]
  /\ Open(Readers \cup Writers) = {} => pipe = <<>>

(* A reader comes to its end after the writers, and nobody stays in write. *)
FifoEnds == /\ \A r \in Readers : []<>(pc[r] # "read" \/ Open(Writers) # {})
            /\ \A w \in Writers : []<>(pc[w] # "write")

=============================================================================
