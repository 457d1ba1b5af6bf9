\* Four children of the reaping programs: two exit while one is reaped, and a
\* fourth is still running.  The forking servers have a book of three for two
\* pids, so that a pid is reused and entered twice and the book overflows.
\* wrap.c reads two texts of three bytes, with a line end in the middle or none,
\* in chunks of two at most and with counts up to three, so that a byte is left in
\* the buffer while others are still to be read.  ps writes up to twice what the
\* pipe holds; two readers and two writers share the FIFO; a line of the shells
\* may hold a word and a redirection with `>>`.
CONSTANTS
  Children = {a, b, c, d}
  Pids = {p1, p2}
  BookSize = 3
  Clients = {c1, c2}
  Server = server
  Fds = {f1, f2}
  Length = 3
  LineEnds = {{}, {2}}
  BufSize = 2
  MaxCount = 3
  None = None
  PipeSize = 2
  MaxOutput = 4
  Readers = {r1, r2}
  Writers = {w1, w2}
  FifoSize = 2
  MaxWords = 4
  MaxSignals = 3
  MaxLine = 5
SPECIFICATION StartedFairSpec
INVARIANTS AllTypeOK ZombieNoticed ChildrenInOrder BytesAccountedFor StreamsWhole OneLostEach ArgumentsInOrder
PROPERTY NobodyForgotten
