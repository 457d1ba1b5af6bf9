\* The select server has descriptors 4 and 5 for three clients: entries are
\* freed and filled again, and the third client may find no descriptor left.  The
\* other TCP servers have the same descriptors for two clients and three workers,
\* so that numbers come back while a thread still uses them; 4 is also the pid of
\* a child.  A file of the web server takes up to two writes.  Three UNIX domain
\* clients share two pids.
CONSTANTS
  Clients = {a, b, c}
  FD_SETSIZE = 6
  MaxBytes = 1
  Nobody = Nobody
  TcpClients = {a, b}
  Descriptors = {4, 5}
  Workers = {4, 8, 9}
  Parent = Parent
  MaxChunks = 2
  UdpClients = {a, b}
  MaxRequests = 2
  UnixClients = {a, b, c}
  Pids = {p1, p2}
SPECIFICATION StartedFairSpec
INVARIANTS AllTypeOK TablesAgree NothingSkipped EveryByteAccountedFor WorkersInOrder AnswersApart PathsInOrder
PROPERTIES EndsOnlyWhen RequestReplySpec EveryClientServed
