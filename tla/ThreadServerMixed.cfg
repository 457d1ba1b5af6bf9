CONSTANTS
  Clients = {a, b}
  Fds = {4, 5}
  Workers = {4, 8, 9}
  Server = Server
  None = None
SPECIFICATION Spec
INVARIANT ThroughItsConnection
