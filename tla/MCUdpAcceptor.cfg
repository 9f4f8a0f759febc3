SPECIFICATION Spec
CONSTANTS
  Fds = {1, 2}
  Addrs = {x, y}
  Peers = {p, q}
  MaxListens = 3
  MaxTransports = 3
INVARIANTS TableExact SocketKept AssertionsKept
CHECK_DEADLOCK FALSE
