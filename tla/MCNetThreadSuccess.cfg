SPECIFICATION Spec
CONSTANTS
  Fds = {1, 2}
  Connectors = {c1, c2}
  Acceptors = {a1}
  None = None
  MaxUnread = 2
  MaxListens = 1
INVARIANTS SuccessIsReal
