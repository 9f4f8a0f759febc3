SPECIFICATION Spec
CONSTANTS
  Fds = {1, 2}
  Connectors = {c1, c2}
  Acceptors = {a1}
  None = None
  MaxUnread = 1
  MaxListens = 1
INVARIANTS TypeOK InterestFollowsMask HandlersOwnTheirFd DescriptorsOwned IndicatedOnce EdgePending AcceptorNeverClosed
SYMMETRY Symmetry
