SPECIFICATION FairSpec
CONSTANTS
  Fds = {1, 2}
  Connectors = {c1}
  Acceptors = {a1}
  None = None
  MaxUnread = 1
  MaxListens = 1
PROPERTIES ConnectAnswered
