SPECIFICATION FairSpec
CONSTANTS
  MaxConnects = 2
  MaxAccepts = 1
  MaxListens = 1
PROPERTIES TransportNotLost ProxyDeleted
CHECK_DEADLOCK FALSE
