CONSTANTS
  Posters = {p1, p2}
  Creator = p1
  Events = {e1, e2}
  NoEvent = NoEvent
  MaxGetOnce = 1
  PipeCapacity = 1
SPECIFICATION StartupSpec
INVARIANTS LinkedBeforeRun
CHECK_DEADLOCK FALSE
