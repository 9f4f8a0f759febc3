CONSTANTS
  Posters = {p1, p2}
  Events = {e1, e2}
  NoEvent = NoEvent
  MaxGetOnce = 1
  PipeCapacity = 2
SPECIFICATION FairSpec
INVARIANTS NoLostWakeup RefusedNotifyHarmless NoUseAfterDelete
PROPERTIES SendReturnsResult ServiceSpec PostedEventsFire SendEventReturns StopClosesReactor
CHECK_DEADLOCK FALSE
