SPECIFICATION Spec
CONSTANTS
  p1 = p1
  p2 = p2
  Instances = {p1, p2}
  BackOff <- TwoEntries
  MaxDeliver = 3
  Cap = 2
  HandlerTimes = {1, 2}
  MaxTime = 11
INVARIANT NakFollowsSchedule
CHECK_DEADLOCK FALSE
