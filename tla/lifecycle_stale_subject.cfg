SPECIFICATION Spec
CONSTANTS
  Scripts <- Rewired
  Streams = {"events", "audit"}
  Publishers = {"p1", "p2"}
  RoutingKeys <- AllKeys
  MaxStarts = 1
  MaxFaults = 0
INVARIANT StreamSubjects
CHECK_DEADLOCK FALSE
