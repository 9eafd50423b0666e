SPECIFICATION Spec
CONSTANTS
  Scripts <- ReadmeExample
  Streams = {"events", "audit"}
  Publishers = {"p1", "p2"}
  RoutingKeys <- AllKeys
  MaxStarts = 1
  MaxFaults = 0
INVARIANT OwnMaxDeliverWins
CHECK_DEADLOCK FALSE
