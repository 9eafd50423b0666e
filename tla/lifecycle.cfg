SPECIFICATION Spec
CONSTANTS
  Scripts <- AllScripts
  Streams = {"events", "audit"}
  Publishers = {"p1", "p2"}
  RoutingKeys <- AllKeys
  MaxStarts = 2
  MaxFaults = 1
INVARIANTS TypeOK EverythingServed NothingLeftRunning OneConsumerPerGroup SettingsReachConsumers
  TopologyIsDeclared HandlerIsUnique PublisherGoesWhereWired
PROPERTY ClosedForGood
CHECK_DEADLOCK FALSE
