SPECIFICATION TelSpec
CONSTANTS
  p1 = p1
  p2 = p2
  Instances = {p1, p2}
  NumMsgs = 2
  KeyOf <- TwoKeys
  Malformed = {2}
  HandlerKeys <- RollingRelease
  MaxDeliver = 0
  DeliveryBound = 2
  MaxMsgs = 1
  BufCap = 1
  MaxStops = 1
  Cap <- ErrorsOnly
INVARIANTS SettledByHandler TelTypeOK ReceivedAccounted NotificationsMatchCounters CountersCoverServer CallbackNeverBlocks
PROPERTY KeepsPromise
CHECK_DEADLOCK FALSE
