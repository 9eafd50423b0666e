SPECIFICATION FairSpec
CONSTANTS
  p1 = p1
  p2 = p2
  Instances = {p1, p2}
  NumMsgs = 2
  KeyOf <- TwoKeys
  Malformed = {1}
  HandlerKeys <- RollingRelease
  MaxDeliver = 2
  DeliveryBound = 2
  MaxMsgs = 0
  BufCap = 1
  MaxStops = 1
INVARIANTS TypeOK SettledByHandler AtLeastOnce OneCallPerDelivery
PROPERTIES KeepsPromise EventuallySettled
CHECK_DEADLOCK FALSE
