SPECIFICATION Spec
CONSTANTS
  p1 = p1
  p2 = p2
  Instances = {p1, p2}
  NumMsgs = 2
  KeyOf <- TwoKeys
  Malformed = {}
  HandlerKeys <- RollingRelease
  MaxDeliver = 2
  DeliveryBound = 2
  MaxMsgs = 0
  BufCap = 2
  MaxStops = 1
INVARIANT AtLeastOnceIfDelivered
CHECK_DEADLOCK FALSE
