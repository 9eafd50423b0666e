SPECIFICATION KeyedSpec
CONSTANTS
  p1 = p1
  row = row
  Instances = {p1}
  NumMsgs = 2
  KeyOf <- OneKey
  Malformed = {}
  HandlerKeys <- OneRelease
  MaxDeliver = 2
  DeliveryBound = 2
  MaxMsgs = 0
  BufCap = 1
  MaxStops = 1
  Events = {row}
  Rows = {row}
  Unsendable = {}
  MaxFaults = 1
INVARIANTS ConfirmedIsDelivered CallsAreBounded
PROPERTY RowsGetSettled
CHECK_DEADLOCK FALSE
