SPECIFICATION Spec
CONSTANTS
  r1 = r1
  r2 = r2
  s1 = s1
  s2 = s2
  Requests = {r1, r2}
  Replicas = {s1, s2}
  Malformed = {r2}
  MaxTries = 2
  MaxStops = 2
SYMMETRY Symmetry
INVARIANTS TypeOK NilMeansHandled OncePerReplica NilFromConsumerIsFailure
CHECK_DEADLOCK FALSE
