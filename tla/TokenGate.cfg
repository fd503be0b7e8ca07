SPECIFICATION FairGateSpec
CONSTANTS
  Request = {r1, r2}
  Key = {k1, k2}
  Ttl = 1
  MaxFetch = 1
  LastMoment = 3
  NoKey = NoKey
INVARIANTS
  WithdrawnKeyDies
  UnavailableForCause
PROPERTIES
  EveryRequestIsAnswered
CHECK_DEADLOCK FALSE
