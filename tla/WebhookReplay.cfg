\* Three deliveries of one event with two nonces; one fault.
SPECIFICATION FairSpec
CONSTANTS
  Delivery = {d1, d2, d3}
  Nonce = {n1, n2}
  Event = {e1}
  None = None
  MaxFaults = 1
  Bindings = {"file", "valkey"}
INVARIANTS
  LockIsExclusive
  AtMostOneEffect
  ReplayIsOriginal
PROPERTIES
  ResponseStands
  ImplementsClaimPerKey
  EveryDeliveryEnds
CHECK_DEADLOCK FALSE
