SPECIFICATION Spec
CONSTANTS
  Worker = {w1, w2, w3}
  Grant = {g1}
  Expiry = {2, 3}
  MaxTime = 3
  None = None
PROPERTIES
  FirstInstantStands
  ImplementsPromise
CHECK_DEADLOCK FALSE
