\* Three attempts share one key; two faults.
SPECIFICATION FairSpec
CONSTANTS
  Attempt = {a1, a2, a3}
  Key = {k1}
  Body = {b1, b2}
  Target = {t1}
  None = None
  MaxFaults = 2
INVARIANTS
  SoleHolder
  AtMostOneAcknowledgedEffect
  ReplayIsOriginal
  ReuseIsConflict
PROPERTIES
  EveryAttemptEnds
  ImplementsOncePerKey
CHECK_DEADLOCK FALSE
