SPECIFICATION Spec
CONSTANTS
  Worker = {w1, w2, w3}
  Subject = {s1}
  Label = {l1, l2}
  Case = {c1}
  MaxTime = 2
  None = None
PROPERTIES
  NoLostPatch
  LaneEnteredIdle
CHECK_DEADLOCK FALSE
