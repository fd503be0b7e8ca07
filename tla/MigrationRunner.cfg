SPECIFICATION Spec
CONSTANTS
  Runner = {r1, r2}
  Last = 2
  Content = {c1, c2}
  Repeatable = {2}
  Piecemeal = {c2}
  Half = Half
  None = None
INVARIANTS
  RecordedIsApplied
  OkIsTrue
PROPERTIES
  AppliedInOrder
CHECK_DEADLOCK FALSE
