SPECIFICATION Spec
CONSTANTS
  Row = {1, 2, 3}
  Scope = {s1, s2}
  Routes = {"cases", "subjects", "audit"}
  Micros = 2
  Span = 1
  MaxSpan = 2
  Limits = {1, 2}
  Asked = {0, 2}
  MaxClock = 4
  Lag = 1
  MaxWrites = 4
  None = None
INVARIANTS
  WalkIsComplete
  ContinuationIsAccepted
  CursorIsBound
CHECK_DEADLOCK FALSE
