SPECIFICATION DueSpec
SYMMETRY Symmetry
CONSTANTS
  Handler = {w1, w2}
  Deadline = {d1, d2}
  Appeal = {a1}
  Resolution = {p1, p2}
  Own = p1
  Version = {v1, v2}
  MaxTime = 3
  Nothing = Nothing
INVARIANTS
  SatisfactionStands
  EscalationsInTime
CHECK_DEADLOCK FALSE
