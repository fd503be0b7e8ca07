SPECIFICATION Spec
CONSTANTS
  None = None
  Worker = {w1, w2}
  Exposure = {e1}
  Case = {c1, c2}
  Decision = {d1, d2}
  Action = {x1}
  Unremovable = {d2}
  Losable = {"permission"}
INVARIANTS
  AtMostOneLiveCase
  RemovalIsEarned
  CaseStateIsAudited
  NotRemovableIsJustified
SYMMETRY Interchangeable
