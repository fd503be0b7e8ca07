SPECIFICATION Spec
CONSTANTS
  None = None
  Worker = {w1, w2}
  Exposure = {e1}
  Case = {c1}
  Decision = {d1}
  Action = {x1}
  Unremovable = {}
  Losable = {}
PROPERTIES
  CasesFollowTable
