SPECIFICATION Spec
CONSTANTS
  None = None
  Worker = {w1}
  Exposure = {e1, e2}
  Case = {c1, c2}
  Decision = {d1, d2}
  Action = {x1}
  Unremovable = {d2}
  Losable = {"grant", "signature", "permission"}
INVARIANTS
  DecisionAuthorisesOneCase
PROPERTIES
  CasesFollowTable
  AuditNamesStateLeft
  EffectSettledOnce
CHECK_DEADLOCK FALSE
