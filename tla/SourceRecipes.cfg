SPECIFICATION FairSpec
CONSTANTS
  Worker = {w1, w2}
  Source = {s1}
  Recipe = {r1, r2}
  Class = {"WRITE_PERMITTED", "WRITE_UNCLEAR"}
  Ageing = {r1}
  SourceMax = 2
  RecipeMax = 3
  None = None
INVARIANTS
  EnabledIsPermitted
  CreatesSerialise
PROPERTIES
  NoLostUpdate
  OperatorReasonStands
  EveryRequestEnds
CHECK_DEADLOCK FALSE
