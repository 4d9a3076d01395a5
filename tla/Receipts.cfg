SPECIFICATION ReceiptsSpec
CONSTANTS
  None = None
  Signatures = {s1, s2}
  Unprovable = {s2}
  Requests = {r1}
  Limit = 1
  Life = 0
  NodeLag = 1
  MaxTip = 5
  MaxBorn = 1
  Depth = 1
INVARIANTS
  BoundCovers
  OutcomeTrue
PROPERTY
  Settles
CHECK_DEADLOCK FALSE
