SPECIFICATION ReceiptsSpec
CONSTANTS
  None = None
  Signatures = {s1}
  Unprovable = {}
  Requests = {r1, r2}
  Limit = 1
  Life = 0
  NodeLag = 1
  MaxTip = 5
  MaxBorn = 1
  Depth = 1
PROPERTY
  RetriesAccepted
CHECK_DEADLOCK FALSE
