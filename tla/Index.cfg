SPECIFICATION Spec
CONSTANTS
  Addresses = {1, 2, 3}
  LastLive = 1
  MaxStage = 2
  BatchSize = 2
  Width = 2
  PageSize = 2
  MaxSlot = 2
INVARIANTS
  RowsTrue
  ScanCovers
  PollCovers
PROPERTIES
  NeverRegress
