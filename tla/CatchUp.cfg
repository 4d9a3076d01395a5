SPECIFICATION FairSpec
CONSTANTS
  Addresses = {1, 2}
  LastLive = 1
  MaxStage = 2
  BatchSize = 1
  Width = 1
  PageSize = 1
  MaxSlot = 2
PROPERTIES
  Converges
