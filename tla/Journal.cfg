CONSTANTS
  None = None
  Unknown = Unknown
  t1 = t1
  t2 = t2
  a1 = a1
  a2 = a2
  Tabs = {t1, t2}
  Own = {a1, a2}
  Foreign = {}
  Unprovable = {}
  Life = 0
  MaxHeight = 5
  MaxLag = 2
  MaxCrashes = 2
  MaxClears = 0
SPECIFICATION JournalSpec
SYMMETRY Symmetry
INVARIANTS Remembered OneAtATime StatusTrue UnsentTrue
PROPERTY ApprovalKept
CHECK_DEADLOCK FALSE
CONSTRAINT Bounded
