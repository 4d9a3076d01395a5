CONSTANTS
  None = None
  Unknown = Unknown
  t1 = t1
  t2 = t2
  a1 = a1
  a2 = a2
  Tabs = {t1}
  Own = {a1}
  Foreign = {a2}
  Unprovable = {a2}
  Life = 0
  MaxHeight = 3
  MaxLag = 2
  MaxCrashes = 1
  MaxClears = 1
SPECIFICATION JournalSpec
PROPERTIES Freed
CHECK_DEADLOCK FALSE
