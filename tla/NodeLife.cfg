SPECIFICATION FairSpec
CONSTANTS
  a = a
  b = b
  x = x
  i1 = i1
  i2 = i2
  l = l
  None = None
  Procs <- MCProcs
  Posts <- MCPosts
  Ids <- MCIds
  Letters <- MCLetters
  DailyKept = 1
  UpgradeKept = 1
  MaxFaults = 2
INVARIANTS Current RecordsKept BackInUse IdentityKept ProgramWhole
PROPERTIES ComesUp
CHECK_DEADLOCK FALSE
