SPECIFICATION ChatFairSpec
CONSTANTS
  Count = 2
  Own <- MCOwn
  MaxStored = 1
  MaxSync = 1
  SyncQuota = 1
  LiveCap = 1
  MaxLines = 2
  MaxRestarts = 1
INVARIANTS ScreenComplete
 
CHECK_DEADLOCK FALSE
