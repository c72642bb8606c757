SPECIFICATION LimitsSpec
CONSTANTS
  Authors = {a1}
  Kinds = {"message", "delete"}
  Rule <- MCRule
  Texts = {"t"}
  Window = 3
  Grace = 2
  CooldownFactor = 2
  ViolationWindow = 2
  Threshold = 2
  MuteBase = 1
  MuteCap = 2
  Decay = 3
  DupWindow = 2
  MaxTime = 6
INVARIANTS WindowBound
PROPERTIES MutesGrow
CHECK_DEADLOCK FALSE
