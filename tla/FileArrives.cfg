SPECIFICATION TransferFairSpec
CONSTANTS
  s1 = s1
  s2 = s2
  Streams <- MCStreams
  Total = 2
  LastFull = FALSE
  Patient = TRUE
INVARIANTS DeliveredWhole
 
CHECK_DEADLOCK FALSE
