SPECIFICATION FairSpec
CONSTANTS
  p1 = p1
  p2 = p2
  None = None
  Peers <- MCPeers
  Role = "user"
  MaxAnswers = 2
  Others = {"consent", "allPosts"}
  MaxIn = 2
  MaxCalls = 1
  MaxTurns = 2
INVARIANTS Entitled NotedFirst
PROPERTIES ReadStaysRead ComesInStep
CHECK_DEADLOCK FALSE
