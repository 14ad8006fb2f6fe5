CONSTANTS
  Node = {n1, n2}
  DbFaults = TRUE
  NetFaults = TRUE
  MaxDials = 2
  MaxStarts = 2
SPECIFICATION FairSpec
INVARIANTS TypeOK OncePerPeer RequestInOnePlace
PROPERTIES RequestsSettle LoopsPoll ImplementsPeerExchange
CHECK_DEADLOCK FALSE
