CONSTANTS
  Node = {n1, n2, n3}
  DbFaults = FALSE
  NetFaults = FALSE
  MaxDials = 2
  MaxStarts = 1
SPECIFICATION FairSpec
PROPERTY PeersAnswered
CHECK_DEADLOCK FALSE
