CONSTANTS
  Node = {n1, n2}
  DbFaults = TRUE
  NetFaults = FALSE
  MaxDials = 1
  MaxStarts = 1
SPECIFICATION Spec
INVARIANT NodesStayUp
CHECK_DEADLOCK FALSE
