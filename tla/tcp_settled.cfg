CONSTANTS
  Conn = {c1, c2}
  Request = {r1}
  Held = {r1}
  Invalid = {invalid}
  Garbled = {garbled}
  Faults = TRUE
  MaxSent = 2
SPECIFICATION FairSpec
PROPERTIES RequestsSettled ConnectionsFreed
CHECK_DEADLOCK FALSE
