CONSTANTS
  Conn = {c1, c2}
  Request = {r1, r2}
  Held = {r1}
  Invalid = {invalid}
  Garbled = {garbled}
  Faults = FALSE
  MaxSent = 2
SYMMETRY Symmetry
SPECIFICATION Spec
INVARIANTS TypeOK OneRequestEach
PROPERTY ImplementsProofService
CHECK_DEADLOCK FALSE
