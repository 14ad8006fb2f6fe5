CONSTANTS
  Radix = 2
  Value = {v1}
  None = None
  Unreadable = Unreadable
  Key <- PairKeys
  ForeignHash = {}
  Faults = TRUE
  MaxCommits = 1
SPECIFICATION StorageSpec
INVARIANT ExistsIsExact
