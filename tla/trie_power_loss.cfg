CONSTANTS
  Radix = 2
  Value = {v1, v2}
  None = None
  Unreadable = Unreadable
  Key <- PairKeys
  ForeignHash = {}
  Faults = TRUE
  MaxCommits = 2
SPECIFICATION StorageSpec
INVARIANTS StoreClosed GetValueCorrect ProofSufficient
PROPERTY VersionsWholeOrGone
