CONSTANTS
  Radix = 2
  Value = {v1, v2}
  None = None
  Unreadable = Unreadable
  Key <- PairKeys
  ForeignHash = {foreign}
  Faults = TRUE
  MaxCommits = 2
SPECIFICATION Spec
INVARIANTS StoreClosed LinksResolve GetValueCorrect ProofSufficient RootHashCanonical
PROPERTIES VersionsStable ImplementsVersionedMap
