CONSTANTS
  Radix = 2
  Value = {v1}
  None = None
  Unreadable = Unreadable
  Key <- SplitKeys
  ForeignHash = {}
  Faults = FALSE
  MaxCommits = 2
SPECIFICATION Spec
INVARIANT RootHashCanonical
PROPERTY ImplementsVersionedMap
