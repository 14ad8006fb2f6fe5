CONSTANTS
  Radix = 2
  Value = {v1}
  None = None
  Unreadable = Unreadable
  Key <- ClashingKeys
  ForeignHash = {foreign}
  Faults = FALSE
  MaxCommits = 2
SPECIFICATION Spec
INVARIANTS TypeOK StoreClosed LinksResolve TreeOwned CallOnTree NodesWellShaped CleanIsStored GetValueCorrect ProofSufficient

