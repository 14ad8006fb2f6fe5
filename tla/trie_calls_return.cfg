CONSTANTS
  Radix = 2
  Value = {v1}
  None = None
  Unreadable = Unreadable
  Key <- ClashingKeys
  ForeignHash = {foreign}
  Faults = TRUE
  MaxCommits = 1
SPECIFICATION FairSpec
PROPERTY CallsReturn

