CONSTANTS
  Radix = 2
  Value = {v1}
  None = None
  Unreadable = Unreadable
  Key <- ClashingKeys
  ForeignHash = {foreign}
  Faults = FALSE
  MaxCommits = 2
SPECIFICATION Spec
PROPERTY ReadYourWrites
