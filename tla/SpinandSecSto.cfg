SPECIFICATION Spec
CONSTANTS
  NItems = 2
  PagesPerItem = 2
  Values = {v1, v2}
  Chips <- MCChips
SYMMETRY Symm
INVARIANTS TypeOK Survives ReadIsCurrent
