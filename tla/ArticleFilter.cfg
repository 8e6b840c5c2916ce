SPECIFICATION Spec
CHECK_DEADLOCK FALSE
CONSTANTS
  h1 = h1
  a1 = a1
  a2 = a2
  h2 = h2
  b1 = b1
  b2 = b2
  b3 = b3
  Items <- MCShort
  Headers <- MCHeaders
  Stack = 3
  MaxFast = 1
  MaxStrays = 1
  MaxMounts = 2
INVARIANTS
  NoDriftBeforeTheEnd
  FilteredOncePerShowing
  OneBonusPerModule
PROPERTY
  AutoSelectionEnds
