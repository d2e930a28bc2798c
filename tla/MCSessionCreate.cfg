SPECIFICATION FairSpec
CONSTANTS
  Faults = 4
  Crashes = 2
  Removes = 1
  None = None
INVARIANTS
  TypeOK
  CheckoutKept
  NothingHidden
PROPERTY
  CreateSettles
CHECK_DEADLOCK FALSE
