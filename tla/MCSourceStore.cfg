SPECIFICATION FairSpec
CONSTANTS
  Source <- MCSource
  Root <- MCRoot
  Writer = {w1, w2}
  Clean = TRUE
  MaxCrashes = 2
INVARIANTS
  WrittenIsDurable
  OneCallWrites
  ReadBack
PROPERTIES
  Returns
CHECK_DEADLOCK FALSE
