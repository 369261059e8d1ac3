SPECIFICATION FairSpec
CONSTANTS
  Source <- MCSmall
  Root <- MCRoot
  Writer = {w1, w2}
  Clean = FALSE
  MaxCrashes = 1
PROPERTIES
  Returns
CHECK_DEADLOCK FALSE
