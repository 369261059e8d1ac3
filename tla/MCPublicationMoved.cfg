SPECIFICATION Spec
CONSTANTS
  Automated = {}
  Manual = {dev}
  Others = Others
  Moving = {dev}
  Version <- MCVersion
  Release <- MCRelease
  MaxPushes = 1
  MaxTags = 0
  MaxAborts = 1
  MaxLength = 3
INVARIANTS
  ReleasesAreTested
CHECK_DEADLOCK FALSE
