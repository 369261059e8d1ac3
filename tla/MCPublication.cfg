SPECIFICATION FairSpec
CONSTANTS
  Automated = {ci}
  Manual = {dev}
  Others = Others
  Moving = {}
  Version <- MCVersion
  Release <- MCRelease
  MaxPushes = 1
  MaxTags = 1
  MaxAborts = 1
  MaxLength = 3
INVARIANTS
  ReleasesStay
  TagNamesItsVersion
  ReleasesAreTested
  NoUntaggedRelease
  FailuresAreClean
PROPERTIES
  IsHistory
  UpstreamIsFollowed
CHECK_DEADLOCK FALSE
