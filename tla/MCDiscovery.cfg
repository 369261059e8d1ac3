SPECIFICATION MCSpec
CONSTANTS
  Tag <- MCTag
  Eligible <- MCEligible
  Older <- MCOlder
  Image <- MCImage
  Platform <- MCPlatform
  Provides <- MCProvides
  NoImage = "none"
  PageSize = 1
  MaxPages = 4
  MaxTagCount = 3
  MaxChanges = 2
  Core <- MCCore
  Identifier <- MCIdentifier
  MaxLength = 2
INVARIANTS
  NoSteadyTagIsMissed
  ArtifactsAreOfOneImage
  CompareIsPrecedence
  ValidatorsAgree
PROPERTIES
  Ends
CHECK_DEADLOCK FALSE
