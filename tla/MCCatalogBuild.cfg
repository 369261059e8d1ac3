SPECIFICATION MCSpec
CONSTANTS
  Template <- MCTemplate
  Platform <- MCPlatform
  Content <- MCContent
  Index <- MCIndex
  Names <- MCNames
  NoIndex = "none"
  MaxChanges = 1
  MaxSaves = 1
  MaxRuns = 2
INVARIANTS
  CatalogWasPublished
  FailuresAreAllReported
  RequestsAreBounded
  BundleIsValid
  DistIsOneCatalog
CONSTRAINT Bounded
CHECK_DEADLOCK FALSE
