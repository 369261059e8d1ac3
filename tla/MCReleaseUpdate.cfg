SPECIFICATION Spec
CONSTANTS
  Npm = {app}
  Oci = {img}
  Dist = {bundle}
  Constant = {catalog, generate}
  Input = {locale}
  Rank <- MCRank
  Metadata <- MCMetadata
  Digest = {d1, d2}
  NoDigest = NoDigest
  Torn = Torn
  MaxRevision = 3
  MaxRuns = 2
  MaxEdits = 1
INVARIANTS
  ArtifactsAreImmutable
  RevisionsFollowReleases
PROPERTIES
  ChangedIsConsistent
  ChangedKeepsEdits
  FailureTouchesNothing
CHECK_DEADLOCK FALSE
