SPECIFICATION Spec
CONSTANTS
  Commit <- MCCommit
  RootTree <- MCRootTree
  Entries <- MCEntries
  Size <- MCSize
  Ref <- MCRef
  Default <- MCDefault
  NoCommit = "none"
  Input <- MCInput
  EntryNames <- MCEntryNames
  Templates = "templates"
  MaxDepth = 1
  MaxFiles = 2
  MaxBytes = 4
  MaxOffers = 2
  MaxMoves = 2
INVARIANTS
  SnapshotIsOfOneCommit
  LongestRefIsMeant
PROPERTIES
  OffersStayGood
CHECK_DEADLOCK FALSE
