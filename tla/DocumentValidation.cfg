SPECIFICATION FileSpec
CONSTANTS
  Documents <- MCDocuments
  Files <- MCFiles
INVARIANTS
  DocumentValidIffEarned
  BrokenSignatureShows
  RevocationIsOwn
  ArchivalIsEarned
PROPERTIES
  RevocationNeverImprovesDocument
CHECK_DEADLOCK FALSE
