SPECIFICATION Spec
CONSTANTS
  LastTime = 4
  Name <- MCNames
  Key <- MCKeys
  Url <- MCUrls
  CeiUrl = "cei"
  Worlds <- MCWorlds
INVARIANTS
  UnusableEvidenceIsInert
PROPERTIES
  ImplementsRevocationEvidence
  ArchivedEvidenceLasts
  Terminates
CHECK_DEADLOCK FALSE
