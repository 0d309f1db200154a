SPECIFICATION Spec
CONSTANTS
  LastTime = 4
  Name <- MCNames
  Key <- MCKeys
  Url <- MCUrls
  CeiUrl = "cei"
  Worlds <- MCWorlds
INVARIANT
  EmbeddedEvidenceCounts
CHECK_DEADLOCK FALSE
