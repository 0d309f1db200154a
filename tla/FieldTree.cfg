SPECIFICATION WalkSpec
CONSTANTS
  Ids <- MCIds
  Revisions <- MCRevisions
INVARIANTS
  FoundOnce
  FoundIsSound
  FoundIsComplete
PROPERTY
  Terminates
CHECK_DEADLOCK FALSE
