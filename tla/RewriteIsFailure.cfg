SPECIFICATION Spec
CONSTANTS
  Bases <- MCBases
  Maintenance <- MCMaintenance
  Edits = {"page"}
  MaxUpdates = 3
INVARIANT RewriteIsFailure
CHECK_DEADLOCK FALSE
