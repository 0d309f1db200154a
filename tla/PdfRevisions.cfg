SPECIFICATION Spec
CONSTANTS
  Bases <- MCBases
  Maintenance <- MCMaintenance
  Edits <- MCEdits
  MaxUpdates = 4
INVARIANTS
  NoFalseAlarm
  MaintenanceRecognised
  QuietMeansSameText
  SignatureKept
PROPERTY
  EvidenceStays
CHECK_DEADLOCK FALSE
