SPECIFICATION Spec
CONSTANTS
  Documents <- ThreeDefects
INVARIANTS
  ValidIsEarned
  EarnedIsValid
  LevelIsEarned
  VerdictMatchesStandards
  
  ExcusedOnlyByTrustedTime
PROPERTIES
  RevocationNeverImproves
CHECK_DEADLOCK FALSE
