SPECIFICATION Spec
CONSTANTS
  N = 4
  Name <- MCNames
  Key <- MCKeys
  Worlds <- MCWorlds
INVARIANTS
  LoopBoundSuffices
  UniqueIssuersComplete
  PreferredIssuerFound
PROPERTIES
  ImplementsTrustPath
  Terminates
CHECK_DEADLOCK FALSE
