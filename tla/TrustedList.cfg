CONSTANTS
  s1 = s1
  s2 = s2
  c1 = c1
  c2 = c2
  root = root
  None = None
  Services <- MCServices
  Cert <- MCCert
  Types <- MCTypes
  Status <- MCStatus
  Defaults <- MCDefaults
  Offset <- MCOffset
  MaxTime = 3
  MaxChanges = 2
SYMMETRY Symmetry
SPECIFICATION Spec
CHECK_DEADLOCK FALSE
INVARIANTS
  AnchorsAreHolders
  FiltersAgree
PROPERTY
  PastIsSettled
