SPECIFICATION Spec
CONSTANTS
  Callers = {c1, c2}
  Kits = {k1, k2}
  Pointers = {p1, p2}
  NoCaller = NoCaller
  NoKit = NoKit
  NoRequest = NoRequest
  NullPointer = NullPointer
  Requests <- MCRequests
INVARIANTS
  HeapIsOwned
  LibraryStays
PROPERTIES
  ImplementsJsonCalls
  CallsEnd
CHECK_DEADLOCK FALSE
