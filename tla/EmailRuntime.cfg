SPECIFICATION CallsSpec
CONSTANTS
  t1 = t1
  h1 = h1
  d1 = d1
  Call = {t1, h1, d1}
  Kind <- KindOf
  MaxFails = 2
  Worker = {w1, w2}
  MaxFaults = 2
  None = None
  N = 1
  MaxUid = 1
  MaxValidity = 1
  Limits = {1}
  Changes = 0
INVARIANTS
  RuntimeInv
  SessionInv
PROPERTIES
  NoMailAfterClose
  GapStaysVisible
  CallsEnd
  NoLateCredentials
  WorkersEnd
CHECK_DEADLOCK FALSE
