SPECIFICATION ScanSpec
CONSTANTS
  None = None
  N = 3
  MaxUid = 2
  MaxValidity = 2
  Limits = {1, 2}
  Changes = 1
  MaxFaults = 1
  Call = {}
  Kind <- NoCall
  MaxFails = 0
  Worker = {}
INVARIANTS
  ScanInv
PROPERTIES
  WindowsStayCurrent
  ScanEnds
CHECK_DEADLOCK FALSE
