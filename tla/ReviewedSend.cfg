SPECIFICATION LiveSpec
CONSTANTS
  None = None
  Session = {s1, s2}
  Cfg = {g1, g2}
  MaxRev = 2
  Ttl = 1
  MaxClock = 1
  MaxFaults = 1
INVARIANTS
  ReviewedInv
PROPERTIES
  NeverAskedAgain
  EditsResume
