SPECIFICATION FilesSpec
CONSTANTS
  None = None
  Proc = {p1, p2, p3}
  First = {p1, p2}
  Inode = {i1, i2}
  Bound = i1
  Descr = {d1, d2, d3}
  MaxHands = 3
  Opener = {p1, p2}
  Attempt = {a1, a2}
  Authorised = {p2}
  MaxInode = 5
  MaxUuid = 5
  MaxCrashes = 1
  MaxMoves = 2
INVARIANTS
  IdentityInv
  FileLeaseInv
PROPERTIES
  EvidenceKept
  AnchorStands
  LeaseSpec
  FreedAfterDeath
