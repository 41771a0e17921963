SPECIFICATION ProfileSpec
CONSTANTS
  p1 = p1
  p2 = p2
  o1 = o1
  o2 = o2
  o3 = o3
  o4 = o4
  c1 = c1
  c2 = c2
  here = here
  there = there
  None = None
  Profile = {here, there}
  Edits <- MailEdits
  Drafting = 3
  Reading = 2
  Subjects = {"drafts"}
  Process = {p1, p2}
  Op = {o1, o2, o3}
  Id = {1}
  Content = {c1, c2}
  MaxDrafts = 1
  MaxOperations = 3
  MaxRevision = 3
  MaxClock = 1
  Limit = 1
  Reader = {p1}
  Listing = {}
INVARIANTS
  ReviewIsExact
SYMMETRY Symmetric
CHECK_DEADLOCK FALSE
