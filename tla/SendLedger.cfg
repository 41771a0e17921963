SPECIFICATION Spec
CONSTANTS
  w1 = w1
  w2 = w2
  w3 = w3
  s1 = s1
  s2 = s2
  o1 = o1
  o2 = o2
  c1 = c1
  c2 = c2
  c3 = c3
  None = None
  Op = {o1, o2}
  Content = {c1, c3}
  KeyOf <- TwoRevisions
  Worker = {w1, w2, w3}
  Store = {s1, s2}
  StoreOf <- TwoAndOne
  MaxIntents = 2
  MaxFaults = 2
INVARIANTS
  LedgerInv
  AtMostOnce
PROPERTIES
  AttemptsSpec
SYMMETRY Symmetric
