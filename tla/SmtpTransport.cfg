SPECIFICATION LiveSpec
CONSTANTS
  None = None
  Worker = {w1, w2, w3}
INVARIANTS
  SmtpInv
PROPERTIES
  NothingSentAfterClose
  CloseReturns
