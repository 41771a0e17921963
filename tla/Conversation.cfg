SPECIFICATION ConversationSpec
CONSTANTS
  NoId = NoId
  None = None
  ann = ann
  bob = bob
  cat = cat
  me = me
  Absent = Absent
  Invalid = Invalid
  Mail <- Messages
  Ids = {1, 2, 3, 4, 5, 6, 7, 8}
  Odd = {5, 6, 8}
  Dropped = {6, 7, 8}
  Length <- Lengths
  Header <- Headers
  Inboxes <- Pairs
  Policies <- Own
  Op = {o1}
  Caller = {k1, k2}
  Body = {body}
  Who = {ann, bob, cat, me}
  MaxRecipients = 2
  MaxReplyTo = 1
  MaxHeader = 8
  MaxDrafts = 1
  MaxCalls = 2
  Subjects = {"thread", "replies"}
  Slots = 3
  RfcId = {x, y, z}
  MaxReferences = 2
  MaxMessages = 2
  MaxMessageBytes = 3
  MaxPageBytes = 5
  MaxIds = 3
  MaxChain = 3
INVARIANTS
  AnswerInv
  FindsConversation
  NoSilentLoss
  ReplyInv
PROPERTIES
  AnswersFit
SYMMETRY Symmetric
CHECK_DEADLOCK FALSE
