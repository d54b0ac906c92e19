\* Two messages to one chat are posted at the same time.
SPECIFICATION Spec
CONSTANTS
  Chat = {"c1"}
  Request = {"create1", "ask1", "again1"}
  KindOf <- MCKindOf
  ChatOf <- MCChatOf
  OneAtATime = FALSE
  IterationRaises = FALSE
  WritesFail = FALSE
  MaxRestarts = 0
  NoRequest = NoRequest
INVARIANTS
  NoneStranded
CHECK_DEADLOCK FALSE
