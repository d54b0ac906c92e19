\* The server stops while it saves.
SPECIFICATION Spec
CONSTANTS
  Chat = {"c1"}
  Request = {"create1", "ask1", "again1"}
  KindOf <- MCKindOf
  ChatOf <- MCChatOf
  OneAtATime = TRUE
  IterationRaises = FALSE
  WritesFail = FALSE
  MaxRestarts = 1
  NoRequest = NoRequest
INVARIANTS
  TranscriptsSurvive
CHECK_DEADLOCK FALSE
