\* One chat, a rename, two turns posted one after the other, one restart, writes
\* of the file that fail and iterations that raise.
SPECIFICATION FairSpec
CONSTANTS
  Chat = {"c1"}
  Request = {"create1", "rename1", "ask1", "again1"}
  KindOf <- MCKindOf
  ChatOf <- MCChatOf
  OneAtATime = TRUE
  IterationRaises = TRUE
  WritesFail = TRUE
  MaxRestarts = 1
  NoRequest = NoRequest
INVARIANTS
  TypeOK
  IndexedByN
  ExecutedOnce
PROPERTY
  TurnsAnswered
CHECK_DEADLOCK FALSE
