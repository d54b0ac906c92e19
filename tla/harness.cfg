\* Two turns of a root agent and up to two sub-agents, and a server that wedges
\* once and may never come back.
SPECIFICATION FairSpec
CONSTANTS
  Thread = {"main", "t1", "t2"}
  Worker = {"main", "t1", "t2"}
  Main = "main"
  NoThread = NoThread
  ProbeAttempts = 2
  MaxWedges = 1
  MaxFailures = 0
  MaxConnections = 1
  Turns = 2
  RecursionLimit = 1
INVARIANTS
  OneOpenClient
  CurrentIsOpen
  NothingOutlivesRun
  NoDeadlineBetweenTurns
  OneRecordPerTurn
  TurnsDoNotOverlap
PROPERTY
  TurnsEnd
CHECK_DEADLOCK FALSE
