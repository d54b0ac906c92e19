\* A server that is healthy throughout, and one request that fails.
SPECIFICATION Spec
CONSTANTS
  Thread = {"main", "t1", "t2"}
  Worker = {"main", "t1", "t2"}
  Main = "main"
  NoThread = NoThread
  ProbeAttempts = 2
  MaxWedges = 0
  MaxFailures = 1
  MaxConnections = 2
  Turns = 1
  RecursionLimit = 1
PROPERTY
  ClosesOnlyLost
CHECK_DEADLOCK FALSE
