\* Every write path, stored facts asserted again, and calls that fail.
SPECIFICATION Spec
CONSTANTS
  Session = {"s"}
  Suffix = {"a", "b"}
  Key <- MCKey
  Body <- MCBody
  Fact = {"said_budget", "answered_fits", "root_half", "concludedA_final"}
  Identity <- MCIdentity
  Caller = {"root", "subA"}
  HomeOf <- MCHomeOf
  ShortId <- MCShortId
  Similarity <- MCSimilarity
  Embedded <- MCBody
  ValuesOf <- MCValuesOf
  ShapeOf <- MCShapeOf
  DirectiveBody = {"ask"}
  RetireSuperseded = TRUE
  Reassert = TRUE
  CallsFail = TRUE
  MaxCalls = 3
  NoFact = NoFact
INVARIANTS
  TypeOK
  StatusMatchesEdges
  CascadeComplete
CHECK_DEADLOCK FALSE
