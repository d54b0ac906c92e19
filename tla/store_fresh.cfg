\* Every write path, no stored fact asserted again: what readers see while two
\* forks and the root correct one another.
SPECIFICATION FairSpec
CONSTANTS
  Session = {"s"}
  Suffix = {"a", "b"}
  Key <- MCKey
  Body <- MCBody
  Fact = {"said_budget", "said_ask", "forkA_half", "forkB_final", "concludedA_final"}
  Identity <- MCIdentity
  Caller = {"root", "subA", "subB"}
  HomeOf <- MCHomeOf
  ShortId <- MCShortId
  Similarity <- MCSimilarity
  Embedded <- MCBody
  ValuesOf <- MCValuesOf
  ShapeOf <- MCShapeOf
  DirectiveBody = {"ask"}
  RetireSuperseded = TRUE
  Reassert = FALSE
  CallsFail = TRUE
  MaxCalls = 3
  NoFact = NoFact
INVARIANTS
  SupersedesComparable
  CorrectionsPointBack
  HeadIsCurrent
  StaleNeverSurfaces
  DirectivesHeldOut
PROPERTY
  CallsReturn
CHECK_DEADLOCK FALSE
