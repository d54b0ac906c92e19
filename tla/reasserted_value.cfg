\* A user corrects a value and then goes back to it: the first value is stored
\* already, so it is asserted again and supersedes its own correction.
SPECIFICATION Spec
CONSTANTS
  Session = {"s"}
  Suffix = {"a", "b"}
  Key <- MCKey
  Body <- MCBody
  Fact = {"said_budget", "root_half", "root_final"}
  Identity <- MCIdentity
  Caller = {"root"}
  HomeOf <- MCHomeOf
  ShortId <- MCShortId
  Similarity <- MCSimilarity
  Embedded <- MCBody
  ValuesOf <- MCValuesOf
  ShapeOf <- MCShapeOf
  DirectiveBody = {"ask"}
  RetireSuperseded = TRUE
  Reassert = TRUE
  CallsFail = FALSE
  MaxCalls = 3
  NoFact = NoFact
INVARIANT
  OnlyActiveSurface
CHECK_DEADLOCK FALSE
