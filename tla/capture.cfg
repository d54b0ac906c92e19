\* Every message of up to two sentences of up to three parts, the second of one
\* part.
SPECIFICATION Spec
CONSTANTS
  PartKind = {"claim", "brief", "ending", "sole", "noun", "figure", "bare", "ask", "goal"}
  VerbAt <- MCVerbAt
  Long = {"claim", "ending", "noun", "figure", "ask", "goal"}
  Digit = {"figure", "bare"}
  Word = {"claim", "brief", "ending", "sole", "noun", "figure", "ask", "goal"}
  Ordinal = {"bare"}
  Opener = {"ask"}
  Goal = {"goal"}
  Joint = {"comma", "line", "and"}
  Weak = {"comma", "line"}
  Conjunction = {"and"}
  SpaceBefore = {"and"}
  SpaceAfter = {"comma", "and"}
  Sentences <- MCSentences
  More <- MCMore
  MaxSentences = 2
INVARIANTS
  EveryPartOnce
  NothingStatedIsLost
  NoFraming
CHECK_DEADLOCK FALSE
