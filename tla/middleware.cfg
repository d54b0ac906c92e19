\* Two turns with up to two rounds of tool calls each and a window of two messages.
SPECIFICATION Spec
CONSTANTS
  UserText <- MCUserText
  ClaimsOf <- MCClaimsOf
  Directive = {"which"}
  Tool = {"read", "recall"}
  MemoryTool = {"recall"}
  TextOf <- MCTextOf
  Conclusion = {"qdrant"}
  Others = {"child"}
  Window = 2
  K = 2
  MaxRounds = 2
  StoreFails = TRUE
INVARIANTS
  HeardBeforeAnswered
  ProvenanceExact
  MemoryNotFedBack
CHECK_DEADLOCK FALSE
