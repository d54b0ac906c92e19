\* Two sub-agents that share a thread: summaries of one or two fragments, failing
\* statements, a retry.
SPECIFICATION FairSpec
CONSTANTS
  Task = {"t1", "t2"}
  Finding = {"asked", "found"}
  KindOf <- MCKindOf
  Claim = {"c1", "c2"}
  MaxConcurrency = 1
  CallsFail = TRUE
  MaxConcludes <- MCMaxConcludes
INVARIANTS
  TypeOK
  ConclusionRolledUp
  FallbackRolledUp
  NoFallbackOnceConcluded
  AnswerBacked
PROPERTY
  KeepsContract
  TasksEnd
CHECK_DEADLOCK FALSE
