\* Up to three slots, windows of twice as many rows, one slot per sub-agent,
\* with and without a cap per capture.
SPECIFICATION Spec
CONSTANTS
  Fact <- MCFact
  AgentOf <- MCAgentOf
  Below = {"a1", "b1"}
  Concluded = {"a2"}
  CaptureOf <- MCCaptureOf
  NoCapture = NoCapture
  Overfetch = 2
  MaxPerAgent = 1
  SourceCaps = {0, 1}
  MaxK = 3
  Provenance <- MCProvenance
  Other = {"old", "raw", "sibling"}
  Relating <- MCRelating
  Readable = {"own", "a1", "a2", "b1", "old", "raw"}
  Directive = {}
INVARIANTS
  VoicesCapped
  NoRestatement
  SlotsFilled
  ShownOnce
  NeighboursTold
CHECK_DEADLOCK FALSE
