SPECIFICATION Spec
CONSTANTS
  Pdus <- MCPdus
  Gaps <- MCGaps
  MaxPdus = 3
  RecvMax = 10
INVARIANTS
  OverrunOnlyByLong Prompt DamageNoticed
PROPERTIES
  InOrder AllServed
CHECK_DEADLOCK FALSE
