SPECIFICATION Spec
CONSTANTS
  Bases <- Configured
  Served <- Answered
INVARIANTS
  TypeOK
  VerdictTellsServed
  SuccessNeedsAll
  StatusToldFirst
