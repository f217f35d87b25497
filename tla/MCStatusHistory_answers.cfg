SPECIFICATION HistorySpec
CONSTANTS
  status = status
  either = either
  Entities <- ThreeEntities
  Names <- TwoNames
  Folded <- WithoutCase
  Severities = {"CRIT"}
  Polls <- OnePoller
  KindsOf <- Either
  StatusLimit = 1
  ListLimit = 2
  GaugeLimit = 1
  MaxIncidents = 3
  MaxFaults = 0
  MaxStops = 1
INVARIANTS
  TypeOK
PROPERTIES
  AnswersAreTimely
