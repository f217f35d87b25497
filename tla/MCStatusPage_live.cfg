SPECIFICATION FairSpec
CONSTANTS
  status = status
  either = either
  Entities <- TwoEntities
  Names <- OneName
  Folded <- WithoutCase
  Severities = {"CRIT"}
  Polls <- Pollers
  KindsOf <- Timers
  StatusLimit = 1
  ListLimit = 2
  GaugeLimit = 1
  MaxIncidents = 2
  MaxFaults = 1
  MaxStops = 1
PROPERTIES
  PageListsOpen
  PageDropsClosed
  CardsCatchUp
  GaugeCatchesUp
