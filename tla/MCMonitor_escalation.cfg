SPECIFICATION Spec
CONSTANTS
  ConsecutiveFailuresForIncident = 2
  RecoveriesForClose = 2
  LatencyWarnMS = 2
  LatencyCritMS = 3
  fullnode = fullnode
  moved = moved
  explorer = explorer
  Tasks <- OneTask
  Configurations <- OneOrNone
  Entities <- OneEntity
  EntityOf <- OneName
  EntityType <- OneType
  Slots = {1, 2}
  Latencies <- AllLatencies
  DiscordEnabled = TRUE
  AlertChannelSet = TRUE
  HistoryKept = 2
  MaxIncidents = 1
  MaxFaults = 0
  MaxStops = 0
INVARIANTS
  HardDownIsCritical
