SPECIFICATION Spec
CONSTANTS
  ConsecutiveFailuresForIncident = 2
  RecoveriesForClose = 2
  LatencyWarnMS = 2
  LatencyCritMS = 3
  fullnode = fullnode
  moved = moved
  explorer = explorer
  Tasks <- SameTasks
  Configurations <- AllAtOnce
  Entities <- OneEntity
  EntityOf <- SameName
  EntityType <- OneType
  Slots = {1, 2}
  Latencies <- AllLatencies
  DiscordEnabled = TRUE
  AlertChannelSet = TRUE
  HistoryKept = 2
  MaxIncidents = 1
  MaxFaults = 1
  MaxStops = 1
INVARIANTS
  OneOpenPerEntity
