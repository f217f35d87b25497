SPECIFICATION FairHistorySpec
CONSTANTS
  ConsecutiveFailuresForIncident = 2
  RecoveriesForClose = 3
  LatencyWarnMS = 2
  LatencyCritMS = 3
  fullnode = fullnode
  moved = moved
  explorer = explorer
  Tasks <- OneTask
  Configurations <- OneOrNone
  Entities <- OneEntity
  EntityOf <- OneName
  EntityType <- OneType
  Slots = {1, 2}
  Latencies = {1, 3}
  DiscordEnabled = TRUE
  AlertChannelSet = TRUE
  HistoryKept = 4
  MaxIncidents = 2
  MaxFaults = 1
  MaxStops = 2
INVARIANTS
  NothingMissed
PROPERTIES
  KeepsLog
  DownRecoveryEarned
  OutageDetected
  RecoveryDetected
