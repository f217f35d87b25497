SPECIFICATION Spec
CONSTANTS
  alice = alice
  bob = bob
  Files <- SomeFiles
  Environments <- SomeEnvironments
  Entities <- OneEntity
  Severities = {"CRIT"}
  Clients <- TwoClients
  Readers <- OneReader
  Bodies <- SomeBodies
  MaxIssueType = 2
  MaxUserAgent = 2
  MaxIncidents = 1
  MaxReports = 2
  MaxFaults = 1
  MaxStops = 2
INVARIANTS
  TypeOK
  ConfigHolds
  BotWithinStore
  ExitTellsWhy
  DetailTellsOpening
  StoredWithinLimits
  AcknowledgedStays
  CounterTellsStored
PROPERTIES
  StopsAfterSignal
