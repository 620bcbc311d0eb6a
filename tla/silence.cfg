SPECIFICATION FairSpec
CONSTANTS
  Interval = 3
  MaxBackoff = 30
  CycleTime = 7
  ServerInterval = 3
  SilenceIntervals = 4
  Escalation = 4
  SweepPeriod = 3
INVARIANTS
  TypeOK
PROPERTIES
  AlarmsAccountedFor
  MissingTelemetryReported
  DeadAgentReported
  LiveAgentCleared
