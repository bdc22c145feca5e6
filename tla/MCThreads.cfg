CONSTANTS
  config = config
  input = input
  renderer = renderer
  display = display
  Worker <- MCWorker
  SpawnRank <- MCSpawnRank
  NotifyRank <- MCNotifyRank
SPECIFICATION FairSpec
INVARIANTS
  DeathNoticed
  NobodyForgotten
  NeverSleepsForever
PROPERTIES
  Lifecycle
\* The application really stops.
CHECK_DEADLOCK FALSE
