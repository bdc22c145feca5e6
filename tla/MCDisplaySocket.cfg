CONSTANTS
  Client = {c1, c2}
  Nobody = Nobody
SPECIFICATION FairSpec
PROPERTY ShutdownStops
\* The thread may stop.
CHECK_DEADLOCK FALSE
