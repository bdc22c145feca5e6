CONSTANTS
  Client = {c1, c2}
  Server = {s1, s2}
  Nobody = Nobody
  MaxUnread = 2
SPECIFICATION FairSpec
INVARIANTS
  RunningIsReachable
PROPERTIES
  StreamsArePromised
  EveryEndIsTold
\* Every server may have ended.
CHECK_DEADLOCK FALSE
