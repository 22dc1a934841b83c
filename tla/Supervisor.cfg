\* One container from its start to its end, however it behaves, and its heartbeat: a
\* lease that outlasts one lost beat and not two.
CONSTANTS
  SoftDeadline = 4
  Grace = 3
  KillRetry = 2
  MaxKillAttempts = 3
  Walk = 2
  Horizon = 25
  Beat = 2
  Lease = 9
  Timeout = 2
SPECIFICATION HBFairSpec
INVARIANTS
  HBTypeOK
  WallClockBounded
  GraceHonoured
  LeaseOutlastsLostBeats
PROPERTIES
  TakeEnds
CHECK_DEADLOCK FALSE
