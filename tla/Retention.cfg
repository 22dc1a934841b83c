\* One take with a sidecar, two sweeps of one row each, a plan of three days or the default of one.
CONSTANTS
  Job = {j1}
  Sweep = {s1, s2}
  Class = {2}
  Plan = {3}
  DefaultDays = 1
  Keep = Keep
  None = None
  Day = 2
  Ttl = 3
  Gap = 1
  Limit = 1
  MaxAttempts = 2
  Horizon = 7
SPECIFICATION Spec
SYMMETRY Symmetry
INVARIANTS
  TypeOK
  PromiseKept
  ExpiredIsGone
  StuckOnlyByOverlap
  LinksEndWithRow
CHECK_DEADLOCK FALSE
