\* An isolate that has room for one of two orgs while it is degraded; three requests.
CONSTANTS
  Isolate = {i1}
  Org = {o1, o2}
  Minute = 4
  Second = 3
  PerMinute = 2
  Percent = 20
  IdleTime = 4
  MaxEntries = 1
  None = None
  Start = 0
  Horizon = 4
  MaxCalls = 3
SPECIFICATION Spec
SYMMETRY Symmetry
INVARIANTS
  TypeOK
  GrantsBounded
  FallbackBounded
  RetryAfterKept
CHECK_DEADLOCK FALSE
