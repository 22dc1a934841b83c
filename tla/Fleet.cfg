\* Every way two boxes can film one job one after the other, or at once.
CONSTANTS
  j1 = j1
  o1 = o1
  s1 = s1
  s2 = s2
  Kind = {"video", "telemetry"}
  Job = {j1}
  Org = {o1}
  OrgOf <- MCOrgOf
  Limit <- MCLimit
  MaxAttempts = 3
  Slot = {s1, s2}
SPECIFICATION FleetSpec
INVARIANTS
  DoneHasVideo
  BucketMatchesRows
SYMMETRY Symmetry
