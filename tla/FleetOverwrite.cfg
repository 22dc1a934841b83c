\* Can a worker that lost its lease overwrite the video of the one that won?
CONSTANTS
  j1 = j1
  o1 = o1
  s1 = s1
  s2 = s2
  Kind = {"video", "telemetry"}
  Job = {j1}
  Org = {o1}
  OrgOf <- MCOrgOf
  Limit <- MCLimit
  MaxAttempts = 3
  Slot = {s1, s2}
SPECIFICATION FleetSpec
INVARIANTS
  WinnersVideoKept
