\* How far can two boxes that poll at once take an org beyond its limit?
CONSTANTS
  j1 = j1
  j2 = j2
  j3 = j3
  o1 = o1
  b1 = b1
  b2 = b2
  Kind = {"video"}
  Job = {j1, j2, j3}
  Org = {o1}
  OrgOf <- MCOrgOf
  Limit <- MCLimit
  MaxAttempts = 2
  Box = {b1, b2}
  Told <- MCTold
SPECIFICATION PollSpec
INVARIANTS
  OvershootBounded
PROPERTIES
  LeaseNeverTakenOver
SYMMETRY Symmetry
