\* Two jobs in flight at once, two attempts each: a retry, the reaper's last
\* attempt, and stale tokens of one job tried on the other.
CONSTANTS
  j1 = j1
  j2 = j2
  o1 = o1
  Kind = {"video"}
  Job = {j1, j2}
  Org = {o1}
  OrgOf <- MCOrgOf
  Limit <- MCLimit
  MaxAttempts = 2
SPECIFICATION Spec
INVARIANTS
  TypeOK
  RowCoherent
  AttemptBound
  LeaseExclusive
  BilledOnce
  CountersAgree
SYMMETRY Symmetry
