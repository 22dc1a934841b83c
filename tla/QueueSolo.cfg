\* One job, three attempts, a video and a sidecar that expire apart: every path
\* through retries, reaps, cancels and sweeps, and whether it ends.
CONSTANTS
  j1 = j1
  j2 = j2
  o1 = o1
  Kind = {"video", "telemetry"}
  Job = {j1}
  Org = {o1}
  OrgOf <- MCOrgOf
  Limit <- MCLimit
  MaxAttempts = 3
SPECIFICATION FairSpec
INVARIANTS
  VerdictOnlyOnFailed
PROPERTIES
  ImplementsLifecycle
  Settles
