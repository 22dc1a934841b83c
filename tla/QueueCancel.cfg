\* Does a cancel of a job on a box ever take effect if the attempt is lost?
CONSTANTS
  j1 = j1
  j2 = j2
  o1 = o1
  Kind = {"video"}
  Job = {j1}
  Org = {o1}
  OrgOf <- MCOrgOf
  Limit <- MCLimit
  MaxAttempts = 2
SPECIFICATION FairSpec
PROPERTIES
  CancelTakesEffect
