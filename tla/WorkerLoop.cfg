\* A box with two slots, one job that comes back, crashes, reboots and containers that
\* outlive their take.
CONSTANTS
  Slots = 2
  Job = {j1}
  None = None
SPECIFICATION BoxFairSpec
INVARIANTS
  BoxTypeOK
  DrainsFirst
  OneLateTake
  ReportedVideoIsOwn
  DirectoryRemoved
  FilmedBehindFence
PROPERTIES
  Ends
CHECK_DEADLOCK FALSE
