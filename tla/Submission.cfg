\* Two calls in flight at once, three in all, one key, a limit of one job.
CONSTANTS
  c1 = c1
  c2 = c2
  Call = {c1, c2}
  Key = {k1}
  k1 = k1
  NoKey = NoKey
  p1 = p1
  p2 = p2
  Project = {p1, p2}
  desktop = desktop
  mobile = mobile
  Preset = {desktop, mobile}
  Inherit = Inherit
  None = None
  JobLimit = 1
  MaxCalls = 3
  MaxEdits = 1
SPECIFICATION Spec
SYMMETRY Symmetry
INVARIANTS
  TypeOK
  KeyNamesOneJob
  OvershootBounded
  RendersWhatWasAsked
  ConflictHasCause
  RetryIsRecognised
CHECK_DEADLOCK FALSE
