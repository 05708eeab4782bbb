SPECIFICATION Spec
CONSTANTS
  Thread = {t1, t2}
  Idle = Idle
  None = None
  Deploying = Deploying
  MaxTime = 3
  Values <- Sizes
  MaxLen = 2
  MaxEnvelope = 8
  Attempts = 2
  MaxSaves = 2
  Junk = Junk
  a1 = a1
  Agent = {a1, a2}
  Absent = Absent
  Unknown = Unknown
  Fresh <- FreshOf
  FreshDefault = 1
  MaxAge = 2
  MaxCalls = 1
  j1 = j1
  Job = {j1, j2}
  k1 = k1
  k2 = k2
  Task = {k1, k2}
  Period <- Periods
  Message <- Messages
  Every = {1, 2}
  MaxSeen = 1
  MaxRuns = 1
  WriteBudget = 3
  ModelBudget = 2
  MaxWakes = 3
CONSTRAINT Small
SYMMETRY Symmetry
INVARIANTS
  TypeOK LocalIsHonest AppliedWasSigned PanelTrue
  MemoryHolds ConfirmedIsThere
PROPERTY AppliedIsNewest
CHECK_DEADLOCK FALSE
