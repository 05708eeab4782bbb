SPECIFICATION PromptSpec
CONSTANTS
  Req = {r1}
  Idle = Idle
  Free = Free
  Agents = {a1, a2}
  NoAgent = NoAgent
  Unreadable = Unreadable
  NoDoc = NoDoc
  Allows = {TRUE}
  Lives = {1, 2}
  StopLife = 9
  Attempts = 1
  Faults = {}
  MaxGrants = 3
  MaxTime = 3
INVARIANTS
  NeverStranded
SYMMETRY Interchangeable
CHECK_DEADLOCK FALSE
