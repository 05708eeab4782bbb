SPECIFICATION PromptSpec
CONSTANTS
  Req = {r1, r2}
  Idle = Idle
  Free = Free
  Agents = {a1}
  NoAgent = NoAgent
  Unreadable = Unreadable
  NoDoc = NoDoc
  Allows = {TRUE}
  Lives = {1}
  StopLife = 9
  Attempts = 1
  Faults = {}
  MaxGrants = 2
  MaxTime = 2
PROPERTIES
  SlotInIssueOrder
SYMMETRY Interchangeable
CHECK_DEADLOCK FALSE
