SPECIFICATION CarefulSpec
CONSTANTS
  Req = {r1}
  Idle = Idle
  Free = Free
  Agents = {a1, a2}
  Me = a1
  NoAgent = NoAgent
  NoAnchor = NoAnchor
  Unreadable = Unreadable
  NoDoc = NoDoc
  Allows = {TRUE}
  Lives = {9}
  StopLife = 9
  Attempts = 1
  Faults = {}
  MaxGrants = 3
  MaxTime = 3
PROPERTIES
  StopTakesEffect
CHECK_DEADLOCK FALSE
