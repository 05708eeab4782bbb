SPECIFICATION SystemSpec
CONSTANTS
  Req = {r1}
  Idle = Idle
  Free = Free
  Agents = {a1}
  Me = a1
  NoAgent = NoAgent
  NoAnchor = NoAnchor
  Unreadable = Unreadable
  NoDoc = NoDoc
  Allows = {TRUE}
  Lives = {9}
  StopLife = 9
  Attempts = 1
  Faults = {}
  MaxGrants = 2
  MaxTime = 1
PROPERTIES
  StopTakesEffect
CHECK_DEADLOCK FALSE
