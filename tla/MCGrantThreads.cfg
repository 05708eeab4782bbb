SPECIFICATION ScenarioSpec
CONSTANTS
  Req = {r1, r2}
  Idle = Idle
  Free = Free
  Agents = {a1, a2}
  NoAgent = NoAgent
  Unreadable = Unreadable
  NoDoc = NoDoc
  Allows = {TRUE}
  Lives = {1}
  StopLife = 9
  Attempts = 2
  Faults = {"agent", "grant", "revoked"}
  MaxGrants = 3
  MaxTime = 3
  MaxThreadTime = 1
INVARIANTS
  TypeOK
  StoredIsNotBarred
  ToldIsLanded
  OwnerNeverStrands
PROPERTIES
  WireFollowsDisk
SYMMETRY Interchangeable
CHECK_DEADLOCK FALSE
