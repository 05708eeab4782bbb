SPECIFICATION SteerSpec
CONSTANTS
  Grants <- SteerGrants
  NoGrant = NoGrant
  Owners = {"owner"}
  Agents = {"agent"}
  NoAnchor = NoAnchor
  Class = {"SAY", "MODEL"}
  Scope = {"room1"}
  NoScope = NoScope
  Nonce = {1}
  SteerNonce = {}
  Caller = {c1, c2}
  Idle = Idle
  MinWindow = 1
  IssuedSkew = 1
  MaxTime = 1
INVARIANTS
  ActiveIsNewest
PROPERTIES
  OldGrantsStayDead
SYMMETRY Slots
CHECK_DEADLOCK FALSE
