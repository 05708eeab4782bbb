SPECIFICATION Spec
CONSTANTS
  Grants <- SpendGrants
  NoGrant = NoGrant
  Owners = {"owner"}
  Agents = {"agent"}
  NoAnchor = NoAnchor
  Class = {"SAY", "MODEL"}
  Scope = {"room1"}
  NoScope = NoScope
  Nonce = {1, 2}
  SteerNonce = {1}
  Caller = {c1, c2}
  Idle = Idle
  MinWindow = 1
  IssuedSkew = 1
  MaxTime = 1
INVARIANTS
  TypeOK
  CeilingHeld
  NonceOrder
PROPERTIES
  SpendInForce
  HighWatersOnlyRise
  ImplementsAuthority
SYMMETRY Slots
CHECK_DEADLOCK FALSE
