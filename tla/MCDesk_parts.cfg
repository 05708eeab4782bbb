SPECIFICATION Spec
CONSTANTS
  Thread = {t1, t2}
  Idle = Idle
  None = None
  Deploying = Deploying
  MaxTime = 2
  Names = {"job", "lobby"}
  DidNames = {}
  OwnerNames = {}
  Texts = {"", "good"}
  Empty = ""
  NotText = NotText
  Nil = Nil
  r1 = r1
  r2 = r2
  Rid = {r1, r2}
  Filed <- Filings
  Life = 1
  Room = {"lobby", "meadow", "kibble", "events"}
  Board = "kibble"
  Quiet = {"meadow"}
  Reserved = {"events"}
  Line = {"hi"}
  MaxLines = 2
  Window = 1
  Key = {k1, k2}
  Choice = {c1, c2}
  Secret = {x1, x2}
  MaxCreators = 2
  Torn = Torn
SYMMETRY Symmetry
INVARIANTS
  TypeOK OneDecision SignedWasRead Accounted AcceptedAsSigned NoncesUsedOnce
  ToldIsLanded HeldKeyWithinWindow SecretsStay RecordIsTrue
PROPERTIES
  IdentityKept ImplementsRelease
CHECK_DEADLOCK FALSE
