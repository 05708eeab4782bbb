SPECIFICATION ScenarioSpec
CONSTANTS
  Caller = {c1, c2}
  Idle = Idle
  Grants <- AllGrants
  NoGrant = NoGrant
  Class <- AllClasses
  Scope = {s1}
  NoScope = NoScope
  Nonce = {1, 2}
  Time = {0}
  Text = {t1, t2}
  NoText = NoText
  Foreign = Foreign
  Posts <- SomePosts
  MaxRing = 2
  MaxAsks = 3
  MaxLines = 3
SYMMETRY Slots
INVARIANTS
  TypeOK
  SignaturesArePaid
  NoncesNameOneText
  ModelCallsArePaid
  RingsAreOurs
PROPERTIES
  MatchesAreOthersWork
  GatedSurfacesGoDark
CHECK_DEADLOCK FALSE
