-------------------------- MODULE KillSwitchProofs --------------------------
(***************************************************************************)
(* Theorems about the kill switch end to end, for every set of request      *)
(* threads, agents and durations and every bound.  They are the safety half *)
(* of StopTakesEffect, whose other half is the fairness of the polls.       *)
(***************************************************************************)
EXTENDS KillSwitch, GrantsProofs, TLAPS

-----------------------------------------------------------------------------
(* The system is made of the two programs.                                 *)

\* The dashboard over a network that also delivers writes after the client gave up
\* on them: more than KillSwitch runs, and what is proved of it holds there.
LateDashboard == Next /\ UNCHANGED <<polled, governor>>
LateSpec == SystemInit /\ [][LateDashboard \/ Gateway]_system

LEMMA DashboardIsLate == [Dashboard \/ Gateway]_system => [LateDashboard \/ Gateway]_system
BY DEF Dashboard, LateDashboard, Next

LEMMA DashboardSteps ==
  /\ [Dashboard \/ Gateway]_system => [PromptNext]_vars
  /\ [LateDashboard \/ Gateway]_system => [Next]_vars
BY DEF Dashboard, LateDashboard, Gateway, Configure, PollRead, PollApply, PollDrop, PollFinish,
       Evict, system, dashboard, vars

\* Behind the gateway's polls the dashboard is still the one of DashboardGrants,
\* so that every theorem about PromptSpec holds of it here.
THEOREM SystemRunsDashboard == SystemSpec => PromptSpec
<1>1. SystemInit => Init
  BY DEF SystemInit
<1>2. QED
  BY <1>1, DashboardSteps, PTL DEF SystemSpec, PromptSpec

-----------------------------------------------------------------------------
(* The documents the owner signed, wherever they are by now.               *)

Known ==
  {d \in Doc :
     \/ d \in landed \cup late
     \/ d = Stored
     \/ \E r \in Req : req[r] # Idle /\ Carrying(req[r]) /\ req[r].doc = d}

\* Ids are drawn in the step that reads the clock: a document with a later id
\* was not issued earlier, and no two have one id.
DrawnInv ==
  /\ \A d \in Known : d.id < nextId /\ d.issued <= clock
  /\ \A d, e \in Known : d.id = e.id => d = e
  /\ \A d, e \in Known : d.id < e.id => d.issued <= e.issued

LEMMA KnownHas ==
  ASSUME TypeInv
  PROVE  /\ landed \cup late \subseteq Known
         /\ Stored \in Known \cup {NoDoc}
         /\ \A r \in Req : req[r] # Idle /\ Carrying(req[r]) => req[r].doc \in Known
<1>1. \A r \in Req : req[r] # Idle /\ Carrying(req[r]) => req[r].doc \in Doc
  BY DEF TypeInv, LocalsTyped, Locals
<1>2. landed \cup late \subseteq Doc
  BY DEF TypeInv, TypeOK
<1>3. QED
  BY <1>1, <1>2, StoredType DEF Known

\* A step of one request that signs nothing.
LEMMA KnownStays ==
  ASSUME TypeInv, NEW r \in Req,
         \A q \in Req \ {r} : req'[q] = req[q] \/ req'[q] = Idle,
         req'[r] # Idle /\ Carrying(req'[r]) => req'[r].doc \in Known,
         Stored' \in Known \cup {NoDoc},
         landed' \cup late' \subseteq Known
  PROVE  Known' \subseteq Known
<1> SUFFICES ASSUME NEW d \in Known' PROVE d \in Known
  OBVIOUS
<1>1. d \in Doc /\ d # NoDoc
  BY DashboardAssumption DEF Known
<1>2. CASE d \in landed' \cup late' \/ d = Stored'
  BY <1>1, <1>2
<1>3. CASE \E q \in Req : req'[q] # Idle /\ Carrying(req'[q]) /\ req'[q].doc = d
  <2>1. PICK q \in Req : req'[q] # Idle /\ Carrying(req'[q]) /\ req'[q].doc = d
    BY <1>3
  <2>2. CASE q = r
    BY <2>1, <2>2
  <2>3. CASE q # r
    <3>1. req'[q] = req[q]
      BY <2>1, <2>3
    <3>2. QED
      BY <2>1, <3>1, KnownHas
  <2>4. QED
    BY <2>2, <2>3
<1>4. QED
  BY <1>2, <1>3 DEF Known, Carrying

\* The requests as they were, or none.
LEMMA KnownRests ==
  ASSUME TypeInv, req' = req \/ \A q \in Req : req'[q] = Idle,
         Stored' \in {Stored, NoDoc}, landed' \cup late' \subseteq Known
  PROVE  Known' \subseteq Known
<1>1. \A q \in Req : req'[q] = req[q] \/ req'[q] = Idle
  OBVIOUS
<1>2. Stored' \in Known \cup {NoDoc}
  BY KnownHas
<1>3. CASE Req = {}
  BY <1>2, <1>3, DashboardAssumption DEF Known
<1>4. CASE \E r \in Req : TRUE
  <2>1. PICK r \in Req : TRUE
    BY <1>4
  <2>2. req'[r] # Idle /\ Carrying(req'[r]) => req'[r].doc \in Known
    BY <1>1, KnownHas
  <2>3. QED
    BY <1>1, <1>2, <2>2, KnownStays
<1>5. QED
  BY <1>3, <1>4

\* What signing does: the next id, at the time the clock shows.
Signs(d) ==
  /\ d.id = nextId /\ d.issued = clock
  /\ nextId' = nextId + 1
  /\ Known' \subseteq Known \cup {d}
  /\ \E r \in Req : req[r] # Idle /\ req[r].at = "build"
  /\ UNCHANGED <<slot, landed, told>>

LEMMA KnownBuild ==
  ASSUME TypeInv, NEW r \in Req, NEW live \in BOOLEAN, NEW life \in Nat,
         req[r] # Idle, Build(r, live, life)
  PROVE  \E d \in Doc : Signs(d)
<1> DEFINE d == [id |-> nextId, agent |-> req[r].agent, issued |-> clock,
                 expiry |-> clock + life, live |-> live]
           x == [req[r] EXCEPT !.doc = d, !.at = "store",
                               !.stop = (req[r].op = "stop")]
<1>1. req[r] \in Request /\ Locals(req[r]) /\ req[r].at = "build" /\ nextId \in Id
  BY DEF Build, At, TypeInv, TypeOK, LocalsTyped
<1>2. clock + life \in Nat
  BY DashboardAssumption DEF TypeInv, TypeOK, Time
<1>3. d \in Doc
  BY <1>1, <1>2 DEF Doc, Locals, TypeInv, TypeOK
<1>4. req' = [req EXCEPT ![r] = x]
  BY DEF Build
<1>5. d.id = nextId /\ d.issued = clock
  OBVIOUS
<1> HIDE DEF d
<1>6. x.doc = d
  BY <1>1 DEF Request
<1> HIDE DEF x
<1>7. req'[r].doc = d /\ \A q \in Req \ {r} : req'[q] = req[q]
  BY <1>4, <1>6 DEF TypeInv, TypeOK
<1>8. landed' = landed /\ late' = late /\ Stored' = Stored
  BY DEF Build, wire, files, Stored
<1>9. Known' \subseteq Known \cup {d}
  BY <1>7, <1>8 DEF Known, Carrying
<1>10. nextId' = nextId + 1 /\ UNCHANGED <<slot, landed, told>>
  BY DEF Build, wire
<1>11. QED
  BY <1>1, <1>3, <1>5, <1>9, <1>10 DEF Signs

\* What a step that signs nothing does.
Keeps == Known' \subseteq Known /\ nextId' = nextId

LEMMA KnownAsk ==
  ASSUME TypeInv, NEW r \in Req, Ask(r)
  PROVE  Keeps
<1>1. req \in [Req -> Request \cup {Idle}]
  BY DEF TypeInv, TypeOK
<1>2. ASSUME NEW op \in {"sign", "stop"}, Begin(r, op)
      PROVE  Keeps
  <2>1. /\ req'[r].at = "build" /\ \A q \in Req \ {r} : req'[q] = req[q]
    BY <1>1, <1>2 DEF Begin, Fresh
  <2>2. ~Carrying(req'[r])
    BY <2>1 DEF Carrying
  <2>3. landed' = landed /\ late' = late /\ Stored' = Stored /\ nextId' = nextId
    BY <1>2 DEF Begin, wire, files, Stored
  <2>4. QED
    BY <2>1, <2>2, <2>3, KnownHas, KnownStays DEF Keeps
<1>3. CASE Resend(r)
  <2>1. Stored # NoDoc /\ Stored = record.grant /\ record # Unreadable /\ record \in Record
    BY <1>3, StoredType DEF Resend, Resendable, TypeInv, TypeOK
  <2>2. /\ req'[r].doc = Stored /\ \A q \in Req \ {r} : req'[q] = req[q]
    BY <1>1, <1>3 DEF Resend, Fresh
  <2>3. landed' = landed /\ late' = late /\ Stored' \in {Stored, NoDoc} /\ nextId' = nextId
    BY <1>3, <2>1 DEF Resend, wire, Stored, Record
  <2>4. QED
    BY <2>1, <2>2, <2>3, KnownHas, KnownStays DEF Keeps
<1>4. ASSUME NEW a \in Agents, Link(r, a)
      PROVE  Keeps
  <2>1. req' = req /\ landed' = landed /\ late' = late /\ Stored' = Stored /\ nextId' = nextId
    BY <1>4 DEF Link, wire, Stored
  <2>2. QED
    BY <2>1, KnownHas, KnownRests DEF Keeps
<1>5. ASSUME NEW op \in {"link", "unlink"}, NEW a, Clear(r, op, a)
      PROVE  Keeps
  <2>1. /\ req'[r].at \in {"bar", "relink"} /\ req'[r].op = op
        /\ \A q \in Req \ {r} : req'[q] = req[q]
    BY <1>1, <1>5 DEF Clear, Fresh
  <2>2. ~Carrying(req'[r])
    BY <2>1 DEF Carrying
  <2>3. landed' = landed /\ late' = late /\ Stored' = NoDoc /\ nextId' = nextId
    BY <1>5 DEF Clear, wire, Stored, Blank, Rec
  <2>4. QED
    BY <2>1, <2>2, <2>3, KnownHas, KnownStays DEF Keeps
<1>6. QED
  BY <1>2, <1>3, <1>4, <1>5 DEF Ask, Switch, Unlink

\* A request that carries a document, which its step may put anywhere.
LEMMA KnownGoesOn ==
  ASSUME TypeInv, NEW r \in Req, req[r] # Idle, Carrying(req[r]),
         \A q \in Req \ {r} : req'[q] = req[q],
         req'[r] # Idle => req'[r].doc = req[r].doc,
         Stored' \in {Stored, NoDoc, req[r].doc},
         landed' \subseteq landed \cup {req[r].doc},
         late' \subseteq late \cup {req[r].doc},
         nextId' = nextId
  PROVE  Keeps
<1>1. req[r].doc \in Known
  BY KnownHas
<1>2. Stored' \in Known \cup {NoDoc} /\ landed' \cup late' \subseteq Known
  BY <1>1, KnownHas
<1>3. QED
  BY <1>1, <1>2, KnownStays DEF Keeps

\* A request that leaves the record and the slot alone.
LEMMA KnownMoves ==
  ASSUME TypeInv, NEW r \in Req, req[r] # Idle,
         \A q \in Req \ {r} : req'[q] = req[q],
         req'[r] # Idle /\ Carrying(req'[r]) =>
           Carrying(req[r]) /\ req'[r].doc = req[r].doc,
         Stored' = Stored, landed' = landed, late' = late, nextId' = nextId
  PROVE  Keeps
<1>1. req'[r] # Idle /\ Carrying(req'[r]) => req'[r].doc \in Known
  BY KnownHas
<1>2. Stored' \in Known \cup {NoDoc} /\ landed' \cup late' \subseteq Known
  BY KnownHas
<1>3. QED
  BY <1>1, <1>2, KnownStays DEF Keeps

LEMMA KnownWork ==
  ASSUME TypeInv, NEW r \in Req, Step(r) \/ PutFailed(r, TRUE)
  PROVE  Keeps \/ \E d \in Doc : Signs(d)
<1>1. req \in [Req -> Request \cup {Idle}]
  BY DEF TypeInv, TypeOK
<1>2. CASE \/ \E live \in Allows, life \in Lives : BuildGrant(r, live, life)
           \/ BuildStop(r)
  BY <1>2, KnownBuild, DashboardAssumption DEF BuildGrant, BuildStop
<1>3. ASSUME NEW b \in BOOLEAN, Denied(r) \/ RefuseStop(r) \/ CannotWrite(r) \/ Relink(r, b)
      PROVE  Keeps
  <2>1. req[r] # Idle /\ Answer(r)
    BY <1>3 DEF Denied, RefuseStop, CannotWrite, Relink, At
  <2>2. Stored' = Stored /\ landed' = landed /\ late' = late /\ nextId' = nextId
    BY <1>3 DEF Denied, RefuseStop, CannotWrite, Relink, files, wire, Stored
  <2>3. req'[r] = Idle /\ \A q \in Req \ {r} : req'[q] = req[q]
    BY <1>1, <2>1 DEF Answer
  <2>4. QED
    BY <2>1, <2>2, <2>3, KnownMoves
<1>4. CASE Finish(r)
  <2>1. req[r] # Idle /\ Carrying(req[r])
    BY <1>4 DEF Finish, At, Carrying
  <2>2. Answer(r) /\ landed' = landed /\ late' = late /\ nextId' = nextId
    BY <1>4 DEF Finish, wire
  <2>3. Stored' = req[r].doc \/ Stored' = NoDoc
    BY <1>4 DEF Finish, Stored, Rec
  <2>4. req'[r] = Idle /\ \A q \in Req \ {r} : req'[q] = req[q]
    BY <1>1, <2>2 DEF Answer
  <2>5. QED
    BY <2>1, <2>2, <2>3, <2>4, KnownGoesOn
<1>5. CASE Store(r)
  <2>1. req[r] \in Request /\ req[r] # Idle /\ Carrying(req[r])
    BY <1>1, <1>5 DEF Store, At, Carrying
  <2>2. req'[r].doc = req[r].doc /\ \A q \in Req \ {r} : req'[q] = req[q]
    BY <1>1, <1>5, <2>1 DEF Store, Request
  <2>3. Stored' \in {req[r].doc, NoDoc}
    BY <1>5 DEF Store, Stored, Rec
  <2>4. landed' = landed /\ late' = late /\ nextId' = nextId
    BY <1>5 DEF Store, wire
  <2>5. QED
    BY <2>1, <2>2, <2>3, <2>4, KnownGoesOn
<1>6. CASE Bar(r)
  <2>1. req[r] \in Request /\ req[r] # Idle /\ req[r].at = "bar"
    BY <1>1, <1>6 DEF Bar, At
  <2>2. /\ req'[r].at = IF req[r].op \in {"link", "unlink"} THEN "relink" ELSE "put"
        /\ req'[r].op = req[r].op /\ req'[r].doc = req[r].doc
        /\ \A q \in Req \ {r} : req'[q] = req[q]
    BY <1>1, <1>6, <2>1 DEF Bar, Goto, Request
  <2>3. Carrying(req'[r]) => Carrying(req[r])
    BY <2>1, <2>2 DEF Carrying
  <2>4. Stored' = Stored /\ landed' = landed /\ late' = late /\ nextId' = nextId
    BY <1>6 DEF Bar, wire, Stored
  <2>5. QED
    BY <2>1, <2>2, <2>3, <2>4, KnownMoves
<1>7. ASSUME NEW b \in BOOLEAN,
             PutAnswered(r, b) \/ Confirm(r, b) \/ PutFailed(r, b) \/ PutRefused(r)
      PROVE  Keeps
  <2>1. req[r] \in Request /\ req[r] # Idle /\ Carrying(req[r])
    BY <1>1, <1>7 DEF PutAnswered, Confirm, PutFailed, PutRefused, At, Carrying
  <2>2. \A q \in Req \ {r} : req'[q] = req[q]
    BY <1>1, <1>7 DEF PutAnswered, Confirm, PutFailed, PutRefused, Goto
  <2>3. req'[r].doc = req[r].doc
    <3>1. CASE PutAnswered(r, b) \/ PutRefused(r)
      BY <1>1, <2>1, <3>1 DEF PutAnswered, PutRefused, Goto, Request
    <3>2. CASE Confirm(r, b)
      BY <1>1, <2>1, <3>2 DEF Confirm, Request
    <3>3. CASE PutFailed(r, b)
      BY <1>1, <2>1, <3>3 DEF PutFailed, Request
    <3>4. QED
      BY <1>7, <3>1, <3>2, <3>3
  <2>4. Stored' = Stored /\ nextId' = nextId
    BY <1>7 DEF PutAnswered, Confirm, PutFailed, PutRefused, files, Stored
  <2>5. /\ landed' \subseteq landed \cup {req[r].doc}
        /\ late' \subseteq late \cup {req[r].doc}
    BY <1>7 DEF PutAnswered, Confirm, PutFailed, PutRefused, wire
  <2>6. QED
    BY <2>1, <2>2, <2>3, <2>4, <2>5, KnownGoesOn
<1>8. QED
  BY <1>2, <1>3, <1>4, <1>5, <1>6, <1>7 DEF Step

LEMMA KnownStep == TypeInv /\ [Next]_vars => Keeps \/ \E d \in Doc : Signs(d)
<1> SUFFICES ASSUME TypeInv, [Next]_vars PROVE Keeps \/ \E d \in Doc : Signs(d)
  OBVIOUS
<1>1. CASE Crash
  <2>1. /\ \A q \in Req : req'[q] = Idle
        /\ Stored' = Stored /\ UNCHANGED <<landed, late, nextId>>
    BY <1>1 DEF Crash, wire, files, Stored
  <2>2. QED
    BY <2>1, KnownHas, KnownRests DEF Keeps
<1>2. CASE Damage \/ Tick \/ UNCHANGED vars
  <2>1. req' = req /\ Stored' \in {Stored, NoDoc} /\ UNCHANGED <<landed, late, nextId>>
    BY <1>2 DEF Damage, Tick, vars, wire, files, Stored
  <2>2. QED
    BY <2>1, KnownHas, KnownRests DEF Keeps
<1>3. ASSUME NEW d \in late, Land(d)
      PROVE  Keeps
  <2>1. /\ req' = req /\ Stored' = Stored /\ nextId' = nextId
        /\ landed' \cup late' \subseteq landed \cup late
    BY <1>3 DEF Land, files, Stored
  <2>2. QED
    BY <2>1, KnownHas, KnownRests DEF Keeps
<1>4. QED
  BY <1>1, <1>2, <1>3, KnownAsk, KnownWork DEF Next, PromptNext

LEMMA LandedGrows ==
  ASSUME [Next]_vars
  PROVE  /\ landed \subseteq landed'
         /\ clock \in Int => clock' \in Int /\ clock' >= clock
<1>1. ASSUME NEW r \in Req, Ask(r)
      PROVE  landed' = landed /\ clock' = clock
  BY <1>1 DEF Ask, Begin, Resend, Link, Switch, Unlink, Clear, wire
<1>2. ASSUME NEW r \in Req, Step(r) \/ PutFailed(r, TRUE)
      PROVE  landed \subseteq landed' /\ clock' = clock
  <2>1. ASSUME NEW b \in BOOLEAN, PutAnswered(r, b)
        PROVE  landed \subseteq landed' /\ clock' = clock
    BY <2>1 DEF PutAnswered
  <2>2. ASSUME NEW b \in BOOLEAN, Confirm(r, b) \/ Relink(r, b) \/ PutFailed(r, b)
        PROVE  landed' = landed /\ clock' = clock
    BY <2>2 DEF Confirm, Relink, PutFailed, wire
  <2>3. ASSUME NEW live, NEW life, Build(r, live, life)
        PROVE  landed' = landed /\ clock' = clock
    BY <2>3 DEF Build, wire
  <2>4. CASE \/ Denied(r) \/ Store(r) \/ RefuseStop(r) \/ Bar(r) \/ PutRefused(r) \/ Finish(r)
             \/ CannotWrite(r)
    BY <2>4 DEF Denied, Store, RefuseStop, Bar, PutRefused, Finish, CannotWrite, wire
  <2>5. QED
    BY <1>2, <2>1, <2>2, <2>3, <2>4 DEF Step, BuildGrant, BuildStop
<1>3. ASSUME Crash \/ Damage \/ UNCHANGED vars \/ (\E d \in late : Land(d)) \/ Tick
      PROVE  landed \subseteq landed' /\ (clock' = clock \/ clock' = clock + 1)
  BY <1>3 DEF Crash, Damage, Land, Tick, vars, wire
<1>4. landed \subseteq landed' /\ (clock' = clock \/ clock' = clock + 1)
  BY <1>1, <1>2, <1>3 DEF Next, PromptNext
<1>5. QED
  BY <1>4

LEMMA DrawnStep == TypeInv /\ DrawnInv /\ [Next]_vars => DrawnInv'
<1> SUFFICES ASSUME TypeInv, DrawnInv, [Next]_vars PROVE DrawnInv'
  OBVIOUS
<1>1. clock \in Int /\ clock' \in Int /\ clock' >= clock
  BY LandedGrows DEF TypeInv, TypeOK, Time
<1>2. /\ nextId \in Int
      /\ \A d \in Known : d.id \in Int /\ d.issued \in Int
  BY DEF Known, Doc, Id, Time, TypeInv, TypeOK
<1>3. CASE Keeps
  BY <1>1, <1>2, <1>3 DEF Keeps, DrawnInv
<1>4. ASSUME NEW d \in Doc, Signs(d)
      PROVE  DrawnInv'
  <2>1. /\ d.id = nextId /\ d.issued = clock /\ nextId' = nextId + 1
        /\ \A e \in Known' : e \in Known \/ e = d
        /\ \A e \in Known : e.id < nextId /\ e.issued <= clock
    BY <1>4 DEF Signs, DrawnInv
  <2>2. \A e \in Known' : e.id < nextId' /\ e.issued <= clock'
    BY <1>1, <1>2, <2>1
  <2>3. \A e, f \in Known' : e.id = f.id => e = f
    BY <1>2, <2>1 DEF DrawnInv
  <2>4. \A e, f \in Known' : e.id < f.id => e.issued <= f.issued
    BY <1>1, <1>2, <2>1 DEF DrawnInv
  <2>5. QED
    BY <2>2, <2>3, <2>4 DEF DrawnInv
<1>5. QED
  BY <1>3, <1>4, KnownStep

LEMMA DrawnInit == Init => DrawnInv
<1> SUFFICES ASSUME Init PROVE DrawnInv
  OBVIOUS
<1>1. Stored = NoDoc
  BY DEF Init, Blank, Rec, Stored
<1>2. Known = {}
  BY <1>1, DashboardAssumption DEF Init, Known
<1>3. QED
  BY <1>2 DEF DrawnInv

-----------------------------------------------------------------------------
(* The Governor of Me.                                                     *)

\* A document that the gateway of Me may apply.
MineLanded(g) == \E d \in landed : g = Grant(d) /\ d.agent = Me

\* The Governor only ever holds documents the slot held, for Me, and the active
\* one is newer than every other that was ever active.
GovInv ==
  /\ polled # NoDoc => polled \in landed
  /\ anchor \in {NoAnchor, [owner |-> "owner", agent |-> Me]}
  /\ calls = [c \in {"poll"} |-> calls["poll"]]
  /\ calls["poll"] # Idle =>
       calls["poll"].op = "applySteerGrant" /\ MineLanded(calls["poll"].grant)
  /\ \A g \in everActive : MineLanded(g)
  /\ active # NoDoc => active \in everActive
  /\ \A g \in everActive :
       /\ active \in everActive /\ grantHigh = active.issued
       /\ g = active \/ g.issued < grantHigh

SystemInv == TypeInv /\ ToldInv /\ DrawnInv /\ GovInv

LEMMA SystemInit0 == SystemInit => SystemInv
<1> SUFFICES ASSUME SystemInit PROVE SystemInv
  OBVIOUS
<1>1. Init /\ Gov!Init
  BY DEF SystemInit
<1>2. ToldInv
  BY <1>1 DEF Init, ToldInv
<1>3. GovInv
  BY <1>1 DEF SystemInit, Gov!Init, GovInv
<1>4. QED
  BY <1>1, <1>2, <1>3, TypeInit, DrawnInit DEF SystemInv

\* What the dashboard does the Governor does not see.
LEMMA GovKeeps ==
  ASSUME GovInv, landed \subseteq landed', UNCHANGED governor,
         polled' # NoDoc => polled' \in landed'
  PROVE  GovInv'
<1>1. \A g : MineLanded(g) => MineLanded(g)'
  BY DEF MineLanded, Grant
<1>2. /\ anchor' = anchor /\ calls' = calls /\ everActive' = everActive
      /\ active' = active /\ grantHigh' = grantHigh
  BY DEF governor
<1>3. QED
  BY <1>1, <1>2 DEF GovInv

LEMMA GovPollApply ==
  ASSUME GovInv, TypeInv, PollApply
  PROVE  GovInv'
<1> DEFINE call == [op |-> "applySteerGrant", grant |-> Grant(polled), at |-> clock,
                    klass |-> NoDoc, scope |-> NoDoc, nonce |-> 0]
<1>1. /\ Gov!VerifyGrant(Grant(polled), clock) /\ Gov!Suspend("poll", call)
      /\ polled \in landed /\ polled' = NoDoc /\ landed' = landed
  BY DEF PollApply, Gov!BeginApplySteerGrant, GovInv, dashboard, vars, wire
<1>2. /\ calls' = [calls EXCEPT !["poll"] = call]
      /\ anchor' = anchor /\ everActive' = everActive
      /\ active' = active /\ grantHigh' = grantHigh
  BY <1>1 DEF Gov!Suspend, Gov!meta, Gov!history
<1>3. polled.agent = Me
  BY <1>1 DEF Gov!VerifyGrant, GovInv, Grant
<1>4. MineLanded(Grant(polled))
  BY <1>1, <1>3 DEF MineLanded
<1>5. call.op = "applySteerGrant" /\ MineLanded(call.grant)
  BY <1>4
<1> HIDE DEF call
<1>6. calls' = [c \in {"poll"} |-> call]
  BY <1>2 DEF GovInv
<1>7. \A g : MineLanded(g)' <=> MineLanded(g)
  BY <1>1 DEF MineLanded, Grant
<1>8. QED
  BY <1>1, <1>2, <1>5, <1>6, <1>7 DEF GovInv

LEMMA GovFinish ==
  ASSUME GovInv, TypeInv, UNCHANGED <<dashboard, polled>>,
         Gov!FinishApplySteerGrant("poll")
  PROVE  GovInv'
<1> DEFINE g == calls["poll"].grant
<1>1. landed' = landed /\ polled' = polled
  BY DEF dashboard, vars, wire
<1>2. /\ calls["poll"] # Idle /\ g.issued > grantHigh
      /\ active' = g /\ everActive' = everActive \cup {g} /\ grantHigh' = g.issued
      /\ calls' = [calls EXCEPT !["poll"] = Idle] /\ anchor' = anchor
  BY DEF Gov!FinishApplySteerGrant, Gov!Appliable, Gov!Activate, Gov!Resume
<1>3. MineLanded(g)
  BY <1>2 DEF GovInv
<1> HIDE DEF g
<1>4. \A h : MineLanded(h) => h.issued \in Int
  BY DEF MineLanded, Grant, TypeInv, TypeOK, Doc, Time
<1>5. \A h \in everActive : h.issued <= grantHigh /\ h.issued \in Int /\ grantHigh \in Int
  BY <1>4 DEF GovInv
<1>6. calls' = [c \in {"poll"} |-> Idle]
  BY <1>2 DEF GovInv
<1>7. \A h : MineLanded(h)' <=> MineLanded(h)
  BY <1>1 DEF MineLanded, Grant
<1>8. \A h \in everActive' : h = g \/ h.issued < g.issued
  BY <1>2, <1>3, <1>4, <1>5
<1>9. QED
  BY <1>1, <1>2, <1>3, <1>6, <1>7, <1>8 DEF GovInv

LEMMA GovStep ==
  ASSUME SystemInv, [LateDashboard \/ Gateway]_system
  PROVE  GovInv'
<1>1. GovInv /\ TypeInv /\ ToldInv
  BY DEF SystemInv
<1>2. [Next]_vars /\ landed \subseteq landed'
  BY DashboardSteps, LandedGrows
<1>3. CASE LateDashboard \/ UNCHANGED system
  BY <1>1, <1>2, <1>3, GovKeeps DEF LateDashboard, GovInv, system, governor
<1>4. CASE Configure
  <2>1. /\ anchor' = [owner |-> "owner", agent |-> Me] /\ landed' = landed /\ polled' = polled
        /\ calls' = calls /\ everActive' = everActive
        /\ active' = active /\ grantHigh' = grantHigh
    BY <1>4 DEF Configure, Gov!Configure, Gov!history, dashboard, vars, wire
  <2>2. \A h : MineLanded(h)' <=> MineLanded(h)
    BY <2>1 DEF MineLanded, Grant
  <2>3. QED
    BY <1>1, <2>1, <2>2 DEF GovInv
<1>5. CASE PollRead
  BY <1>1, <1>2, <1>5, GovKeeps DEF PollRead, ToldInv, dashboard, vars, wire
<1>6. CASE PollDrop
  BY <1>1, <1>2, <1>6, GovKeeps DEF PollDrop
<1>7. CASE PollApply
  BY <1>1, <1>7, GovPollApply
\* The call is over.
<1>8. ASSUME calls' = [c \in {"poll"} |-> Idle],
             anchor' = anchor, everActive' = everActive, active' = active,
             grantHigh' = grantHigh, UNCHANGED dashboard, polled' \in {polled, NoDoc}
      PROVE  GovInv'
  <2>1. landed' = landed
    BY <1>8 DEF dashboard, vars, wire
  <2>2. \A h : MineLanded(h)' <=> MineLanded(h)
    BY <2>1 DEF MineLanded, Grant
  <2>3. QED
    BY <1>1, <1>8, <2>1, <2>2 DEF GovInv
<1>9. CASE PollFinish
  <2>1. CASE Gov!FinishApplySteerGrant("poll")
    BY <1>1, <1>9, <2>1, GovFinish DEF PollFinish
  <2>2. CASE Gov!Refuse("poll")
    <3>1. /\ calls' = [calls EXCEPT !["poll"] = Idle] /\ anchor' = anchor
          /\ everActive' = everActive /\ active' = active /\ grantHigh' = grantHigh
      BY <2>2 DEF Gov!Refuse, Gov!Resume, Gov!meta, Gov!history
    <3>2. calls' = [c \in {"poll"} |-> Idle]
      BY <1>1, <3>1 DEF GovInv
    <3>3. QED
      BY <1>8, <1>9, <3>1, <3>2 DEF PollFinish
  <2>3. QED
    BY <1>9, <2>1, <2>2 DEF PollFinish
<1>10. CASE Evict
  BY <1>8, <1>10 DEF Evict, Gov!Restart, Gov!meta, Gov!history
<1>11. QED
  BY <1>3, <1>4, <1>5, <1>6, <1>7, <1>9, <1>10 DEF Gateway

LEMMA SystemStep == SystemInv /\ [LateDashboard \/ Gateway]_system => SystemInv'
<1> SUFFICES ASSUME SystemInv, [LateDashboard \/ Gateway]_system PROVE SystemInv'
  OBVIOUS
<1>1. [Next]_vars
  BY DashboardSteps
<1>2. TypeInv' /\ ToldInv' /\ DrawnInv'
  BY <1>1, TypeStep, ToldStep, DrawnStep DEF SystemInv
<1>3. QED
  BY <1>2, GovStep DEF SystemInv

\* A stop that the agent ever obeyed stays obeyed: whatever the network brings
\* back later, in whatever order, and however often the gateway and the dashboard
\* restart, the agent runs again only if the owner signed a permissive grant for
\* it after that stop ("... and stays stopped", README.md).
StopStays ==
  \A g \in everActive : Gov!IsStop(g) /\ Running => Resumed(g.id)

\* StopStays holds of any number of request threads and agents, and even of writes
\* that arrive late: FinishApplySteerGrant applies nothing at or below the
\* high-water, and ids are drawn in the order of the issue times.
THEOREM StopsStay == LateSpec => []StopStays
<1>1. SystemInv => StopStays
  <2> SUFFICES ASSUME SystemInv, NEW g \in everActive, Gov!IsStop(g), Running
               PROVE  Resumed(g.id)
    BY DEF StopStays
  <2>1. /\ active # NoDoc /\ ~Gov!IsStop(active) /\ active \in everActive
        /\ g.issued < active.issued
    BY DEF Running, Gov!ActiveVerifies, SystemInv, GovInv
  <2>2. PICK d \in landed : g = Grant(d) /\ d.agent = Me
    BY DEF SystemInv, GovInv, MineLanded
  <2>3. PICK e \in landed : active = Grant(e) /\ e.agent = Me
    BY <2>1 DEF SystemInv, GovInv, MineLanded
  <2>4. d.issued < e.issued /\ e.live /\ g.id = d.id
    BY <2>1, <2>2, <2>3 DEF Grant, Gov!IsStop
  <2>5. d \in Known /\ e \in Known /\ d \in Doc /\ e \in Doc
    BY KnownHas DEF SystemInv, TypeInv, TypeOK
  <2>6. d.id < e.id
    BY <2>4, <2>5 DEF SystemInv, DrawnInv, Doc, Id, Time
  <2>7. QED
    BY <2>3, <2>4, <2>6 DEF Resumed
<1>2. QED
  BY <1>1, SystemInit0, SystemStep, PTL DEF LateSpec

\* So does it of the system that the runs of KillSwitch check, every write of which
\* arrives at once or never.
COROLLARY SystemStopsStay == SystemSpec => []StopStays
<1>1. SystemSpec => LateSpec
  BY DashboardIsLate, PTL DEF SystemSpec, LateSpec
<1>2. QED
  BY <1>1, StopsStay, PTL

LEMMA GovernorSteps ==
  ASSUME SystemInv, [LateDashboard \/ Gateway]_system
  PROVE  [Gov!SteerNext]_(Gov!vars)
<1>1. clock \in Gov!Time /\ (polled # NoDoc => polled \in Doc)
  BY DEF SystemInv, TypeInv, TypeOK, GovInv, Gov!Time, Time
<1>2. CASE LateDashboard \/ PollRead \/ PollDrop \/ UNCHANGED system
  <2>1. UNCHANGED governor
    BY <1>2 DEF LateDashboard, PollRead, PollDrop, system, governor
  <2>2. QED
    BY <2>1 DEF governor, Gov!vars, Gov!meta, Gov!tables, Gov!history
<1>3. ASSUME Configure
      PROVE  Gov!GatewayNext
  BY <1>3, KillSwitchAssumption DEF Configure, Gov!GatewayNext
<1>4. ASSUME PollApply
      PROVE  Gov!GatewayNext
  <2>1. Gov!BeginApplySteerGrant("poll", Grant(polled), clock)
    BY <1>4 DEF PollApply
  <2>2. \E d \in Doc : Grant(polled) = Grant(d)
    BY <1>1, <1>4 DEF PollApply
  <2>3. QED
    BY <1>1, <2>1, <2>2 DEF Gov!GatewayNext
<1>5. ASSUME PollFinish
      PROVE  Gov!GatewayNext
  BY <1>5 DEF PollFinish, Gov!GatewayNext
<1>6. ASSUME Evict
      PROVE  Gov!GatewayNext
  BY <1>6 DEF Evict, Gov!GatewayNext
<1>7. QED
  BY <1>2, <1>3, <1>4, <1>5, <1>6 DEF Gateway, Gov!SteerNext

\* The polls drive the Governor of Governor.tla through its own RPCs and in no
\* other way: the system is a behaviour of that module, over the documents of this
\* dashboard.
THEOREM SystemRunsGovernor == LateSpec => Gov!SteerSpec
<1>1. SystemInit => Gov!Init
  BY DEF SystemInit
<1>2. QED
  BY <1>1, GovernorSteps, SystemInit0, SystemStep, PTL DEF LateSpec, Gov!SteerSpec

-----------------------------------------------------------------------------
(* A stop that the owner was told of.                                      *)

\* One request at a time, and no agent but Me.
OneThread == \A q, r \in Req : q = r

\* The owner who waits for the next second dates no two documents alike.
StrictInv == \A d, e \in Known : d.id < e.id => d.issued < e.issued

\* The slot only moves on to later documents, and it still holds the last one that
\* was reported delivered, or a later one.
SlotInv ==
  /\ late = {}
  /\ slot # NoDoc => /\ Stored # NoDoc => slot.id <= Stored.id
                     /\ \A r \in Req : req[r] # Idle /\ Carrying(req[r]) =>
                          slot.id <= req[r].doc.id
  /\ \A r \in Req : req[r] # Idle /\ req[r].ok => req[r].at = "record" /\ req[r].doc = slot
  /\ \A s \in told : slot # NoDoc /\ s.id <= slot.id

PatientInv == SystemInv /\ FilesInv /\ StrictInv /\ SlotInv

LEMMA StrictStep ==
  ASSUME PatientInv, OneThread, [Next]_vars, nextId' # nextId => AllOlder
  PROVE  StrictInv'
<1>1. TypeInv /\ DrawnInv /\ StrictInv
  BY DEF PatientInv, SystemInv
<1>2. CASE Keeps
  BY <1>1, <1>2 DEF Keeps, StrictInv
<1>3. ASSUME NEW d \in Doc, Signs(d)
      PROVE  StrictInv'
  <2>1. /\ d.id = nextId /\ d.issued = clock /\ nextId \in Int /\ clock \in Int
        /\ nextId' = nextId + 1
        /\ \A e \in Known' : e \in Known \/ e = d
        /\ \A e \in Known : e.id < nextId /\ e.id \in Int /\ e.issued \in Int
    BY <1>1, <1>3 DEF Signs, DrawnInv, Known, Doc, Id, Time, TypeInv, TypeOK
  <2>2. PICK r \in Req : req[r] # Idle /\ req[r].at = "build"
    BY <1>3 DEF Signs
  <2>3. \A q \in Req : ~Carrying(req[q])
    BY <2>2 DEF OneThread, Carrying
  <2>4. AllOlder
    BY <2>1
  <2>5. \A e \in Known : e \in landed \cup late \cup ({Stored} \ {NoDoc})
    BY <2>3, DashboardAssumption DEF Known
  <2>6. \A e \in Known : e.issued < clock
    BY <2>4, <2>5 DEF AllOlder
  <2>7. \A e, f \in Known' : e.id < f.id => e.issued < f.issued
    BY <1>1, <2>1, <2>6 DEF StrictInv
  <2>8. QED
    BY <2>7 DEF StrictInv
<1>4. QED
  BY <1>1, <1>2, <1>3, KnownStep

LEMMA SlotThread ==
  ASSUME OneThread, NEW r \in Req, late' = {},
         slot' # NoDoc =>
           /\ Stored' # NoDoc => slot'.id <= Stored'.id
           /\ req'[r] # Idle /\ Carrying(req'[r]) => slot'.id <= req'[r].doc.id,
         req'[r] # Idle /\ req'[r].ok => req'[r].at = "record" /\ req'[r].doc = slot',
         \A s \in told' : slot' # NoDoc /\ s.id <= slot'.id
  PROVE  SlotInv'
<1>1. \A q \in Req : q = r
  BY DEF OneThread
<1>2. QED
  BY <1>1 DEF SlotInv, Carrying

\* A step that leaves the slot alone: what the request carries is what it carried,
\* what is stored, or later than the slot.
LEMMA SlotRests ==
  ASSUME OneThread, SlotInv, NEW r \in Req, UNCHANGED <<slot, late, told>>,
         Stored' # NoDoc =>
           \/ Stored' = Stored
           \/ req[r] # Idle /\ Carrying(req[r]) /\ Stored' = req[r].doc,
         req'[r] # Idle /\ Carrying(req'[r]) =>
           \/ req[r] # Idle /\ Carrying(req[r]) /\ req'[r].doc = req[r].doc
           \/ Stored # NoDoc /\ req'[r].doc = Stored
           \/ slot # NoDoc => slot.id <= req'[r].doc.id,
         req'[r] # Idle /\ req'[r].ok => req'[r].at = "record" /\ req'[r].doc = slot
  PROVE  SlotInv'
<1>1. slot' # NoDoc =>
        /\ Stored' # NoDoc => slot'.id <= Stored'.id
        /\ req'[r] # Idle /\ Carrying(req'[r]) => slot'.id <= req'[r].doc.id
  BY DEF SlotInv
<1>2. late' = {} /\ \A s \in told' : slot' # NoDoc /\ s.id <= slot'.id
  BY DEF SlotInv
<1>3. QED
  BY <1>1, <1>2, SlotThread

LEMMA SlotAsk ==
  ASSUME OneThread, TypeInv, SlotInv, NEW r \in Req, Ask(r)
  PROVE  SlotInv'
<1>1. req \in [Req -> Request \cup {Idle}]
  BY DEF TypeInv, TypeOK
<1>2. UNCHANGED <<slot, late, told>>
  BY DEF Ask, Begin, Resend, Link, Switch, Unlink, Clear, wire
<1>3. ASSUME NEW op \in {"sign", "stop"}, Begin(r, op)
      PROVE  SlotInv'
  <2>1. req'[r].at = "build" /\ ~req'[r].ok /\ ~Carrying(req'[r]) /\ Stored' = Stored
    BY <1>1, <1>3 DEF Begin, Fresh, Carrying, files, Stored
  <2>2. QED
    BY <1>2, <2>1, SlotRests
<1>4. CASE Resend(r)
  <2>1. Stored # NoDoc /\ Stored = record.grant /\ record \in Record
    BY <1>4, StoredType DEF Resend, Resendable, TypeInv, TypeOK
  <2>2. req'[r].doc = Stored /\ ~req'[r].ok
    BY <1>1, <1>4 DEF Resend, Fresh
  <2>3. Stored' \in {Stored, NoDoc}
    BY <1>4, <2>1 DEF Resend, Stored, Record
  <2>4. QED
    BY <1>2, <2>1, <2>2, <2>3, SlotRests
<1>5. ASSUME NEW a \in Agents, Link(r, a)
      PROVE  SlotInv'
  <2>1. req' = req /\ Stored' = Stored
    BY <1>5 DEF Link, Stored
  <2>2. req[r] # Idle /\ req[r].ok => req[r].at = "record" /\ req[r].doc = slot
    BY DEF SlotInv
  <2>3. QED
    BY <1>2, <2>1, <2>2, SlotRests
<1>6. ASSUME NEW op \in {"link", "unlink"}, NEW a, Clear(r, op, a)
      PROVE  SlotInv'
  <2>1. /\ req'[r].at \in {"bar", "relink"} /\ req'[r].op = op /\ ~req'[r].ok
        /\ Stored' = NoDoc
    BY <1>1, <1>6 DEF Clear, Fresh, Stored, Blank, Rec
  <2>2. ~Carrying(req'[r])
    BY <2>1 DEF Carrying
  <2>3. QED
    BY <1>2, <2>1, <2>2, SlotRests
<1>7. QED
  BY <1>3, <1>4, <1>5, <1>6 DEF Ask, Switch, Unlink

LEMMA SlotBuild ==
  ASSUME OneThread, TypeInv, ToldInv, DrawnInv, SlotInv, NEW r \in Req,
         NEW live, NEW life, Build(r, live, life)
  PROVE  SlotInv'
<1>1. req[r] \in Request /\ req[r] # Idle /\ req[r].at = "build" /\ ~req[r].ok
  BY DEF Build, At, TypeInv, TypeOK, SlotInv
<1>2. req'[r].doc.id = nextId /\ req'[r].ok = req[r].ok
  BY <1>1 DEF Build, Request, TypeInv, TypeOK
<1>3. Stored' = Stored /\ UNCHANGED <<slot, late, told>>
  BY DEF Build, files, wire, Stored
<1>4. slot # NoDoc => slot.id < nextId /\ slot.id \in Int /\ nextId \in Int
  BY KnownHas DEF ToldInv, DrawnInv, Known, Doc, Id, TypeInv, TypeOK
<1>5. slot # NoDoc => slot.id <= req'[r].doc.id
  BY <1>2, <1>4
<1>6. QED
  BY <1>1, <1>2, <1>3, <1>5, SlotRests

LEMMA SlotWork ==
  ASSUME OneThread, FilesInv, ToldInv, DrawnInv, SlotInv, NEW r \in Req, Step(r)
  PROVE  SlotInv'
<1>1. TypeInv /\ req \in [Req -> Request \cup {Idle}]
  BY DEF FilesInv, TypeInv, TypeOK
<1>2. CASE \/ \E live \in Allows, life \in Lives : BuildGrant(r, live, life)
           \/ BuildStop(r)
  BY <1>1, <1>2, SlotBuild DEF BuildGrant, BuildStop
<1>3. ASSUME NEW b \in BOOLEAN, Denied(r) \/ RefuseStop(r) \/ CannotWrite(r) \/ Relink(r, b)
      PROVE  SlotInv'
  <2>1. Answer(r) /\ Stored' = Stored /\ UNCHANGED <<slot, late, told>>
    BY <1>3 DEF Denied, RefuseStop, CannotWrite, Relink, files, wire, Stored
  <2>2. req'[r] = Idle
    BY <1>1, <2>1 DEF Answer
  <2>3. QED
    BY <2>1, <2>2, SlotRests
<1>4. CASE Store(r)
  <2>1. req[r] \in Request /\ req[r] # Idle /\ Carrying(req[r]) /\ ~req[r].ok
    BY <1>1, <1>4 DEF Store, At, Carrying, SlotInv
  <2>2. req'[r].doc = req[r].doc /\ req'[r].ok = req[r].ok
    BY <1>1, <1>4, <2>1 DEF Store, Request
  <2>3. Stored' \in {req[r].doc, NoDoc} /\ UNCHANGED <<slot, late, told>>
    BY <1>4 DEF Store, Stored, Rec, wire
  <2>4. QED
    BY <2>1, <2>2, <2>3, SlotRests
<1>5. CASE Bar(r)
  <2>1. req[r] \in Request /\ req[r] # Idle /\ req[r].at = "bar" /\ ~req[r].ok
    BY <1>1, <1>5 DEF Bar, At, SlotInv
  <2>2. /\ req'[r].at = IF req[r].op \in {"link", "unlink"} THEN "relink" ELSE "put"
        /\ req'[r].op = req[r].op /\ req'[r].doc = req[r].doc /\ req'[r].ok = req[r].ok
    BY <1>1, <1>5, <2>1 DEF Bar, Goto, Request
  <2>3. Carrying(req'[r]) => Carrying(req[r])
    BY <2>1, <2>2 DEF Carrying
  <2>4. Stored' = Stored /\ UNCHANGED <<slot, late, told>>
    BY <1>5 DEF Bar, wire, Stored
  <2>5. QED
    BY <2>1, <2>2, <2>3, <2>4, SlotRests
<1>6. ASSUME NEW b \in BOOLEAN, PutAnswered(r, b)
      PROVE  SlotInv'
  <2>1. req[r] \in Request /\ req[r] # Idle /\ req[r].at = "put" /\ ~req[r].ok
    BY <1>1, <1>6 DEF PutAnswered, At, SlotInv
  <2>2. Carrying(req[r]) /\ Holding(req[r])
    BY <2>1 DEF Carrying, Holding
  <2>3. req[r].doc \in Doc
    BY <1>1, <2>1, <2>2 DEF TypeInv, LocalsTyped, Locals
  <2>4. req'[r].doc = req[r].doc /\ req'[r].ok = req[r].ok
    BY <1>1, <1>6, <2>1 DEF PutAnswered, Goto, Request
  <2>5. Stored' = Stored /\ late' = late /\ told' = told /\ slot' \in {slot, req[r].doc}
    BY <1>6 DEF PutAnswered, files, Stored
  <2>6. CASE slot' = slot
    BY <2>1, <2>2, <2>4, <2>5, <2>6, SlotRests
  <2>7. CASE slot' = req[r].doc
    <3>1. Stored # NoDoc => Stored = req[r].doc
      BY <2>1, <2>2 DEF FilesInv, DiskInv, Stored
    <3>2. req[r].doc.id \in Int /\ req[r].doc # NoDoc
      BY <2>3, DashboardAssumption DEF Doc, Id
    <3>3. \A s \in told : s.id \in Int /\ (slot # NoDoc => slot.id \in Int)
      BY <1>1 DEF TypeInv, TypeOK, Doc, Id
    <3>4. \A s \in told : s.id <= req[r].doc.id
      BY <2>1, <2>2, <3>2, <3>3 DEF SlotInv
    <3>5. slot' # NoDoc =>
            /\ Stored' # NoDoc => slot'.id <= Stored'.id
            /\ req'[r] # Idle /\ Carrying(req'[r]) => slot'.id <= req'[r].doc.id
      BY <2>4, <2>5, <2>7, <3>1, <3>2
    <3>6. late' = {} /\ \A s \in told' : slot' # NoDoc /\ s.id <= slot'.id
      BY <2>5, <2>7, <3>2, <3>4 DEF SlotInv
    <3>7. QED
      BY <2>1, <2>4, <3>5, <3>6, SlotThread
  <2>8. QED
    BY <2>5, <2>6, <2>7
<1>7. ASSUME NEW b \in BOOLEAN, Confirm(r, b) \/ PutFailed(r, FALSE) \/ PutRefused(r)
      PROVE  SlotInv'
  <2>1. req[r] \in Request /\ req[r] # Idle /\ Carrying(req[r]) /\ ~req[r].ok
    BY <1>1, <1>7 DEF Confirm, PutFailed, PutRefused, At, Carrying, SlotInv
  <2>2. /\ req'[r].doc = req[r].doc
        /\ req'[r].ok => req'[r].at = "record" /\ req[r].doc = slot
    <3>1. CASE Confirm(r, b)
      BY <1>1, <2>1, <3>1 DEF Confirm, Request
    <3>2. CASE PutFailed(r, FALSE)
      BY <1>1, <2>1, <3>2 DEF PutFailed, Request
    <3>3. CASE PutRefused(r)
      BY <1>1, <2>1, <3>3 DEF PutRefused, Goto, Request
    <3>4. QED
      BY <1>7, <3>1, <3>2, <3>3
  <2>3. Stored' = Stored /\ UNCHANGED <<slot, late, told>>
    BY <1>7 DEF Confirm, PutFailed, PutRefused, files, wire, Stored
  <2>4. QED
    BY <2>1, <2>2, <2>3, SlotRests
<1>8. CASE Finish(r)
  <2>1. req[r] # Idle /\ Carrying(req[r])
    BY <1>8 DEF Finish, At, Carrying
  <2>2. req[r].doc \in Doc
    BY <1>1, <2>1 DEF TypeInv, LocalsTyped, Locals
  <2>3. req'[r] = Idle /\ slot' = slot /\ late' = late /\ Stored' \in {req[r].doc, NoDoc}
    BY <1>1, <1>8 DEF Finish, Answer, wire, Stored, Rec
  <2>4. \A s \in told' : s \in told \/ (req[r].ok /\ s = req[r].doc)
    BY <1>8 DEF Finish
  <2>5. req[r].ok => req[r].doc = slot
    BY <2>1 DEF SlotInv
  <2>6. \A s \in told' : slot' # NoDoc /\ s.id <= slot'.id
    <3>1. req[r].doc.id \in Int /\ req[r].doc # NoDoc
      BY <2>2, DashboardAssumption DEF Doc, Id
    <3>2. QED
      BY <2>3, <2>4, <2>5, <3>1 DEF SlotInv
  <2>7. slot' # NoDoc /\ Stored' # NoDoc => slot'.id <= Stored'.id
    BY <2>1, <2>3 DEF SlotInv
  <2>8. late' = {}
    BY <2>3 DEF SlotInv
  <2>9. QED
    BY <2>3, <2>6, <2>7, <2>8, SlotThread
<1>9. QED
  BY <1>2, <1>3, <1>4, <1>5, <1>6, <1>7, <1>8 DEF Step

LEMMA SlotStep == OneThread /\ PatientInv /\ [PromptNext]_vars => SlotInv'
<1> SUFFICES ASSUME OneThread, PatientInv, [PromptNext]_vars PROVE SlotInv'
  OBVIOUS
<1>1. FilesInv /\ TypeInv /\ ToldInv /\ DrawnInv /\ SlotInv
  BY DEF PatientInv, SystemInv
<1>2. ASSUME Crash \/ Damage \/ Tick \/ UNCHANGED vars
      PROVE  SlotInv'
  <2>1. /\ req' = req \/ \A q \in Req : req'[q] = Idle
        /\ Stored' \in {Stored, NoDoc} /\ UNCHANGED <<slot, late, told>>
    BY <1>2 DEF Crash, Damage, Tick, vars, files, wire, Stored
  <2>2. QED
    BY <1>1, <2>1 DEF SlotInv, Carrying
<1>3. QED
  BY <1>1, <1>2, SlotAsk, SlotWork DEF PromptNext

\* The owner was told that a stop for Me was delivered, the agent still runs, and
\* nothing was granted since: then the slot holds a stop for Me that the Governor
\* will apply, newer than all it applied so far.
NextPollStops ==
  \A i \in Id :
    ToldStopped(i) /\ Running /\ ~Resumed(i) =>
      slot # NoDoc /\ slot.agent = Me /\ ~slot.live /\ slot.issued > grantHigh

\* What StopTakesEffect rests on besides the polls: an owner of one agent who asks
\* one thing at a time and waits for the next second before signing again never
\* finds the stop that was reported delivered overwritten, or too old to apply.
\* (Without the wait, or with a second agent, the runs of KillSwitch show it is.)
THEOREM ToldStopIsNext ==
  ASSUME OneThread, Agents = {Me}
  PROVE  PatientSpec => []NextPollStops
<1>1. SystemInit => PatientInv
  <2> SUFFICES ASSUME SystemInit PROVE PatientInv
    OBVIOUS
  <2>1. Init /\ SystemInv /\ FilesInv
    BY SystemInit0, FilesInit, TypeInit DEF SystemInit
  <2>2. Stored = NoDoc /\ \A r \in Req : req[r] = Idle
    BY <2>1 DEF Init, Blank, Rec, Stored
  <2>3. Known = {}
    BY <2>1, <2>2, DashboardAssumption DEF Init, Known
  <2>4. StrictInv /\ SlotInv
    BY <2>1, <2>2, <2>3 DEF StrictInv, SlotInv, Init
  <2>5. QED
    BY <2>1, <2>4 DEF PatientInv
<1>2. PatientInv /\ [PatientDashboard \/ Gateway]_system => PatientInv'
  <2> SUFFICES ASSUME PatientInv, [PatientDashboard \/ Gateway]_system PROVE PatientInv'
    OBVIOUS
  <2>1. [Dashboard \/ Gateway]_system
    BY DEF PatientDashboard
  <2>2. [PromptNext]_vars /\ [Next]_vars
    BY <2>1, DashboardSteps DEF Next
  <2>3. nextId' # nextId => AllOlder
    BY DEF PatientDashboard, Gateway, Configure, PollRead, PollApply, PollDrop, PollFinish,
           Evict, system, dashboard, vars
  <2>4. SystemInv' /\ SlotInv'
    BY <2>1, <2>2, DashboardIsLate, SystemStep, SlotStep DEF PatientInv
  <2>5. FilesInv'
    BY <2>2, <2>4, FilesStep DEF PatientInv, SystemInv
  <2>6. StrictInv'
    BY <2>2, <2>3, StrictStep
  <2>7. QED
    BY <2>4, <2>5, <2>6 DEF PatientInv
<1>3. PatientInv => NextPollStops
  <2> SUFFICES ASSUME PatientInv, NEW i \in Id, ToldStopped(i), Running, ~Resumed(i)
               PROVE  slot # NoDoc /\ slot.agent = Me /\ ~slot.live /\ slot.issued > grantHigh
    BY DEF NextPollStops
  <2>1. TypeInv /\ ToldInv /\ DrawnInv /\ GovInv /\ StrictInv /\ SlotInv
    BY DEF PatientInv, SystemInv
  <2>2. PICK s \in told : s.id = i /\ s.agent = Me /\ ~s.live
    BY DEF ToldStopped
  <2>3. /\ slot # NoDoc /\ s.id <= slot.id
        /\ slot \in landed /\ s \in landed
    BY <2>1, <2>2 DEF SlotInv, ToldInv
  <2>4. landed \subseteq Known /\ landed \subseteq Doc
    BY <2>1, KnownHas DEF TypeInv, TypeOK
  <2>5. \A d \in landed : d.agent = Me /\ d.id \in Int /\ d.issued \in Int /\ d.live \in BOOLEAN
    BY <2>4 DEF Doc, Id, Time
  <2>6. ~slot.live
    <3>1. CASE slot.id = i
      BY <2>1, <2>2, <2>3, <2>4, <3>1 DEF DrawnInv
    <3>2. CASE slot.id > i
      BY <2>3, <2>5, <3>2 DEF Resumed
    <3>3. QED
      BY <2>2, <2>3, <2>5, <3>1, <3>2
  <2>7. active # NoDoc /\ ~Gov!IsStop(active) /\ active \in everActive /\ grantHigh = active.issued
    BY <2>1 DEF Running, Gov!ActiveVerifies, GovInv
  <2>8. PICK e \in landed : active = Grant(e)
    BY <2>1, <2>7 DEF GovInv, MineLanded
  <2>9. e.live /\ grantHigh = e.issued
    BY <2>7, <2>8 DEF Grant, Gov!IsStop
  <2>10. e.id < i
    <3>1. ~(e.id > i)
      BY <2>5, <2>9 DEF Resumed
    <3>2. e.id # i
      BY <2>1, <2>2, <2>3, <2>4, <2>9 DEF DrawnInv
    <3>3. QED
      BY <2>2, <2>3, <2>5, <3>1, <3>2
  <2>11. e.issued < slot.issued
    <3>1. e.id < slot.id
      BY <2>2, <2>3, <2>5, <2>10
    <3>2. QED
      BY <2>1, <2>3, <2>4, <3>1 DEF StrictInv
  <2>12. QED
    BY <2>3, <2>5, <2>6, <2>9, <2>11
<1>4. QED
  BY <1>1, <1>2, <1>3, PTL DEF PatientSpec
=============================================================================
