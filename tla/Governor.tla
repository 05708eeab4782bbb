------------------------------ MODULE Governor ------------------------------
(***************************************************************************)
(* The Governor Durable Object (agent/src/governor.ts): the one authority  *)
(* that decides whether the agent may sign or think.                       *)
(*                                                                         *)
(* The object's storage is synchronous, so code between two awaits is one  *)
(* atomic step.  Every RPC that checks a grant awaits exactly once, in     *)
(* verifyGrant (a WebCrypto call), and other RPCs run while it waits.      *)
(* Such an RPC is therefore two actions: Begin* up to the await, which     *)
(* leaves what the call has read in calls[c], and Finish* / Reserve* after *)
(* it.  The outcome of verifyGrant depends only on values read before the  *)
(* await, so a call whose grant does not verify changes nothing and is     *)
(* left out (it is a stuttering step).                                     *)
(*                                                                         *)
(* Statuses other than OK are not told apart: no caller does.              *)
(***************************************************************************)
EXTENDS Integers, FiniteSets

CONSTANTS
  Grants,       \* every grant document any RPC is handed, well-formed or not
  NoGrant,      \* no row active_grant / active_grant_id
  Owners,       \* owner public keys configure() is called with
  Agents,       \* agent dids configure() is called with
  NoAnchor,     \* no rows owner_pub / agent_did
  Class,        \* the action classes, "MODEL" among them
  Scope,        \* key|room pairs
  NoScope,      \* the scope of calls that carry no nonce
  Nonce,        \* nonces callers present to authorize
  SteerNonce,   \* nonces callers present to steerGate
  Caller,       \* slots for RPCs in progress: bounds how many interleave
  Idle,         \* a free slot
  MinWindow,    \* MIN_WINDOW_SEC
  IssuedSkew,   \* ISSUED_SKEW_SEC
  MaxTime       \* bound: the last reading of the clock

\* Readings of the clock.  #nowSec takes the platform's clock, or whatever the
\* caller sends in TEST_MODE: each call may read any time, in any order.
Time == 0 .. MaxTime

\* The shape of a signed grant.  `genuine` says whether its signature verifies
\* under the key of the owner it names (the external WebCrypto check).
ASSUME GrantsAssumption ==
  /\ \A g \in Grants :
       /\ DOMAIN g = {"id", "owner", "agent", "issued", "expiry", "window",
                      "allow", "genuine"}
       /\ g.issued \in Nat /\ g.expiry \in Nat /\ g.window \in Nat
       /\ \A k \in DOMAIN g.allow : g.allow[k] \in Nat
       /\ g.genuine \in BOOLEAN
  /\ NoGrant \notin Grants

\* Owners draw grant ids at random (dashboard/server.py:755), so one owner
\* never signs two different grants with the same id.
ASSUME GrantIdsUnique ==
  \A g, h \in Grants :
    g.genuine /\ h.genuine /\ g.owner = h.owner /\ g.id = h.id => g = h

ASSUME BoundsAssumption ==
  /\ MinWindow \in Nat \ {0}
  /\ IssuedSkew \in Nat
  /\ MaxTime \in Nat
  /\ Nonce \subseteq Nat
  /\ SteerNonce \subseteq Nat

ASSUME ValuesAssumption ==
  /\ "MODEL" \in Class
  /\ NoScope \notin Scope
  /\ NoAnchor \notin [owner : Owners, agent : Agents]

-----------------------------------------------------------------------------
VARIABLES
  anchor,       \* meta rows owner_pub and agent_did
  active,       \* meta rows active_grant and active_grant_id
  grantHigh,    \* meta row grant_issued_high, 0 when absent
  lastApplied,  \* meta row last_applied_issued, 0 when absent
  revoked,      \* table revoked
  counters,     \* table counters, 0 where a row is absent
  nonceHigh,    \* table nonces, 0 where a row is absent
  steerHigh,    \* table steer_seen, 0 when empty
  calls,        \* RPCs suspended in verifyGrant, lost when the object restarts
  ledger,       \* history: every reservation answered OK
  everActive    \* history: every grant that was ever active

meta == <<anchor, active, grantHigh, lastApplied>>
tables == <<revoked, counters, nonceHigh, steerHigh>>
history == <<ledger, everActive>>
vars == <<meta, tables, calls, history>>

\* What a suspended call holds in its locals.
Call ==
  [op    : {"authorize", "reserveModel", "pinGrant", "applySteerGrant"},
   grant : Grants,
   at    : Time,
   klass : Class \cup {NoScope},
   scope : Scope \cup {NoScope},
   nonce : Nonce \cup {0}]

\* A reservation that was answered OK.
Entry ==
  [serial : Nat \ {0}, grant : Grants, klass : Class, start : Time,
   scope  : Scope \cup {NoScope}, nonce : Nat]

TypeOK ==
  /\ anchor \in [owner : Owners, agent : Agents] \cup {NoAnchor}
  /\ active \in Grants \cup {NoGrant}
  /\ grantHigh \in Nat
  /\ lastApplied \in Nat
  /\ revoked \subseteq {g.id : g \in Grants}
  /\ counters \in [Class \X Time -> Nat]
  /\ nonceHigh \in [Scope -> Nat]
  /\ steerHigh \in Nat
  /\ calls \in [Caller -> Call \cup {Idle}]
  /\ ledger \subseteq Entry
  /\ everActive \subseteq Grants

-----------------------------------------------------------------------------
(* Operators of shared/grant.ts and of the private methods.                *)

VerifyGrant(g, t) ==
  /\ anchor # NoAnchor
  /\ g.agent = anchor.agent
  /\ g.owner = anchor.owner
  /\ g.id \notin revoked
  /\ g.expiry >= t
  /\ g.genuine

\* authorizedCeiling: a missing class and a ceiling of 0 both authorize nothing.
Ceiling(g, k) == IF k \in DOMAIN g.allow THEN g.allow[k] ELSE 0

IsStop(g) == DOMAIN g.allow = {}

WindowStart(t, w) == (t \div w) * w

\* #loadVerifiedActiveGrant, and the same checks inlined in authorize.
ActiveVerifies(t) == active # NoGrant /\ VerifyGrant(active, t)

\* Mutant: the high-water follows the last grant pinned instead of the newest.
LatestOf(a, b) == b

Max2(a, b) == IF a >= b THEN a ELSE b

Start(call) == WindowStart(call.at, call.grant.window)

\* Mutants: the re-check after the await forgets the active grant, or the
\* revocations.
UnrevokedOnly(call) == call.grant.id \notin revoked
ActiveOnly(call) == active # NoGrant /\ active.id = call.grant.id

\* The re-checks made after the await, in the same synchronous block as the
\* writes: the grant the call verified is still the active one ...
StillActive(call) ==
  /\ call.grant.id \notin revoked
  /\ active # NoGrant
  /\ active.id = call.grant.id

\* ... it grants the class, within a window of legal length ...
Granted(call) ==
  /\ Ceiling(call.grant, call.klass) > 0
  /\ call.grant.window >= MinWindow

\* Mutant: an off-by-one at the ceiling.
AtMostCeiling(call) ==
  counters[<<call.klass, Start(call)>>] <= Ceiling(call.grant, call.klass)

\* ... the counter of the window is below the ceiling ...
BelowCeiling(call) ==
  counters[<<call.klass, Start(call)>>] < Ceiling(call.grant, call.klass)

\* Mutant: a nonce may be used again.
NonceNotOlder(call) == call.nonce >= nonceHigh[call.scope]

\* ... and, for authorize only, the nonce is newer than the scope's high-water.
NonceFresh(call) == call.nonce > nonceHigh[call.scope]

Count(call) ==
  counters' = [counters EXCEPT ![<<call.klass, Start(call)>>] = @ + 1]

Record(call) ==
  ledger' = ledger \cup
    {[serial |-> Cardinality(ledger) + 1, grant |-> call.grant,
      klass |-> call.klass, start |-> Start(call),
      scope |-> call.scope, nonce |-> call.nonce]}

-----------------------------------------------------------------------------
Init ==
  /\ anchor = NoAnchor
  /\ active = NoGrant
  /\ grantHigh = 0
  /\ lastApplied = 0
  /\ revoked = {}
  /\ counters = [kw \in Class \X Time |-> 0]
  /\ nonceHigh = [s \in Scope |-> 0]
  /\ steerHigh = 0
  /\ calls = [c \in Caller |-> Idle]
  /\ ledger = {}
  /\ everActive = {}

\* Mutant: the second of the two anchor rows is never written.
ConfigureOwnerOnly(o, a) ==
  /\ anchor \in {NoAnchor, [owner |-> o]}
  /\ anchor' = [owner |-> o]
  /\ UNCHANGED <<active, grantHigh, lastApplied, tables, calls, history>>

\* The anchors are set once; a repeat of the same pair is accepted.
Configure(o, a) ==
  /\ anchor \in {NoAnchor, [owner |-> o, agent |-> a]}
  /\ anchor' = [owner |-> o, agent |-> a]
  /\ UNCHANGED <<active, grantHigh, lastApplied, tables, calls, history>>

\* Suspend a call of slot c in verifyGrant.
Suspend(c, call) ==
  /\ calls[c] = Idle
  /\ calls' = [calls EXCEPT ![c] = call]
  /\ UNCHANGED <<meta, tables, history>>

Resume(c) == calls' = [calls EXCEPT ![c] = Idle]

BeginAuthorize(c, k, s, n, t) ==
  /\ k # "MODEL"
  /\ ActiveVerifies(t)
  /\ Suspend(c, [op |-> "authorize", grant |-> active, at |-> t,
                 klass |-> k, scope |-> s, nonce |-> n])

BeginReserveModel(c, t) ==
  /\ ActiveVerifies(t)
  /\ Suspend(c, [op |-> "reserveModel", grant |-> active, at |-> t,
                 klass |-> "MODEL", scope |-> NoScope, nonce |-> 0])

BeginPinGrant(c, g, t) ==
  /\ VerifyGrant(g, t)
  /\ Suspend(c, [op |-> "pinGrant", grant |-> g, at |-> t,
                 klass |-> NoScope, scope |-> NoScope, nonce |-> 0])

BeginApplySteerGrant(c, g, t) ==
  /\ VerifyGrant(g, t)
  /\ Suspend(c, [op |-> "applySteerGrant", grant |-> g, at |-> t,
                 klass |-> NoScope, scope |-> NoScope, nonce |-> 0])

\* #reserveSync: check, count and take the nonce in one synchronous block.
Authorizable(call) ==
  Granted(call) /\ StillActive(call) /\ NonceFresh(call) /\ BelowCeiling(call)

FinishAuthorize(c) ==
  LET call == calls[c] IN
  /\ call # Idle
  /\ call.op = "authorize"
  /\ Authorizable(call)
  /\ Count(call)
  /\ nonceHigh' = [nonceHigh EXCEPT ![call.scope] = call.nonce]
  /\ Record(call)
  /\ Resume(c)
  /\ UNCHANGED <<meta, revoked, steerHigh, everActive>>

\* reserveModel: the same block without a nonce.
ModelReservable(call) ==
  Granted(call) /\ StillActive(call) /\ BelowCeiling(call)

FinishReserveModel(c) ==
  LET call == calls[c] IN
  /\ call # Idle
  /\ call.op = "reserveModel"
  /\ ModelReservable(call)
  /\ Count(call)
  /\ Record(call)
  /\ Resume(c)
  /\ UNCHANGED <<meta, revoked, nonceHigh, steerHigh, everActive>>

Activate(g) ==
  /\ active' = g
  /\ everActive' = everActive \cup {g}

\* Issued at most IssuedSkew ahead of the clock the call read.
NotFutureDated(call) == call.grant.issued <= call.at + IssuedSkew

Pinnable(call) == call.grant.window >= MinWindow /\ NotFutureDated(call)

\* pinGrant raises the high-water but does not look at it.
FinishPinGrant(c) ==
  LET call == calls[c] IN
  /\ call # Idle
  /\ call.op = "pinGrant"
  /\ Pinnable(call)
  /\ Activate(call.grant)
  /\ grantHigh' = Max2(grantHigh, call.grant.issued)
  /\ Resume(c)
  /\ UNCHANGED <<anchor, lastApplied, tables, ledger>>

\* Mutant: a steer note applies in whatever order it arrives.
AppliableInAnyOrder(call) ==
  NotFutureDated(call) /\ (IsStop(call.grant) \/ call.grant.window >= MinWindow)

\* A STOP is exempt from the window floor; nothing is exempt from the
\* high-water.
Appliable(call) ==
  /\ NotFutureDated(call)
  /\ IsStop(call.grant) \/ call.grant.window >= MinWindow
  /\ call.grant.issued > grantHigh

FinishApplySteerGrant(c) ==
  LET call == calls[c] IN
  /\ call # Idle
  /\ call.op = "applySteerGrant"
  /\ Appliable(call)
  /\ Activate(call.grant)
  /\ grantHigh' = call.grant.issued
  /\ lastApplied' = call.grant.issued
  /\ Resume(c)
  /\ UNCHANGED <<anchor, tables, ledger>>

\* Every other way out after the await answers a gate status.
Refused(call) ==
  \/ call.op = "authorize" /\ ~Authorizable(call)
  \/ call.op = "reserveModel" /\ ~ModelReservable(call)
  \/ call.op = "pinGrant" /\ ~Pinnable(call)
  \/ call.op = "applySteerGrant" /\ ~Appliable(call)

Refuse(c) ==
  /\ calls[c] # Idle
  /\ Refused(calls[c])
  /\ Resume(c)
  /\ UNCHANGED <<meta, tables, history>>

\* Mutant: revoking the grant in force clears the high-water with it.
RevokeAndForget(id) ==
  /\ revoked' = revoked \cup {id}
  /\ active' = IF active # NoGrant /\ active.id = id THEN NoGrant ELSE active
  /\ grantHigh' = IF active # NoGrant /\ active.id = id THEN 0 ELSE grantHigh
  /\ UNCHANGED <<anchor, lastApplied, counters, nonceHigh, steerHigh, calls, history>>

\* The high-water outlives the grant it came from.
Revoke(id) ==
  /\ revoked' = revoked \cup {id}
  /\ active' = IF active # NoGrant /\ active.id = id THEN NoGrant ELSE active
  /\ UNCHANGED <<anchor, grantHigh, lastApplied, counters, nonceHigh, steerHigh,
                 calls, history>>

SteerGate(n) ==
  /\ n > steerHigh
  /\ steerHigh' = n
  /\ UNCHANGED <<meta, revoked, counters, nonceHigh, calls, history>>

\* The object is evicted and built again: storage stays, suspended calls go.
Restart ==
  /\ calls' = [c \in Caller |-> Idle]
  /\ UNCHANGED <<meta, tables, history>>

-----------------------------------------------------------------------------
\* What the gateway calls: configure, authorize, reserveModel, applySteerGrant.
GatewayNext ==
  \/ \E o \in Owners, a \in Agents : Configure(o, a)
  \/ \E c \in Caller, t \in Time :
       \/ \E k \in Class, s \in Scope, n \in Nonce : BeginAuthorize(c, k, s, n, t)
       \/ BeginReserveModel(c, t)
       \/ \E g \in Grants : BeginApplySteerGrant(c, g, t)
  \/ \E c \in Caller :
       \/ FinishAuthorize(c)
       \/ FinishReserveModel(c)
       \/ FinishApplySteerGrant(c)
       \/ Refuse(c)
  \/ Restart

\* ... and what the dashboard's revocation list is meant for.
SteerNext ==
  \/ GatewayNext
  \/ \E g \in Grants : Revoke(g.id)

\* The whole RPC surface.
Next ==
  \/ SteerNext
  \/ \E c \in Caller, g \in Grants, t \in Time : BeginPinGrant(c, g, t)
  \/ \E c \in Caller : FinishPinGrant(c)
  \/ \E n \in SteerNonce : SteerGate(n)

Spec == Init /\ [][Next]_vars
SteerSpec == Init /\ [][SteerNext]_vars

-----------------------------------------------------------------------------
(* Properties.                                                             *)

\* What was spent in e's window up to and including e, under any grant.
UpTo(e) ==
  {f \in ledger : f.klass = e.klass /\ f.start = e.start /\ f.serial <= e.serial}

\* However calls interleave and however often the owner re-issues a grant
\* inside a window, the n-th action of a class in that window was reserved
\* under a grant whose ceiling is at least n (#reserveSync and reserveModel
\* share one counter table that no grant change resets).
CeilingHeld == \A e \in ledger : Cardinality(UpTo(e)) <= Ceiling(e.grant, e.klass)

\* Within a key|room scope, signatures are reserved in strictly increasing
\* nonce order, whatever order concurrent authorize calls resume in.
NonceOrder ==
  \A e, f \in ledger :
    e.scope # NoScope /\ e.scope = f.scope /\ e.serial < f.serial
      => e.nonce < f.nonce

\* A reservation is made only under the grant that is active, unrevoked
\* and signed by this owner for this agent at the instant it is made, although
\* the call verified that grant before an await during which it may have been
\* superseded, stopped or revoked.
SpendInForce ==
  [][\A e \in ledger' \ ledger :
       /\ e.grant = active
       /\ e.grant.id \notin revoked
       /\ e.grant.genuine
       /\ e.grant.owner = anchor.owner
       /\ e.grant.agent = anchor.agent]_vars

\* No grant older than one that has ever been active can be spent under again,
\* so an old permissive grant cannot undo a STOP, not even after a revocation
\* cleared the active grant (DESIGN section 5, applySteerGrant).
OldGrantsStayDead ==
  [][\A e \in ledger' \ ledger, g \in everActive : g.issued <= e.grant.issued]_vars

\* The durable high-waters (issued, steer, nonce) never fall, whatever is
\* pinned, revoked or restarted.
HighWatersOnlyRise ==
  [][/\ grantHigh' >= grantHigh
     /\ steerHigh' >= steerHigh
     /\ \A s \in Scope : nonceHigh'[s] >= nonceHigh[s]]_vars

\* Unless a test pins one, the grant in force is always the newest one
\* ever applied: its issue time is the high-water, and is what
\* last_applied_issued reports.
ActiveIsNewest ==
  /\ active # NoGrant => active.issued = grantHigh
  /\ lastApplied = grantHigh
  /\ \A g \in everActive : g.issued <= grantHigh

\* The Governor implements the abstract authority: suspended calls, counters
\* and nonce high-waters are invisible, and each reservation is one atomic
\* Spend under the grant in force.
Authority == INSTANCE SpendAuthority WITH inForce <- active, barred <- revoked
ImplementsAuthority == Authority!Spec
=============================================================================
