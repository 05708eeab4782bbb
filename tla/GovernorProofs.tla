--------------------------- MODULE GovernorProofs ---------------------------
(***************************************************************************)
(* Theorems about the Governor, for every set of grants, callers, classes, *)
(* scopes and nonces and every clock.                                      *)
(***************************************************************************)
EXTENDS Governor, FiniteSetTheorems, TLAPS

\* floor(t / w) * w never exceeds t.
LEMMA WindowStartBound ==
  ASSUME NEW t \in Nat, NEW w \in Nat \ {0}
  PROVE  WindowStart(t, w) \in 0 .. t
<1>1. t \div w \in Nat
  BY SMT
<1>2. t = (t \div w) * w + (t % w)
  BY SMT
<1>3. t % w \in 0 .. (w - 1)
  BY SMT
<1>4. (t \div w) * w \in Nat
  BY <1>1, SMT
<1>5. QED
  BY <1>2, <1>3, <1>4, SMT DEF WindowStart

\* The window a reservation is counted in starts at a legal time.
LEMMA StartInTime ==
  ASSUME NEW call \in Call, Granted(call)
  PROVE  Start(call) \in Time
<1>1. call.at \in 0 .. MaxTime /\ call.grant \in Grants
  BY DEF Call, Time
<1>2. call.grant.window \in Nat \ {0}
  BY <1>1, GrantsAssumption, BoundsAssumption DEF Granted
<1>3. WindowStart(call.at, call.grant.window) \in 0 .. call.at
  BY <1>1, <1>2, WindowStartBound, BoundsAssumption
<1>4. QED
  BY <1>1, <1>3, BoundsAssumption DEF Start, Time

\* Every nonce a call holds is a natural number.
LEMMA CallNonce ==
  ASSUME NEW call \in Call
  PROVE  call.nonce \in Nat /\ call.grant \in Grants
<1>1. call.nonce \in Nonce \cup {0} /\ call.grant \in Grants
  BY DEF Call
<1>2. \A n \in Nonce \cup {0} : n \in Nat
  BY BoundsAssumption
<1>3. QED
  BY <1>1, <1>2

\* Every ceiling is a natural number.
LEMMA CeilingType ==
  ASSUME NEW g \in Grants, NEW k
  PROVE  Ceiling(g, k) \in Nat
BY GrantsAssumption DEF Ceiling

-----------------------------------------------------------------------------
(* Type correctness.  The type of a reservation's class and scope depends  *)
(* on which RPC the suspended call belongs to.                             *)

CallsTyped ==
  \A c \in Caller : calls[c] # Idle =>
    /\ calls[c].op = "authorize" => calls[c].klass \in Class /\ calls[c].scope \in Scope
    /\ calls[c].op = "reserveModel" => calls[c].klass \in Class /\ calls[c].scope = NoScope

TypeInv == TypeOK /\ CallsTyped /\ IsFiniteSet(ledger)

LEMMA TypeInit == Init => TypeInv
BY FS_EmptySet DEF Init, TypeInv, TypeOK, CallsTyped, Time

LEMMA TypeStep == TypeInv /\ [Next]_vars => TypeInv'
<1> SUFFICES ASSUME TypeInv, [Next]_vars PROVE TypeInv'
  OBVIOUS
<1> USE DEF TypeInv, TypeOK, CallsTyped, vars, meta, tables, history
<1>1. ASSUME NEW o \in Owners, NEW a \in Agents, Configure(o, a)
      PROVE  TypeInv'
  BY <1>1 DEF Configure
<1>2. ASSUME NEW c \in Caller, NEW t \in Time, NEW k \in Class, NEW s \in Scope,
             NEW n \in Nonce, BeginAuthorize(c, k, s, n, t)
      PROVE  TypeInv'
  <2> DEFINE call == [op |-> "authorize", grant |-> active, at |-> t,
                      klass |-> k, scope |-> s, nonce |-> n]
  <2>1. active \in Grants
    BY <1>2 DEF BeginAuthorize, ActiveVerifies
  <2>2. call \in Call
    BY <2>1, BoundsAssumption DEF Call
  <2>3. QED
    BY <1>2, <2>2 DEF BeginAuthorize, Suspend
<1>3. ASSUME NEW c \in Caller, NEW t \in Time, BeginReserveModel(c, t)
      PROVE  TypeInv'
  <2> DEFINE call == [op |-> "reserveModel", grant |-> active, at |-> t,
                      klass |-> "MODEL", scope |-> NoScope, nonce |-> 0]
  <2>1. active \in Grants
    BY <1>3 DEF BeginReserveModel, ActiveVerifies
  <2>2. call \in Call
    BY <2>1, ValuesAssumption DEF Call
  <2>3. QED
    BY <1>3, <2>2, ValuesAssumption DEF BeginReserveModel, Suspend
<1>4. ASSUME NEW c \in Caller, NEW t \in Time, NEW g \in Grants,
             BeginApplySteerGrant(c, g, t) \/ BeginPinGrant(c, g, t)
      PROVE  TypeInv'
  <2> DEFINE call(op) == [op |-> op, grant |-> g, at |-> t, klass |-> NoScope,
                          scope |-> NoScope, nonce |-> 0]
  <2>1. call("applySteerGrant") \in Call /\ call("pinGrant") \in Call
    BY DEF Call
  <2>2. QED
    BY <1>4, <2>1 DEF BeginApplySteerGrant, BeginPinGrant, Suspend
<1>5. ASSUME NEW c \in Caller, calls[c] # Idle,
             calls[c].op \in {"authorize", "reserveModel"}, Granted(calls[c]),
             Record(calls[c]), Count(calls[c])
      PROVE  /\ ledger' \subseteq Entry
             /\ counters' \in [Class \X Time -> Nat]
             /\ IsFiniteSet(ledger')
  <2>1. calls[c] \in Call
    BY <1>5
  <2>2. Start(calls[c]) \in Time
    BY <1>5, <2>1, StartInTime
  <2>3. calls[c].grant \in Grants /\ calls[c].nonce \in Nat
    BY <2>1, CallNonce
  <2>4. calls[c].klass \in Class /\ calls[c].scope \in Scope \cup {NoScope}
    BY <1>5
  <2>5. ledger' \subseteq Entry
    <3>1. Cardinality(ledger) + 1 \in Nat \ {0}
      BY FS_CardinalityType
    <3>2. QED
      BY <1>5, <2>2, <2>3, <2>4, <3>1 DEF Record, Entry
  <2>6. <<calls[c].klass, Start(calls[c])>> \in Class \X Time
    BY <2>2, <2>4
  <2>7. counters' \in [Class \X Time -> Nat]
    <3> HIDE DEF Entry, Call, Start
    <3>1. QED
      BY <1>5, <2>6 DEF Count
  <2>8. IsFiniteSet(ledger')
    BY <1>5, FS_AddElement DEF Record
  <2>9. QED
    BY <2>5, <2>7, <2>8
<1>6. ASSUME NEW c \in Caller, FinishAuthorize(c)
      PROVE  TypeInv'
  <2>1. ledger' \subseteq Entry /\ counters' \in [Class \X Time -> Nat] /\ IsFiniteSet(ledger')
    BY <1>5, <1>6 DEF FinishAuthorize, Authorizable
  <2>2. nonceHigh' \in [Scope -> Nat]
    <3>1. calls[c].nonce \in Nat
      BY <1>6, CallNonce DEF FinishAuthorize
    <3>2. QED
      BY <1>6, <3>1 DEF FinishAuthorize
  <2>3. QED
    BY <1>6, <2>1, <2>2 DEF FinishAuthorize, Resume
<1>7. ASSUME NEW c \in Caller, FinishReserveModel(c)
      PROVE  TypeInv'
  <2>1. ledger' \subseteq Entry /\ counters' \in [Class \X Time -> Nat] /\ IsFiniteSet(ledger')
    BY <1>5, <1>7 DEF FinishReserveModel, ModelReservable
  <2>2. QED
    BY <1>7, <2>1 DEF FinishReserveModel, Resume
<1>8. ASSUME NEW c \in Caller, FinishApplySteerGrant(c) \/ FinishPinGrant(c)
      PROVE  TypeInv'
  <2>1. calls[c].grant \in Grants
    BY <1>8 DEF FinishApplySteerGrant, FinishPinGrant, Call
  <2>2. calls[c].grant.issued \in Nat
    BY <2>1, GrantsAssumption
  <2>3. grantHigh' \in Nat
    BY <1>8, <2>2 DEF FinishApplySteerGrant, FinishPinGrant, Max2
  <2>4. QED
    BY <1>8, <2>1, <2>2, <2>3 DEF FinishApplySteerGrant, FinishPinGrant, Activate, Resume
<1>9. ASSUME NEW c \in Caller, Refuse(c)
      PROVE  TypeInv'
  BY <1>9 DEF Refuse, Resume
<1>10. ASSUME NEW g \in Grants, Revoke(g.id)
       PROVE  TypeInv'
  BY <1>10 DEF Revoke
<1>11. ASSUME NEW n \in SteerNonce, SteerGate(n)
       PROVE  TypeInv'
  BY <1>11, BoundsAssumption DEF SteerGate
<1>12. CASE Restart
  BY <1>12 DEF Restart
<1>13. CASE UNCHANGED vars
  BY <1>13
<1>14. QED
  BY <1>1, <1>2, <1>3, <1>4, <1>6, <1>7, <1>8, <1>9, <1>10, <1>11, <1>12, <1>13
     DEF Next, SteerNext, GatewayNext

\* Every variable keeps its type on the whole RPC surface, whatever calls
\* interleave: in particular no reservation is counted outside a legal window.
THEOREM TypeCorrect == Spec => []TypeOK
<1>1. Init => TypeInv
  BY TypeInit
<1>2. TypeInv /\ [Next]_vars => TypeInv'
  BY TypeStep
<1>3. TypeInv => TypeOK
  BY DEF TypeInv
<1>4. QED
  BY <1>1, <1>2, <1>3, PTL DEF Spec
-----------------------------------------------------------------------------
(* The grants the object holds.  VerifyGrant was evaluated before the       *)
(* await, so what survives it is only what cannot change: the anchors are   *)
(* set once, and a grant is an immutable document.  Revocation and          *)
(* supersession can change, which is why the finishing step re-checks them. *)

Vouched(g) ==
  /\ anchor # NoAnchor
  /\ g.owner = anchor.owner
  /\ g.agent = anchor.agent
  /\ g.genuine

VouchInv ==
  /\ active # NoGrant => Vouched(active)
  /\ \A c \in Caller : calls[c] # Idle => Vouched(calls[c].grant)

LEMMA VouchInit == Init => VouchInv
BY DEF Init, VouchInv

\* Verified just now, a grant is vouched for.
LEMMA VerifiedIsVouched ==
  ASSUME NEW g \in Grants, NEW t \in Time, VerifyGrant(g, t)
  PROVE  Vouched(g)
BY DEF VerifyGrant, Vouched

LEMMA VouchStep == TypeInv /\ VouchInv /\ [Next]_vars => VouchInv'
<1> SUFFICES ASSUME TypeInv, VouchInv, [Next]_vars PROVE VouchInv'
  OBVIOUS
<1> USE DEF TypeInv, TypeOK, VouchInv, vars, meta, tables, history
<1>1. ASSUME NEW o \in Owners, NEW a \in Agents, Configure(o, a)
      PROVE  VouchInv'
  <2>1. \A g : Vouched(g) => Vouched(g)'
    BY <1>1, ValuesAssumption DEF Configure, Vouched
  <2>2. QED
    BY <1>1, <2>1 DEF Configure, Vouched
<1>2. ASSUME UNCHANGED anchor
      PROVE  \A g : Vouched(g) => Vouched(g)'
  BY <1>2 DEF Vouched
<1>3. ASSUME NEW c \in Caller, NEW g \in Grants, NEW t \in Time, NEW call \in Call,
             call.grant = g, VerifyGrant(g, t), Suspend(c, call)
      PROVE  VouchInv'
  <2>1. Vouched(g)
    BY <1>3, VerifiedIsVouched
  <2>2. Vouched(g)'
    BY <1>2, <1>3, <2>1 DEF Suspend
  <2>3. QED
    BY <1>2, <1>3, <2>2 DEF Suspend
<1>4. ASSUME NEW c \in Caller, NEW t \in Time, NEW k \in Class, NEW s \in Scope,
             NEW n \in Nonce, BeginAuthorize(c, k, s, n, t)
      PROVE  VouchInv'
  <2> DEFINE call == [op |-> "authorize", grant |-> active, at |-> t,
                      klass |-> k, scope |-> s, nonce |-> n]
  <2>1. active \in Grants /\ VerifyGrant(active, t)
    BY <1>4 DEF BeginAuthorize, ActiveVerifies
  <2>2. call \in Call /\ call.grant = active
    BY <2>1, BoundsAssumption DEF Call
  <2>3. QED
    BY <1>3, <1>4, <2>1, <2>2 DEF BeginAuthorize
<1>5. ASSUME NEW c \in Caller, NEW t \in Time, BeginReserveModel(c, t)
      PROVE  VouchInv'
  <2> DEFINE call == [op |-> "reserveModel", grant |-> active, at |-> t,
                      klass |-> "MODEL", scope |-> NoScope, nonce |-> 0]
  <2>1. active \in Grants /\ VerifyGrant(active, t)
    BY <1>5 DEF BeginReserveModel, ActiveVerifies
  <2>2. call \in Call /\ call.grant = active
    BY <2>1, ValuesAssumption DEF Call
  <2>3. QED
    BY <1>3, <1>5, <2>1, <2>2 DEF BeginReserveModel
<1>6. ASSUME NEW c \in Caller, NEW t \in Time, NEW g \in Grants,
             BeginApplySteerGrant(c, g, t) \/ BeginPinGrant(c, g, t)
      PROVE  VouchInv'
  <2> DEFINE call(op) == [op |-> op, grant |-> g, at |-> t, klass |-> NoScope,
                          scope |-> NoScope, nonce |-> 0]
  <2>1. /\ call("applySteerGrant") \in Call /\ call("applySteerGrant").grant = g
        /\ call("pinGrant") \in Call /\ call("pinGrant").grant = g
    BY DEF Call
  <2>2. VerifyGrant(g, t)
    BY <1>6 DEF BeginApplySteerGrant, BeginPinGrant
  <2>3. QED
    BY <1>3, <1>6, <2>1, <2>2 DEF BeginApplySteerGrant, BeginPinGrant
<1>7. ASSUME NEW c \in Caller,
             \/ FinishAuthorize(c) \/ FinishReserveModel(c) \/ Refuse(c)
             \/ FinishApplySteerGrant(c) \/ FinishPinGrant(c)
      PROVE  VouchInv'
  <2>1. /\ UNCHANGED anchor
        /\ active' \in {active, calls[c].grant}
        /\ calls[c] # Idle
        /\ calls' = [calls EXCEPT ![c] = Idle]
    BY <1>7 DEF FinishAuthorize, FinishReserveModel, Refuse, FinishApplySteerGrant,
                FinishPinGrant, Activate, Resume
  <2>2. QED
    BY <1>2, <2>1
<1>8. ASSUME NEW g \in Grants, Revoke(g.id)
      PROVE  VouchInv'
  BY <1>2, <1>8 DEF Revoke
<1>9. ASSUME NEW n \in SteerNonce, SteerGate(n)
      PROVE  VouchInv'
  BY <1>2, <1>9 DEF SteerGate
<1>10. CASE Restart
  BY <1>2, <1>10 DEF Restart
<1>11. CASE UNCHANGED vars
  BY <1>2, <1>11
<1>12. QED
  BY <1>1, <1>4, <1>5, <1>6, <1>7, <1>8, <1>9, <1>10, <1>11
     DEF Next, SteerNext, GatewayNext

\* The only steps that reserve anything, or touch a counter or a nonce.
LEMMA ReservingSteps ==
  TypeInv /\ [Next]_vars =>
    \/ \E c \in Caller : FinishAuthorize(c)
    \/ \E c \in Caller : FinishReserveModel(c)
    \/ UNCHANGED <<ledger, counters, nonceHigh>>
BY DEF Next, SteerNext, GatewayNext, vars, meta, tables, history, Configure,
       BeginAuthorize, BeginReserveModel, BeginApplySteerGrant, BeginPinGrant, Suspend,
       FinishApplySteerGrant, FinishPinGrant, Refuse, Revoke, SteerGate, Restart

\* A reservation is made under the active grant: the ids agree, and the owner
\* signs one document per id.
LEMMA ReservedUnderActive ==
  ASSUME TypeInv, VouchInv, NEW c \in Caller, calls[c] # Idle, StillActive(calls[c])
  PROVE  calls[c].grant = active /\ Vouched(active) /\ active.id \notin revoked
<1>1. calls[c].grant \in Grants /\ active \in Grants
  BY DEF TypeInv, TypeOK, Call, StillActive
<1>2. Vouched(calls[c].grant) /\ Vouched(active)
  BY DEF VouchInv, StillActive
<1>3. calls[c].grant = active
  BY <1>1, <1>2, GrantIdsUnique DEF Vouched, StillActive
<1>4. QED
  BY <1>2, <1>3 DEF StillActive

\* Whatever runs while a call waits for its signature check, a reservation is
\* made only under the grant then active, unrevoked, and signed by the
\* configured owner for the configured agent.
THEOREM SpendsInForce == Spec => SpendInForce
<1> DEFINE Safe == \A e \in ledger' \ ledger :
                     /\ e.grant = active
                     /\ e.grant.id \notin revoked
                     /\ e.grant.genuine
                     /\ e.grant.owner = anchor.owner
                     /\ e.grant.agent = anchor.agent
<1>1. Init => TypeInv /\ VouchInv
  BY TypeInit, VouchInit
<1>2. TypeInv /\ VouchInv /\ [Next]_vars => TypeInv' /\ VouchInv'
  BY TypeStep, VouchStep
<1>3. TypeInv /\ VouchInv /\ [Next]_vars => [Safe]_vars
  <2> SUFFICES ASSUME TypeInv, VouchInv, [Next]_vars PROVE Safe
    OBVIOUS
  <2>1. ASSUME NEW c \in Caller, FinishAuthorize(c) \/ FinishReserveModel(c)
        PROVE  Safe
    <3>1. /\ calls[c] # Idle
          /\ StillActive(calls[c])
          /\ \A e \in ledger' \ ledger : e.grant = calls[c].grant
      BY <2>1 DEF FinishAuthorize, FinishReserveModel, Authorizable, ModelReservable, Record
    <3>2. calls[c].grant = active /\ Vouched(active) /\ active.id \notin revoked
      BY <3>1, ReservedUnderActive
    <3>3. QED
      BY <3>1, <3>2 DEF Vouched
  <2>2. QED
    BY <2>1, ReservingSteps
<1>4. QED
  BY <1>1, <1>2, <1>3, PTL DEF Spec, SpendInForce
-----------------------------------------------------------------------------
(* The budget.  CeilingHeld alone is not inductive: it needs the counter    *)
(* table to agree with what the ledger says was spent in each window.       *)

SpentOn(k, w) == {e \in ledger : e.klass = k /\ e.start = w}

LedgerInv ==
  /\ \A e \in ledger : e.serial <= Cardinality(ledger)
  /\ \A k \in Class, w \in Time : counters[<<k, w>>] = Cardinality(SpentOn(k, w))
  /\ CeilingHeld

LEMMA LedgerInit == Init => LedgerInv
<1> SUFFICES ASSUME Init PROVE LedgerInv
  OBVIOUS
<1>1. ledger = {}
  BY DEF Init
<1>2. \A k, w : SpentOn(k, w) = {}
  BY <1>1 DEF SpentOn
<1>3. QED
  BY <1>1, <1>2, FS_EmptySet DEF Init, LedgerInv, CeilingHeld

\* One more entry, recorded in the same step as the counter is read, compared
\* with the ceiling and raised, keeps the ledger within the ceilings.
LEMMA ReservePreservesLedger ==
  ASSUME TypeInv, LedgerInv, NEW call \in Call, call.klass \in Class,
         Granted(call), BelowCeiling(call), Count(call), Record(call)
  PROVE  LedgerInv'
<1> DEFINE entry == [serial |-> Cardinality(ledger) + 1, grant |-> call.grant,
                     klass |-> call.klass, start |-> Start(call),
                     scope |-> call.scope, nonce |-> call.nonce]
           size == Cardinality(ledger)
<1>1. ledger' = ledger \cup {entry} /\ IsFiniteSet(ledger) /\ size \in Nat
  BY FS_CardinalityType DEF Record, TypeInv
<1>2. /\ entry.serial = size + 1 /\ entry.klass = call.klass
      /\ entry.start = Start(call) /\ entry.grant = call.grant
  OBVIOUS
<1>3. \A e \in ledger : e.serial \in Nat /\ e.serial <= size
  BY DEF LedgerInv, TypeInv, TypeOK, Entry
<1>4. entry \notin ledger
  BY <1>1, <1>2, <1>3
<1>5. Cardinality(ledger') = size + 1
  BY <1>1, <1>4, FS_AddElement
<1>6. Start(call) \in Time
  BY StartInTime
<1> HIDE DEF entry, size
<1>7. \A e \in ledger' : e.serial <= Cardinality(ledger')
  BY <1>1, <1>2, <1>3, <1>5
<1>8. ASSUME NEW k \in Class, NEW w \in Time
      PROVE  counters'[<<k, w>>] = Cardinality(SpentOn(k, w)')
  <2>1. IsFiniteSet(SpentOn(k, w)) /\ Cardinality(SpentOn(k, w)) \in Nat
    BY <1>1, FS_Subset, FS_CardinalityType DEF SpentOn
  <2>2. counters[<<k, w>>] = Cardinality(SpentOn(k, w))
    BY DEF LedgerInv
  <2>3. CASE k = call.klass /\ w = Start(call)
    <3>1. SpentOn(k, w)' = SpentOn(k, w) \cup {entry}
      BY <1>1, <1>2, <2>3 DEF SpentOn
    <3>2. entry \notin SpentOn(k, w)
      BY <1>4 DEF SpentOn
    <3>3. Cardinality(SpentOn(k, w)') = Cardinality(SpentOn(k, w)) + 1
      BY <2>1, <3>1, <3>2, FS_AddElement
    <3>4. counters'[<<k, w>>] = counters[<<k, w>>] + 1
      BY <2>3 DEF Count, TypeInv, TypeOK
    <3>5. QED
      BY <2>2, <3>3, <3>4
  <2>4. CASE ~(k = call.klass /\ w = Start(call))
    <3>1. SpentOn(k, w)' = SpentOn(k, w)
      BY <1>1, <1>2, <2>4 DEF SpentOn
    <3>2. counters'[<<k, w>>] = counters[<<k, w>>]
      BY <2>4 DEF Count, TypeInv, TypeOK
    <3>3. QED
      BY <2>2, <3>1, <3>2
  <2>5. QED
    BY <2>3, <2>4
<1>9. ASSUME NEW e \in ledger'
      PROVE  Cardinality(UpTo(e)') <= Ceiling(e.grant, e.klass)
  <2>1. CASE e \in ledger
    <3>1. UpTo(e)' = UpTo(e)
      BY <1>1, <1>2, <1>3, <2>1 DEF UpTo
    <3>2. QED
      BY <2>1, <3>1 DEF LedgerInv, CeilingHeld
  <2>2. CASE e = entry
    <3>1. UpTo(e)' = SpentOn(call.klass, Start(call)) \cup {entry}
      BY <1>1, <1>2, <1>3, <2>2 DEF UpTo, SpentOn
    <3>2. IsFiniteSet(SpentOn(call.klass, Start(call)))
      BY <1>1, FS_Subset DEF SpentOn
    <3>3. entry \notin SpentOn(call.klass, Start(call))
      BY <1>4 DEF SpentOn
    <3>4. Cardinality(UpTo(e)') = counters[<<call.klass, Start(call)>>] + 1
      BY <1>6, <3>1, <3>2, <3>3, FS_AddElement DEF LedgerInv
    <3>5. counters[<<call.klass, Start(call)>>] \in Nat
      BY <1>6 DEF TypeInv, TypeOK
    <3>6. Ceiling(call.grant, call.klass) \in Nat
      BY CeilingType DEF Call
    <3>7. QED
      BY <1>2, <2>2, <3>4, <3>5, <3>6 DEF BelowCeiling
  <2>3. QED
    BY <1>1, <2>1, <2>2
<1>10. QED
  BY <1>7, <1>8, <1>9 DEF LedgerInv, CeilingHeld

LEMMA LedgerStep == TypeInv /\ LedgerInv /\ [Next]_vars => LedgerInv'
<1> SUFFICES ASSUME TypeInv, LedgerInv, [Next]_vars PROVE LedgerInv'
  OBVIOUS
<1>1. ASSUME NEW c \in Caller, FinishAuthorize(c) \/ FinishReserveModel(c)
      PROVE  LedgerInv'
  <2>1. calls[c] \in Call /\ calls[c].klass \in Class
    BY <1>1 DEF TypeInv, TypeOK, CallsTyped, FinishAuthorize, FinishReserveModel
  <2>2. /\ Granted(calls[c]) /\ BelowCeiling(calls[c])
        /\ Count(calls[c]) /\ Record(calls[c])
    BY <1>1 DEF FinishAuthorize, FinishReserveModel, Authorizable, ModelReservable
  <2>3. QED
    BY <2>1, <2>2, ReservePreservesLedger
<1>2. CASE UNCHANGED <<ledger, counters, nonceHigh>>
  BY <1>2 DEF LedgerInv, CeilingHeld, SpentOn, UpTo
<1>3. QED
  BY <1>1, <1>2, ReservingSteps

\* The n-th action of a class in a window was reserved under a grant whose
\* ceiling is at least n, for any number of concurrent calls and re-issues.
THEOREM CeilingsHeld == Spec => []CeilingHeld
<1>1. Init => TypeInv /\ LedgerInv
  BY TypeInit, LedgerInit
<1>2. TypeInv /\ LedgerInv /\ [Next]_vars => TypeInv' /\ LedgerInv'
  BY TypeStep, LedgerStep
<1>3. LedgerInv => CeilingHeld
  BY DEF LedgerInv
<1>4. QED
  BY <1>1, <1>2, <1>3, PTL DEF Spec

-----------------------------------------------------------------------------
(* The nonces.  The high-water of a scope bounds every nonce spent in it.   *)

NonceInv ==
  /\ \A e \in ledger :
       /\ e.serial <= Cardinality(ledger)
       /\ e.scope # NoScope => e.nonce <= nonceHigh[e.scope]
  /\ NonceOrder

LEMMA NonceStep == TypeInv /\ NonceInv /\ [Next]_vars => NonceInv'
<1> SUFFICES ASSUME TypeInv, NonceInv, [Next]_vars PROVE NonceInv'
  OBVIOUS
<1> DEFINE size == Cardinality(ledger)
<1>1. IsFiniteSet(ledger) /\ size \in Nat
  BY FS_CardinalityType DEF TypeInv
<1>2. \A e \in ledger : /\ e.serial \in Nat /\ e.serial <= size
                       /\ e.nonce \in Nat /\ e.scope \in Scope \cup {NoScope}
  BY DEF NonceInv, TypeInv, TypeOK, Entry
<1>3. ASSUME NEW call \in Call, Record(call)
      PROVE  \E new : /\ ledger' = ledger \cup {new}
                      /\ new.serial = size + 1 /\ new.scope = call.scope
                      /\ new.nonce = call.nonce
                      /\ Cardinality(ledger') = size + 1
  <2> DEFINE new == [serial |-> size + 1, grant |-> call.grant, klass |-> call.klass,
                     start |-> Start(call), scope |-> call.scope, nonce |-> call.nonce]
  <2>1. ledger' = ledger \cup {new}
    BY <1>3 DEF Record
  <2>2. new \notin ledger
    <3>1. new.serial = size + 1
      OBVIOUS
    <3>2. QED
      BY <1>1, <1>2, <3>1
  <2>3. Cardinality(ledger') = size + 1
    BY <1>1, <2>1, <2>2, FS_AddElement
  <2>4. QED
    BY <2>1, <2>3
<1> HIDE DEF size
<1>4. ASSUME NEW c \in Caller, FinishAuthorize(c)
      PROVE  NonceInv'
  <2> DEFINE call == calls[c]
  <2>1. call \in Call /\ call.scope \in Scope /\ call.nonce \in Nat
    <3>1. call \in Call /\ call.scope \in Scope
      BY <1>4 DEF TypeInv, TypeOK, CallsTyped, FinishAuthorize
    <3>2. QED
      BY <3>1, CallNonce
  <2>2. /\ nonceHigh \in [Scope -> Nat] /\ call.nonce > nonceHigh[call.scope]
        /\ nonceHigh' = [nonceHigh EXCEPT ![call.scope] = call.nonce]
        /\ Record(call)
    BY <1>4 DEF FinishAuthorize, Authorizable, NonceFresh, TypeInv, TypeOK
  <2>3. PICK new : /\ ledger' = ledger \cup {new}
                   /\ new.serial = size + 1 /\ new.scope = call.scope
                   /\ new.nonce = call.nonce
                   /\ Cardinality(ledger') = size + 1
    BY <1>3, <2>1, <2>2
  <2> HIDE DEF call
  <2>4. \A e \in ledger : e.scope # NoScope => e.nonce <= nonceHigh[e.scope]
    BY DEF NonceInv
  <2>5. (\A e \in ledger :
           /\ e.serial <= Cardinality(ledger)
           /\ e.scope # NoScope => e.nonce <= nonceHigh[e.scope])'
    BY <1>1, <1>2, <2>1, <2>2, <2>3, <2>4
  <2>6. NonceOrder'
    <3> SUFFICES ASSUME NEW e \in ledger', NEW f \in ledger', e.scope # NoScope,
                        e.scope = f.scope, e.serial < f.serial
                 PROVE  e.nonce < f.nonce
      BY DEF NonceOrder
    <3>1. CASE e \in ledger /\ f \in ledger
      BY <3>1 DEF NonceInv, NonceOrder
    <3>2. CASE e \in ledger /\ f = new
      BY <1>2, <2>1, <2>2, <2>3, <2>4, <3>2
    <3>3. CASE e = new
      BY <1>1, <1>2, <2>3, <3>3
    <3>4. QED
      BY <2>3, <3>1, <3>2, <3>3
  <2>7. QED
    BY <2>5, <2>6 DEF NonceInv
<1>5. ASSUME NEW c \in Caller, FinishReserveModel(c)
      PROVE  NonceInv'
  <2> DEFINE call == calls[c]
  <2>1. call \in Call /\ call.scope = NoScope /\ Record(call) /\ UNCHANGED nonceHigh
    BY <1>5 DEF TypeInv, TypeOK, CallsTyped, FinishReserveModel
  <2>2. PICK new : /\ ledger' = ledger \cup {new}
                   /\ new.serial = size + 1 /\ new.scope = call.scope
                   /\ new.nonce = call.nonce
                   /\ Cardinality(ledger') = size + 1
    BY <1>3, <2>1
  <2> HIDE DEF call
  <2>3. QED
    BY <1>1, <1>2, <2>1, <2>2 DEF NonceInv, NonceOrder
<1>6. CASE UNCHANGED <<ledger, counters, nonceHigh>>
  BY <1>6 DEF NonceInv, NonceOrder
<1>7. QED
  BY <1>4, <1>5, <1>6, ReservingSteps

\* In every key|room scope, nonces are reserved in strictly increasing order.
THEOREM NoncesInOrder == Spec => []NonceOrder
<1>1. Init => TypeInv /\ NonceInv
  BY TypeInit DEF Init, NonceInv, NonceOrder
<1>2. TypeInv /\ NonceInv /\ [Next]_vars => TypeInv' /\ NonceInv'
  BY TypeStep, NonceStep
<1>3. NonceInv => NonceOrder
  BY DEF NonceInv
<1>4. QED
  BY <1>1, <1>2, <1>3, PTL DEF Spec
-----------------------------------------------------------------------------
(* The high-waters.                                                        *)

LEMMA HighWaterStep ==
  TypeInv /\ [Next]_vars =>
    /\ grantHigh' >= grantHigh
    /\ steerHigh' >= steerHigh
    /\ \A s \in Scope : nonceHigh'[s] >= nonceHigh[s]
<1> SUFFICES ASSUME TypeInv, [Next]_vars
             PROVE  /\ grantHigh' >= grantHigh
                    /\ steerHigh' >= steerHigh
                    /\ \A s \in Scope : nonceHigh'[s] >= nonceHigh[s]
  OBVIOUS
<1>1. /\ grantHigh \in Nat /\ steerHigh \in Nat /\ nonceHigh \in [Scope -> Nat]
      /\ calls \in [Caller -> Call \cup {Idle}]
  BY DEF TypeInv, TypeOK
<1>2. ASSUME NEW c \in Caller, FinishAuthorize(c)
      PROVE  \A s \in Scope : nonceHigh'[s] >= nonceHigh[s]
  <2>1. calls[c] \in Call /\ calls[c].scope \in Scope
    BY <1>1, <1>2 DEF FinishAuthorize, TypeInv, CallsTyped
  <2>2. calls[c].nonce \in Nat
    BY <2>1, CallNonce
  <2>3. /\ calls[c].nonce > nonceHigh[calls[c].scope]
        /\ nonceHigh' = [nonceHigh EXCEPT ![calls[c].scope] = calls[c].nonce]
    BY <1>2 DEF FinishAuthorize, Authorizable, NonceFresh
  <2>4. QED
    BY <1>1, <2>1, <2>2, <2>3
<1>3. ASSUME NEW c \in Caller, FinishApplySteerGrant(c) \/ FinishPinGrant(c)
      PROVE  grantHigh' >= grantHigh
  <2>1. calls[c] \in Call
    BY <1>1, <1>3 DEF FinishApplySteerGrant, FinishPinGrant
  <2>2. calls[c].grant.issued \in Nat
    BY <2>1, CallNonce, GrantsAssumption
  <2>3. \/ grantHigh' = calls[c].grant.issued /\ calls[c].grant.issued > grantHigh
        \/ grantHigh' = Max2(grantHigh, calls[c].grant.issued)
    BY <1>3 DEF FinishApplySteerGrant, Appliable, FinishPinGrant
  <2>4. QED
    BY <1>1, <2>2, <2>3 DEF Max2
<1>4. ASSUME NEW n \in SteerNonce, SteerGate(n)
      PROVE  steerHigh' >= steerHigh
  BY <1>1, <1>4, BoundsAssumption DEF SteerGate
<1>5. UNCHANGED grantHigh \/ \E c \in Caller : FinishApplySteerGrant(c) \/ FinishPinGrant(c)
  BY DEF Next, SteerNext, GatewayNext, vars, meta, tables, history, Configure,
         BeginAuthorize, BeginReserveModel, BeginApplySteerGrant, BeginPinGrant, Suspend,
         FinishAuthorize, FinishReserveModel, Refuse, Revoke, SteerGate, Restart
<1>6. UNCHANGED steerHigh \/ \E n \in SteerNonce : SteerGate(n)
  BY DEF Next, SteerNext, GatewayNext, vars, meta, tables, history, Configure,
         BeginAuthorize, BeginReserveModel, BeginApplySteerGrant, BeginPinGrant, Suspend,
         FinishAuthorize, FinishReserveModel, FinishApplySteerGrant, FinishPinGrant,
         Refuse, Revoke, Restart
<1>7. UNCHANGED nonceHigh \/ \E c \in Caller : FinishAuthorize(c)
  BY ReservingSteps DEF FinishReserveModel
<1>8. QED
  BY <1>1, <1>2, <1>3, <1>4, <1>5, <1>6, <1>7

\* No RPC, in any order and across restarts, lowers the issued, steer or nonce
\* high-water.
THEOREM HighWatersRise == Spec => HighWatersOnlyRise
<1>1. TypeInv /\ [Next]_vars =>
        [/\ grantHigh' >= grantHigh
         /\ steerHigh' >= steerHigh
         /\ \A s \in Scope : nonceHigh'[s] >= nonceHigh[s]]_vars
  BY HighWaterStep
<1>2. QED
  BY <1>1, TypeInit, TypeStep, PTL DEF Spec, HighWatersOnlyRise

-----------------------------------------------------------------------------
(* On the RPCs production and the revocation list use, only                *)
(* applySteerGrant activates a grant, and only above the high-water.       *)

LEMMA SteerIsNext == [SteerNext]_vars => [Next]_vars
BY DEF Next

LEMMA NewestStep ==
  TypeInv /\ ActiveIsNewest /\ [SteerNext]_vars => ActiveIsNewest'
<1> SUFFICES ASSUME TypeInv, ActiveIsNewest, [SteerNext]_vars PROVE ActiveIsNewest'
  OBVIOUS
<1>1. /\ grantHigh \in Nat /\ everActive \subseteq Grants
      /\ calls \in [Caller -> Call \cup {Idle}]
  BY DEF TypeInv, TypeOK
<1>2. ASSUME NEW c \in Caller, FinishApplySteerGrant(c)
      PROVE  ActiveIsNewest'
  <2>1. calls[c] \in Call
    BY <1>1, <1>2 DEF FinishApplySteerGrant
  <2>2. calls[c].grant.issued \in Nat /\ \A g \in everActive : g.issued \in Nat
    BY <1>1, <2>1, CallNonce, GrantsAssumption
  <2>3. /\ active' = calls[c].grant
        /\ everActive' = everActive \cup {calls[c].grant}
        /\ calls[c].grant.issued > grantHigh
        /\ grantHigh' = calls[c].grant.issued
        /\ lastApplied' = calls[c].grant.issued
    BY <1>2 DEF FinishApplySteerGrant, Activate, Appliable
  <2>4. \A g \in everActive : g.issued <= calls[c].grant.issued
    BY <1>1, <2>2, <2>3 DEF ActiveIsNewest
  <2>5. QED
    BY <2>2, <2>3, <2>4 DEF ActiveIsNewest
<1>3. ASSUME NEW g \in Grants, Revoke(g.id)
      PROVE  ActiveIsNewest'
  BY <1>3 DEF Revoke, ActiveIsNewest, history
<1>4. CASE UNCHANGED <<active, grantHigh, lastApplied, everActive>>
  BY <1>4 DEF ActiveIsNewest
<1>5. \/ \E c \in Caller : FinishApplySteerGrant(c)
      \/ \E g \in Grants : Revoke(g.id)
      \/ UNCHANGED <<active, grantHigh, lastApplied, everActive>>
  BY DEF SteerNext, GatewayNext, vars, meta, tables, history, Configure,
         BeginAuthorize, BeginReserveModel, BeginApplySteerGrant, Suspend,
         FinishAuthorize, FinishReserveModel, Refuse, Restart
<1>6. QED
  BY <1>2, <1>3, <1>4, <1>5

\* With all but pinGrant, the grant in force is the newest ever applied.
THEOREM NewestIsActive == SteerSpec => []ActiveIsNewest
<1>1. Init => TypeInv /\ ActiveIsNewest
  BY TypeInit DEF Init, ActiveIsNewest
<1>2. TypeInv /\ ActiveIsNewest /\ [SteerNext]_vars => TypeInv' /\ ActiveIsNewest'
  BY SteerIsNext, TypeStep, NewestStep
<1>3. QED
  BY <1>1, <1>2, PTL DEF SteerSpec

\* A grant older than any that was ever active is never spent under again, not
\* even after a revocation emptied the slot.
THEOREM SupersededStaysDead == SteerSpec => OldGrantsStayDead
<1> DEFINE Newest == \A e \in ledger' \ ledger, g \in everActive : g.issued <= e.grant.issued
           Inv == TypeInv /\ VouchInv /\ ActiveIsNewest
<1>1. Init => Inv
  BY TypeInit, VouchInit DEF Init, ActiveIsNewest
<1>2. Inv /\ [SteerNext]_vars => Inv'
  BY SteerIsNext, TypeStep, VouchStep, NewestStep
<1>3. Inv /\ [SteerNext]_vars => [Newest]_vars
  <2> SUFFICES ASSUME Inv, [SteerNext]_vars PROVE Newest
    OBVIOUS
  <2>1. ASSUME NEW c \in Caller, FinishAuthorize(c) \/ FinishReserveModel(c)
        PROVE  Newest
    <3>1. /\ calls[c] # Idle
          /\ StillActive(calls[c])
          /\ \A e \in ledger' \ ledger : e.grant = calls[c].grant
      BY <2>1 DEF FinishAuthorize, FinishReserveModel, Authorizable, ModelReservable, Record
    <3>2. calls[c].grant = active /\ active # NoGrant
      BY <3>1, ReservedUnderActive DEF StillActive
    <3>3. QED
      BY <3>1, <3>2 DEF ActiveIsNewest
  <2>2. QED
    BY <2>1, SteerIsNext, ReservingSteps
<1>4. QED
  BY <1>1, <1>2, <1>3, PTL DEF SteerSpec, OldGrantsStayDead
-----------------------------------------------------------------------------
(* The refinement.  A suspended call is invisible to the abstract           *)
(* authority: all of it happens at once when its finishing step reserves.   *)

\* The instance counts as this module does.
LEMMA SameCardinality == \A S : Authority!Cardinality(S) = Cardinality(S)
  BY Zenon DEF Authority!Cardinality, Cardinality

\* A reservation is one Spend of the authority, under the grant in force.
LEMMA ReserveIsSpend ==
  ASSUME TypeInv, VouchInv, LedgerInv, NonceInv, NEW c \in Caller, calls[c] # Idle,
         calls[c].klass \in Class, Granted(calls[c]), StillActive(calls[c]),
         BelowCeiling(calls[c]), Record(calls[c]), UNCHANGED <<active, revoked>>,
         \/ calls[c].scope = NoScope
         \/ calls[c].scope \in Scope /\ NonceFresh(calls[c])
  PROVE  Authority!Next
<1> DEFINE call == calls[c]
<1>1. call \in Call
  BY DEF TypeInv, TypeOK
<1>2. /\ Start(call) \in Time /\ call.klass \in Class
      /\ call.scope \in Scope \cup {NoScope} /\ call.nonce \in Nonce \cup {0}
  BY <1>1, StartInTime DEF Call
<1>3. call.grant = active /\ active # NoGrant /\ active.id \notin revoked
  BY ReservedUnderActive DEF StillActive
<1>4. Cardinality(Authority!Spent(call.klass, Start(call)))
        < Authority!Ceiling(active, call.klass)
  <2>1. Authority!Spent(call.klass, Start(call)) = SpentOn(call.klass, Start(call))
    BY DEF Authority!Spent, SpentOn
  <2>2. Authority!Ceiling(active, call.klass) = Ceiling(call.grant, call.klass)
    BY <1>3 DEF Authority!Ceiling, Ceiling
  <2>3. counters[<<call.klass, Start(call)>>] = Cardinality(SpentOn(call.klass, Start(call)))
    BY <1>2 DEF LedgerInv
  <2>4. QED
    BY <2>1, <2>2, <2>3, SameCardinality DEF BelowCeiling
<1>5. call.scope # NoScope => \A e \in ledger : e.scope = call.scope => e.nonce < call.nonce
  <2> SUFFICES ASSUME call.scope # NoScope, NEW e \in ledger, e.scope = call.scope
               PROVE  e.nonce < call.nonce
    OBVIOUS
  <2>1. e.nonce <= nonceHigh[call.scope] /\ call.nonce > nonceHigh[call.scope]
    BY DEF NonceInv, NonceFresh
  <2>2. e.nonce \in Nat
    BY DEF TypeInv, TypeOK, Entry
  <2>3. call.nonce \in Nat
    BY <1>1, CallNonce
  <2>4. nonceHigh[call.scope] \in Nat
    BY <1>2 DEF TypeInv, TypeOK
  <2>5. QED
    BY <2>1, <2>2, <2>3, <2>4
<1>6. ledger' = ledger \cup
        {[serial |-> Cardinality(ledger) + 1, grant |-> active, klass |-> call.klass,
          start |-> Start(call), scope |-> call.scope, nonce |-> call.nonce]}
  BY <1>3 DEF Record
<1> HIDE DEF call
<1>7. Authority!Spend(call.klass, Start(call), call.scope, call.nonce)
  BY <1>3, <1>4, <1>5, <1>6, SameCardinality DEF Authority!Spend
<1>8. QED
  BY <1>2, <1>7 DEF Authority!Next

LEMMA AuthorityStep ==
  TypeInv /\ VouchInv /\ LedgerInv /\ NonceInv /\ [Next]_vars
    => [Authority!Next]_(Authority!vars)
<1> SUFFICES ASSUME TypeInv, VouchInv, LedgerInv, NonceInv, [Next]_vars
             PROVE  [Authority!Next]_(Authority!vars)
  OBVIOUS
<1>1. ASSUME NEW c \in Caller, FinishAuthorize(c)
      PROVE  Authority!Next
  <2>1. calls[c].klass \in Class /\ calls[c].scope \in Scope /\ calls[c] # Idle
    BY <1>1 DEF FinishAuthorize, TypeInv, CallsTyped
  <2>2. QED
    BY <1>1, <2>1, ReserveIsSpend DEF FinishAuthorize, Authorizable, meta
<1>2. ASSUME NEW c \in Caller, FinishReserveModel(c)
      PROVE  Authority!Next
  <2>1. calls[c].klass \in Class /\ calls[c].scope = NoScope /\ calls[c] # Idle
    BY <1>2 DEF FinishReserveModel, TypeInv, CallsTyped
  <2>2. QED
    BY <1>2, <2>1, ReserveIsSpend DEF FinishReserveModel, ModelReservable, meta
<1>3. ASSUME NEW c \in Caller, FinishApplySteerGrant(c) \/ FinishPinGrant(c)
      PROVE  Authority!Next
  <2>1. calls[c].grant \in Grants
    BY <1>3 DEF FinishApplySteerGrant, FinishPinGrant, TypeInv, TypeOK, Call
  <2>2. Authority!Install(calls[c].grant)
    BY <1>3 DEF FinishApplySteerGrant, FinishPinGrant, Activate, tables, Authority!Install
  <2>3. QED
    BY <2>1, <2>2 DEF Authority!Next
<1>4. ASSUME NEW g \in Grants, Revoke(g.id)
      PROVE  Authority!Next
  BY <1>4 DEF Revoke, history, Authority!Bar, Authority!Next
<1>5. CASE UNCHANGED <<active, revoked, ledger>>
  BY <1>5 DEF Authority!vars
<1>6. \/ \E c \in Caller : FinishAuthorize(c) \/ FinishReserveModel(c)
      \/ \E c \in Caller : FinishApplySteerGrant(c) \/ FinishPinGrant(c)
      \/ \E g \in Grants : Revoke(g.id)
      \/ UNCHANGED <<active, revoked, ledger>>
  BY DEF Next, SteerNext, GatewayNext, vars, meta, tables, history, Configure,
         BeginAuthorize, BeginReserveModel, BeginApplySteerGrant, BeginPinGrant, Suspend,
         Refuse, SteerGate, Restart
<1>7. QED
  BY <1>1, <1>2, <1>3, <1>4, <1>5, <1>6

\* Calls suspended in verifyGrant, the counter table and the nonce high-waters
\* together behave as one authority that spends atomically.
THEOREM GovernorImplementsAuthority == Spec => ImplementsAuthority
<1> DEFINE Inv == TypeInv /\ VouchInv /\ LedgerInv /\ NonceInv
<1>1. Init => Inv
  BY TypeInit, VouchInit, LedgerInit DEF Init, NonceInv, NonceOrder
<1>2. Inv /\ [Next]_vars => Inv'
  BY TypeStep, VouchStep, LedgerStep, NonceStep
<1>3. Init => Authority!Init
  BY DEF Init, Authority!Init
<1>4. Inv /\ [Next]_vars => [Authority!Next]_(Authority!vars)
  BY AuthorityStep
<1>5. QED
  BY <1>1, <1>2, <1>3, <1>4, PTL DEF Spec, ImplementsAuthority, Authority!Spec
=============================================================================
