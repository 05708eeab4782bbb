---------------------------- MODULE GatewayProofs ----------------------------
(***************************************************************************)
(* Theorems about the gateway, for every set of callers, classes, scopes,   *)
(* nonces, texts and grants, and every bound.                               *)
(***************************************************************************)
EXTENDS Gateway, FiniteSetTheorems, TLAPS

-----------------------------------------------------------------------------
(* Type correctness.                                                       *)

\* The line of a call of noteActivity, and the scope, nonce and text of a call of
\* sign, are never the null values.
LinesTyped ==
  \A c \in Caller : calls[c] # Idle /\ calls[c].op = "note" => calls[c].line \in Line

SignsTyped ==
  \A c \in Caller : calls[c] # Idle /\ calls[c].op = "sign" =>
    /\ calls[c].scope \in Scope
    /\ calls[c].nonce \in Nonce
    /\ calls[c].text \in Text

TypeInv == TypeOK /\ SignsTyped /\ LinesTyped /\ IsFiniteSet(ledger)

\* A ring with one more line, cut to what fits, is a ring.
LEMMA FitType ==
  ASSUME NEW prior \in Ring, NEW line \in Line, NEW fits \in 1 .. MaxRing
  PROVE  /\ Fit(prior, line, fits) \in Ring
         /\ Len(Fit(prior, line, fits)) >= 1
<1> DEFINE ring == Append(prior, line)
<1>1. ring \in Seq(Line) /\ Len(ring) \in Nat \ {0}
  BY DEF Ring
<1>2. CASE Len(ring) <= fits
  BY <1>1, <1>2, GatewayAssumption DEF Fit, Ring
<1>3. CASE ~(Len(ring) <= fits)
  <2>1. SubSeq(ring, Len(ring) - fits + 1, Len(ring)) \in Seq(Line)
    BY <1>1, <1>3, SMT
  <2>2. Len(SubSeq(ring, Len(ring) - fits + 1, Len(ring))) = fits
    BY <1>1, <1>3, SMT
  <2>3. QED
    BY <1>1, <1>3, <2>1, <2>2, GatewayAssumption DEF Fit, Ring
<1>4. QED
  BY <1>2, <1>3

LEMMA TypeInit == GatewayInit => TypeInv
<1> SUFFICES ASSUME GatewayInit PROVE TypeInv
  OBVIOUS
<1>1. IsFiniteSet(ledger)
  BY FS_EmptySet DEF GatewayInit, Init
<1>2. since \in [Caller -> Since]
  BY DEF GatewayInit, Nothing, Since
<1>3. QED
  BY <1>1, <1>2, GatewayAssumption DEF GatewayInit, TypeInv, TypeOK, SignsTyped, LinesTyped, Ring

\* A call that enters is typed, and so is what it met.
LEMMA EnterType ==
  ASSUME TypeInv, NEW c \in Caller, NEW call \in Call, Enter(c, call),
         call.op = "sign" => /\ call.scope \in Scope
                             /\ call.nonce \in Nonce
                             /\ call.text \in Text,
         call.op = "note" => call.line \in Line
  PROVE  /\ calls' \in [Caller -> Call \cup {Idle}]
         /\ since' \in [Caller -> Since]
         /\ SignsTyped' /\ LinesTyped'
<1>1. [met |-> {Status(inForce)}, posted |-> Others(board)] \in Since
  BY DEF Since, Status, Others, TypeInv, TypeOK
<1>2. QED
  BY <1>1 DEF Enter, TypeInv, TypeOK, SignsTyped, LinesTyped

LEMMA ReturnType ==
  ASSUME TypeInv, NEW c \in Caller, Return(c)
  PROVE  /\ calls' \in [Caller -> Call \cup {Idle}]
         /\ since' \in [Caller -> Since]
         /\ SignsTyped' /\ LinesTyped'
BY DEF Return, Nothing, Since, TypeInv, TypeOK, SignsTyped, LinesTyped

\* A call that goes on keeps its type.
LEMMA GotoType ==
  ASSUME TypeInv, NEW c \in Caller, calls[c] # Idle,
         NEW step \in {"board", "reserve", "key", "invoke", "health", "check",
                       "read", "write"},
         Goto(c, step)
  PROVE  calls' \in [Caller -> Call \cup {Idle}] /\ SignsTyped' /\ LinesTyped'
<1>1. calls[c] \in Call
  BY DEF TypeInv, TypeOK
<1>2. [calls[c] EXCEPT !.at = step] \in Call
  BY <1>1 DEF Call
<1>3. QED
  BY <1>1, <1>2 DEF Goto, TypeInv, TypeOK, SignsTyped, LinesTyped, Call

LEMMA TypeStep == TypeInv /\ [GatewayNext]_all => TypeInv'
<1> SUFFICES ASSUME TypeInv, [GatewayNext]_all PROVE TypeInv'
  OBVIOUS
<1> USE DEF authority, gateway, counts, history, all
<1>1. ASSUME NEW c \in Caller, NEW k \in Class, NEW s \in Scope, NEW n \in Nonce,
             NEW t \in Text, BeginSign(c, k, s, n, t) \/ BeginAttest(c, k, s, n, t)
      PROVE  TypeInv'
  <2>1. PICK step \in {"reserve", "board"} : Enter(c, Request(k, s, n, t, step))
    BY <1>1 DEF BeginSign, BeginAttest
  <2>2. Request(k, s, n, t, step) \in Call
    BY GatewayAssumption DEF Request, Call, Kind, Ring
  <2>3. QED
    BY <1>1, <2>1, <2>2, EnterType
       DEF BeginSign, BeginAttest, Enter, Request, TypeInv, TypeOK
<1>2. ASSUME NEW c \in Caller, NEW reads \in BOOLEAN, ReadBoard(c, reads)
      PROVE  TypeInv'
  <2>1. calls[c] \in Call
    BY <1>2 DEF ReadBoard, At, TypeInv, TypeOK
  <2>2. calls'[c] \in Call /\ calls'[c].op = "sign"
    BY <1>2, <2>1 DEF ReadBoard, At, Call, Kind, TypeInv, TypeOK
  <2>3. calls' \in [Caller -> Call \cup {Idle}]
    BY <1>2, <2>2 DEF ReadBoard, TypeInv, TypeOK
  <2>4. SignsTyped' /\ LinesTyped'
    BY <1>2, <2>1 DEF ReadBoard, At, TypeInv, TypeOK, SignsTyped, LinesTyped, Call
  <2>5. QED
    BY <1>2, <2>3, <2>4 DEF ReadBoard, TypeInv, TypeOK
<1>3. ASSUME NEW c \in Caller, NEW w \in Time, Reserve(c, w)
      PROVE  TypeInv'
  <2>1. calls[c] \in Call
    BY <1>3 DEF Reserve, TypeInv, TypeOK
  <2>2. Cardinality(ledger) \in Nat
    BY FS_CardinalityType DEF TypeInv
  <2>3. calls'[c] \in Call
    BY <1>3, <2>1, <2>2 DEF Reserve, Call, TypeInv, TypeOK
  <2>4. calls' \in [Caller -> Call \cup {Idle}]
    BY <1>3, <2>3 DEF Reserve, TypeInv, TypeOK
  <2>5. SignsTyped' /\ LinesTyped'
    BY <1>3, <2>1 DEF Reserve, TypeInv, TypeOK, SignsTyped, LinesTyped, Call
  <2>6. IsFiniteSet(ledger')
    BY <1>3, FS_AddElement DEF Reserve, Spend, TypeInv
  <2>7. QED
    BY <1>3, <2>4, <2>5, <2>6 DEF Reserve, TypeInv, TypeOK
<1>4. ASSUME NEW c \in Caller, Gated(c)
      PROVE  TypeInv'
  <2>1. calls[c] # Idle
    BY <1>4 DEF Gated
  <2>2. CASE Return(c)
    BY <1>4, <2>2, ReturnType DEF Gated, TypeInv, TypeOK
  <2>3. CASE Goto(c, "health") /\ UNCHANGED since
    BY <1>4, <2>1, <2>3, GotoType DEF Gated, TypeInv, TypeOK
  <2>4. QED
    BY <1>4, <2>2, <2>3 DEF Gated
<1>5. ASSUME NEW c \in Caller, SignMessage(c)
      PROVE  TypeInv'
  <2>1. calls[c] \in Call
    BY <1>5 DEF SignMessage, At, TypeInv, TypeOK
  <2>2. signatures' \subseteq Signature
    BY <1>5, <2>1 DEF SignMessage, At, Signature, Call, TypeInv, TypeOK, SignsTyped, LinesTyped
  <2>3. QED
    BY <1>5, <2>2, ReturnType DEF SignMessage, TypeInv, TypeOK
<1>6. ASSUME NEW c \in Caller, BeginComplete(c)
      PROVE  TypeInv'
  <2> DEFINE call == [op |-> "complete", at |-> "reserve", klass |-> Model,
                      scope |-> NoScope, nonce |-> 0, text |-> NoText, serial |-> 0,
                      line |-> 0, ring |-> <<>>]
  <2>1. call \in Call
    BY GatewayAssumption DEF Call, Kind, Ring
  <2>2. Enter(c, call) /\ call.op = "complete"
    BY <1>6 DEF BeginComplete
  <2> HIDE DEF call
  <2>3. /\ calls' \in [Caller -> Call \cup {Idle}]
        /\ since' \in [Caller -> Since]
        /\ SignsTyped' /\ LinesTyped'
    BY <2>1, <2>2, EnterType
  <2>4. asked' \in 0 .. MaxAsks
    BY <1>6, GatewayAssumption DEF BeginComplete, TypeInv, TypeOK
  <2>5. QED
    BY <1>6, <2>2, <2>3, <2>4 DEF BeginComplete, Enter, TypeInv, TypeOK
<1>7. ASSUME NEW c \in Caller, NEW answered \in BOOLEAN, Invoke(c, answered)
      PROVE  TypeInv'
  BY <1>7, GotoType DEF Invoke, At, TypeInv, TypeOK
<1>8. ASSUME NEW c \in Caller, PublishHealth(c)
      PROVE  TypeInv'
  BY <1>8, ReturnType DEF PublishHealth, TypeInv, TypeOK
<1>9. ASSUME NEW c \in Caller, BeginNote(c)
      PROVE  TypeInv'
  <2> DEFINE call == [op |-> "note", at |-> "check", klass |-> NoClass,
                      scope |-> NoScope, nonce |-> 0, text |-> NoText, serial |-> 0,
                      line |-> noted + 1, ring |-> <<>>]
  <2>1. noted + 1 \in Line
    BY <1>9, GatewayAssumption DEF BeginNote, TypeInv, TypeOK, Line
  <2>2. call \in Call
    BY <2>1, GatewayAssumption DEF Call, Kind, Ring
  <2>3. Enter(c, call) /\ call.op = "note" /\ call.line \in Line
    BY <1>9, <2>1 DEF BeginNote
  <2> HIDE DEF call
  <2>4. /\ calls' \in [Caller -> Call \cup {Idle}]
        /\ since' \in [Caller -> Since]
        /\ SignsTyped' /\ LinesTyped'
    BY <2>2, <2>3, EnterType
  <2>5. noted' \in 0 .. MaxLines
    BY <1>9, <2>1 DEF BeginNote, TypeInv, TypeOK, Line
  <2>6. QED
    BY <1>9, <2>3, <2>4, <2>5 DEF BeginNote, Enter, TypeInv, TypeOK
<1>10. ASSUME NEW c \in Caller, NEW ok \in BOOLEAN, CheckLive(c, ok)
       PROVE  TypeInv'
  <2>1. calls[c] # Idle
    BY <1>10 DEF CheckLive, At
  <2>2. CASE Return(c)
    BY <1>10, <2>2, ReturnType DEF CheckLive, TypeInv, TypeOK
  <2>3. CASE Goto(c, "read") /\ UNCHANGED since
    BY <1>10, <2>1, <2>3, GotoType DEF CheckLive, TypeInv, TypeOK
  <2>4. QED
    BY <1>10, <2>2, <2>3 DEF CheckLive
<1>11. ASSUME NEW c \in Caller, NEW reads \in BOOLEAN, NEW fits \in 1 .. MaxRing,
              ReadRing(c, reads, fits)
       PROVE  TypeInv'
  <2> DEFINE prior == IF reads THEN OwnRing ELSE <<>>
             ring == Fit(prior, calls[c].line, fits)
  <2>1. calls[c] \in Call
    BY <1>11 DEF ReadRing, At, TypeInv, TypeOK
  <2>2. prior \in Ring
    BY GatewayAssumption DEF OwnRing, Ring, TypeInv, TypeOK
  <2>3. ring \in Ring
    BY <1>11, <2>2, FitType DEF ReadRing, At, TypeInv, LinesTyped
  <2>4. calls' = [calls EXCEPT ![c].at = "key", ![c].ring = ring]
    BY <1>11 DEF ReadRing
  <2> HIDE DEF prior, ring
  <2>5. [calls[c] EXCEPT !.at = "key", !.ring = ring] \in Call
    BY <2>1, <2>3 DEF Call
  <2>6. calls' \in [Caller -> Call \cup {Idle}]
    BY <2>4, <2>5 DEF TypeInv, TypeOK
  <2>7. SignsTyped' /\ LinesTyped'
    BY <1>11, <2>1, <2>4 DEF ReadRing, At, TypeInv, TypeOK, SignsTyped, LinesTyped, Call
  <2>8. QED
    BY <1>11, <2>6, <2>7 DEF ReadRing, TypeInv, TypeOK
<1>12. ASSUME NEW c \in Caller, SignRing(c)
       PROVE  TypeInv'
  <2>1. calls[c] \in Call /\ calls[c] # Idle
    BY <1>12 DEF SignRing, At, TypeInv, TypeOK
  <2>2. calls[c].ring \in Ring
    BY <2>1 DEF Call
  <2>3. QED
    BY <1>12, <2>1, <2>2, GotoType DEF SignRing, TypeInv, TypeOK
<1>13. ASSUME NEW c \in Caller, NEW kept \in BOOLEAN, WriteRing(c, kept)
       PROVE  TypeInv'
  <2>1. calls[c] \in Call
    BY <1>13 DEF WriteRing, At, TypeInv, TypeOK
  <2>2. calls[c].ring \in Ring
    BY <2>1 DEF Call
  <2>3. QED
    BY <1>13, <2>2, ReturnType DEF WriteRing, TypeInv, TypeOK
<1>14. ASSUME NEW c \in Caller, Evict(c)
       PROVE  TypeInv'
  BY <1>14, ReturnType DEF Evict, TypeInv, TypeOK
<1>15. ASSUME NEW b \in Posts, Post(b)
       PROVE  TypeInv'
  <2>1. b \in [text : Text \cup {NoText}, ours : BOOLEAN]
    BY GatewayAssumption
  <2>2. Others(b) \subseteq Text
    BY <2>1 DEF Others
  <2>3. since' \in [Caller -> Since]
    BY <1>15, <2>2 DEF Post, Since, TypeInv, TypeOK
  <2>4. QED
    BY <1>15, <2>1, <2>3 DEF Post, TypeInv, TypeOK, SignsTyped, LinesTyped
<1>16. ASSUME NEW g \in Grants, Steer(g)
       PROVE  TypeInv'
  <2>1. Status(g) \in {"live", "none", "stop"}
    BY DEF Status
  <2>2. since' \in [Caller -> Since]
    BY <1>16, <2>1 DEF Steer, Since, TypeInv, TypeOK
  <2>3. QED
    BY <1>16, <2>2 DEF Steer, Install, TypeInv, TypeOK, SignsTyped, LinesTyped
<1>17. ASSUME Overwrite
       PROVE  TypeInv'
  <2>1. CASE feed' = [ours |-> FALSE, lines |-> <<Foreign>>]
    <3>1. feed'.ours = FALSE
      BY <2>1
    <3>2. QED
      BY <1>17, <3>1 DEF Overwrite, TypeInv, TypeOK, SignsTyped, LinesTyped
  <2>2. ASSUME NEW r \in rings, feed' = [ours |-> TRUE, lines |-> r]
        PROVE  TypeInv'
    <3>1. feed'.ours = TRUE /\ feed'.lines \in Ring
      BY <2>2 DEF TypeInv, TypeOK
    <3>2. QED
      BY <1>17, <3>1 DEF Overwrite, TypeInv, TypeOK, SignsTyped, LinesTyped
  <2>3. QED
    BY <1>17, <2>1, <2>2 DEF Overwrite
<1>18. CASE UNCHANGED all
  BY <1>18 DEF TypeInv, TypeOK, SignsTyped, LinesTyped
<1>19. QED
  BY <1>1, <1>2, <1>3, <1>4, <1>5, <1>6, <1>7, <1>8, <1>9, <1>10, <1>11, <1>12,
     <1>13, <1>14, <1>15, <1>16, <1>17, <1>18 DEF GatewayNext, Step

\* The gateway's state always has the types of TypeOK.
THEOREM TypeCorrect == GatewaySpec => []TypeOK
<1>1. TypeInv => TypeOK
  BY DEF TypeInv
<1>2. QED
  BY <1>1, TypeInit, TypeStep, PTL DEF GatewaySpec

-----------------------------------------------------------------------------
(* Every signature is paid for.                                            *)

\* Reservations are numbered, and the nonces of a scope rise with the numbers.
LedgerInv ==
  /\ \A e \in ledger : e.serial \in 1 .. Cardinality(ledger) /\ e.nonce \in Nat
  /\ \A e, f \in ledger : e.serial = f.serial => e = f
  /\ \A e, f \in ledger :
       e.scope # NoScope /\ e.scope = f.scope /\ e.serial < f.serial
         => e.nonce < f.nonce

Entry(k, w, s, n) ==
  [serial |-> Cardinality(ledger) + 1, grant |-> inForce, klass |-> k,
   start |-> w, scope |-> s, nonce |-> n]

\* A spend adds one entry, numbered next.
LEMMA SpendStep ==
  ASSUME IsFiniteSet(ledger), LedgerInv, NEW k, NEW w, NEW s, NEW n \in Nat,
         Spend(k, w, s, n)
  PROVE  /\ LedgerInv'
         /\ ledger' = ledger \cup {Entry(k, w, s, n)}
         /\ Entry(k, w, s, n) \notin ledger
         /\ Cardinality(ledger') = Cardinality(ledger) + 1
<1>1. ledger' = ledger \cup {Entry(k, w, s, n)}
  BY DEF Spend, Entry
<1>2. Cardinality(ledger) \in Nat
  BY FS_CardinalityType
<1>3. Entry(k, w, s, n).serial = Cardinality(ledger) + 1
  BY DEF Entry
<1>4. Entry(k, w, s, n) \notin ledger
  BY <1>2, <1>3 DEF LedgerInv
<1>5. Cardinality(ledger') = Cardinality(ledger) + 1
  BY <1>1, <1>4, FS_AddElement
<1>6. \A e \in ledger' : e.serial \in 1 .. Cardinality(ledger') /\ e.nonce \in Nat
  BY <1>1, <1>2, <1>5 DEF LedgerInv, Entry
<1>7. \A e \in ledger : e.serial # Cardinality(ledger) + 1
  BY <1>2 DEF LedgerInv
<1>8. \A e, f \in ledger' : e.serial = f.serial => e = f
  BY <1>1, <1>3, <1>7 DEF LedgerInv
<1>9. ASSUME NEW e \in ledger', NEW f \in ledger', e.scope # NoScope,
             e.scope = f.scope, e.serial < f.serial
      PROVE  e.nonce < f.nonce
  <2>1. CASE e \in ledger /\ f \in ledger
    BY <1>9, <2>1 DEF LedgerInv
  <2>2. CASE f = Entry(k, w, s, n) /\ e \in ledger
    <3>1. f.scope = s /\ f.nonce = n
      BY <2>2 DEF Entry
    <3>2. QED
      BY <1>9, <2>2, <3>1 DEF Spend
  <2>3. CASE e = Entry(k, w, s, n)
    BY <1>1, <1>2, <1>3, <1>9, <2>3 DEF LedgerInv
  <2>4. QED
    BY <1>1, <2>1, <2>2, <2>3
<1>10. QED
  BY <1>1, <1>4, <1>5, <1>6, <1>8, <1>9 DEF LedgerInv

\* A call of sign between the Governor's OK and its signature.
Holds(c) == At(c, "sign", "key")

Pays(e, x) ==
  e.serial = x.serial /\ e.klass = x.klass /\ e.scope = x.scope /\ e.nonce = x.nonce

\* What a call is about to sign was reserved for it alone.
HoldsPaid ==
  /\ \A c \in Caller : Holds(c) =>
       /\ \E e \in ledger : Pays(e, calls[c])
       /\ \A s \in signatures : s.serial # calls[c].serial
  /\ \A c, d \in Caller : Holds(c) /\ Holds(d) /\ c # d => calls[c].serial # calls[d].serial

PaidInv == LedgerInv /\ HoldsPaid /\ SignaturesArePaid

\* A step that neither reserves nor signs keeps PaidInv.
LEMMA PaidQuiet ==
  ASSUME PaidInv, UNCHANGED <<ledger, signatures>>,
         \A d \in Caller : Holds(d)' => Holds(d) /\ calls'[d] = calls[d]
  PROVE  PaidInv'
BY DEF PaidInv, LedgerInv, HoldsPaid, SignaturesArePaid, Pays

\* Which steps are quiet in that sense.
LEMMA Quiet ==
  ASSUME TypeInv, [GatewayNext]_all,
         \A c \in Caller, w \in Time : ~Reserve(c, w),
         \A c \in Caller : ~SignMessage(c)
  PROVE  /\ UNCHANGED <<ledger, signatures>>
         /\ \A d \in Caller : Holds(d)' => Holds(d) /\ calls'[d] = calls[d]
<1> USE DEF authority, gateway, counts, history, all, Holds, At, TypeInv, TypeOK
<1>1. ASSUME NEW c \in Caller, NEW k \in Class, NEW s \in Scope, NEW n \in Nonce,
             NEW t \in Text, BeginSign(c, k, s, n, t) \/ BeginAttest(c, k, s, n, t)
      PROVE  /\ UNCHANGED <<ledger, signatures>>
             /\ \A d \in Caller : Holds(d)' => Holds(d) /\ calls'[d] = calls[d]
  BY <1>1 DEF BeginSign, BeginAttest, Enter, Request
<1>2. ASSUME NEW c \in Caller, BeginComplete(c) \/ BeginNote(c)
      PROVE  /\ UNCHANGED <<ledger, signatures>>
             /\ \A d \in Caller : Holds(d)' => Holds(d) /\ calls'[d] = calls[d]
  BY <1>2 DEF BeginComplete, BeginNote, Enter
<1>3. ASSUME NEW c \in Caller, \E reads \in BOOLEAN : ReadBoard(c, reads)
      PROVE  /\ UNCHANGED <<ledger, signatures>>
             /\ \A d \in Caller : Holds(d)' => Holds(d) /\ calls'[d] = calls[d]
  <2>1. calls[c] \in Call
    BY <1>3 DEF ReadBoard
  <2>2. calls'[c].at = "reserve"
    BY <1>3, <2>1 DEF ReadBoard, Call
  <2>3. QED
    BY <1>3, <2>2 DEF ReadBoard
<1>4. ASSUME NEW c \in Caller,
             \E reads \in BOOLEAN, fits \in 1 .. MaxRing : ReadRing(c, reads, fits)
      PROVE  /\ UNCHANGED <<ledger, signatures>>
             /\ \A d \in Caller : Holds(d)' => Holds(d) /\ calls'[d] = calls[d]
  <2>1. calls[c] \in Call /\ calls[c].op = "note"
    BY <1>4 DEF ReadRing
  <2>2. calls'[c].op = "note"
    BY <1>4, <2>1 DEF ReadRing, Call
  <2>3. QED
    BY <1>4, <2>2 DEF ReadRing
<1>5. ASSUME NEW c \in Caller, calls[c] # Idle,
             NEW step \in {"health", "read", "write"}, Goto(c, step)
      PROVE  \A d \in Caller : Holds(d)' => Holds(d) /\ calls'[d] = calls[d]
  <2>1. calls[c] \in Call
    BY <1>5
  <2>2. calls'[c].at = step
    BY <1>5, <2>1 DEF Goto, Call
  <2>3. QED
    BY <1>5, <2>2 DEF Goto
<1>6. ASSUME NEW c \in Caller, Return(c)
      PROVE  \A d \in Caller : Holds(d)' => Holds(d) /\ calls'[d] = calls[d]
  BY <1>6 DEF Return
<1>7. ASSUME NEW c \in Caller,
             \/ Gated(c) \/ PublishHealth(c) \/ SignRing(c) \/ Evict(c)
             \/ \E b \in BOOLEAN : Invoke(c, b) \/ CheckLive(c, b) \/ WriteRing(c, b)
      PROVE  /\ UNCHANGED <<ledger, signatures>>
             /\ calls[c] # Idle
             /\ Return(c) \/ \E step \in {"health", "read", "write"} : Goto(c, step)
  BY <1>7 DEF Gated, PublishHealth, SignRing, Evict, Invoke, CheckLive, WriteRing
<1>8. CASE (\E b \in Posts : Post(b)) \/ (\E g \in Grants : Steer(g)) \/ Overwrite
  BY <1>8 DEF Post, Steer, Install, Overwrite
<1>9. CASE UNCHANGED all
  BY <1>9
<1>10. QED
  BY <1>1, <1>2, <1>3, <1>4, <1>5, <1>6, <1>7, <1>8, <1>9 DEF GatewayNext, Step

LEMMA PaidStep == TypeInv /\ PaidInv /\ [GatewayNext]_all => PaidInv'
<1> SUFFICES ASSUME TypeInv, PaidInv, [GatewayNext]_all PROVE PaidInv'
  OBVIOUS
<1>1. ASSUME NEW c \in Caller, NEW w \in Time, Reserve(c, w)
      PROVE  PaidInv'
  <2> DEFINE e == Entry(calls[c].klass, w, calls[c].scope, calls[c].nonce)
  <2>1. calls[c] \in Call /\ calls[c].nonce \in Nat
    BY <1>1, GatewayAssumption DEF Reserve, TypeInv, TypeOK, Call
  <2>2. /\ LedgerInv'
        /\ ledger' = ledger \cup {e}
    BY <1>1, <2>1, SpendStep DEF Reserve, TypeInv, PaidInv
  <2>3. calls' = [calls EXCEPT ![c] = calls'[c]] /\ signatures' = signatures
    BY <1>1 DEF Reserve, TypeInv, TypeOK, history
  <2>4. /\ calls'[c].serial = e.serial
        /\ calls'[c].klass = e.klass
        /\ calls'[c].scope = e.scope
        /\ calls'[c].nonce = e.nonce
    BY <1>1, <2>1 DEF Reserve, Entry, TypeInv, TypeOK, Call
  <2>5. \A f \in ledger : f.serial # e.serial
    <3>1. Cardinality(ledger) \in Nat
      BY FS_CardinalityType DEF TypeInv
    <3>2. QED
      BY <3>1 DEF PaidInv, LedgerInv, Entry
  <2> HIDE DEF e
  <2>6. \A s \in signatures : s.serial # e.serial
    BY <2>5 DEF PaidInv, SignaturesArePaid
  <2>7. \A d \in Caller \ {c} : calls'[d] = calls[d] /\ (Holds(d)' <=> Holds(d))
    BY <2>3 DEF Holds, At, TypeInv, TypeOK
  <2>8. \A d \in Caller \ {c} : Holds(d)' => calls'[d].serial # e.serial
    BY <2>5, <2>7 DEF PaidInv, HoldsPaid, Pays
  <2>9. HoldsPaid'
    BY <2>2, <2>3, <2>4, <2>6, <2>7, <2>8 DEF PaidInv, HoldsPaid, Pays
  <2>10. SignaturesArePaid'
    BY <2>2, <2>3 DEF PaidInv, SignaturesArePaid
  <2>11. QED
    BY <2>2, <2>9, <2>10 DEF PaidInv
<1>2. ASSUME NEW c \in Caller, SignMessage(c)
      PROVE  PaidInv'
  <2> DEFINE s == [serial |-> calls[c].serial, klass |-> calls[c].klass,
                   scope |-> calls[c].scope, nonce |-> calls[c].nonce,
                   text |-> calls[c].text]
  <2>1. signatures' = signatures \cup {s} /\ ledger' = ledger
    BY <1>2 DEF SignMessage, authority
  <2>2. \A d \in Caller : Holds(d)' => Holds(d) /\ d # c /\ calls'[d] = calls[d]
    BY <1>2 DEF SignMessage, Return, Holds, At, TypeInv, TypeOK
  <2>3. Holds(c)
    BY <1>2 DEF SignMessage, Holds
  <2>4. /\ s.serial = calls[c].serial /\ s.klass = calls[c].klass
        /\ s.scope = calls[c].scope /\ s.nonce = calls[c].nonce
    OBVIOUS
  <2> HIDE DEF s
  <2>5. PICK e \in ledger : Pays(e, calls[c])
    BY <2>3 DEF PaidInv, HoldsPaid
  <2>6. \A u \in signatures : u.serial # s.serial
    BY <2>3, <2>4 DEF PaidInv, HoldsPaid
  <2>7. SignaturesArePaid'
    BY <2>1, <2>4, <2>5, <2>6 DEF PaidInv, SignaturesArePaid, Pays
  <2>8. HoldsPaid'
    BY <2>1, <2>2, <2>3, <2>4 DEF PaidInv, HoldsPaid, Pays
  <2>9. LedgerInv'
    BY <2>1 DEF PaidInv, LedgerInv
  <2>10. QED
    BY <2>7, <2>8, <2>9 DEF PaidInv
<1>3. CASE /\ \A c \in Caller, w \in Time : ~Reserve(c, w)
           /\ \A c \in Caller : ~SignMessage(c)
  BY <1>3, Quiet, PaidQuiet
<1>4. QED
  BY <1>1, <1>2, <1>3

LEMMA PaidInit == GatewayInit => PaidInv
BY DEF GatewayInit, Init, PaidInv, LedgerInv, HoldsPaid, SignaturesArePaid, Holds, At

\* Every message the key signed was reserved, and no reservation paid for two.
THEOREM SignaturesPaid == GatewaySpec => []SignaturesArePaid
<1>1. PaidInv => SignaturesArePaid
  BY DEF PaidInv
<1>2. QED
  BY <1>1, TypeInit, TypeStep, PaidInit, PaidStep, PTL DEF GatewaySpec

\* In one scope the key never signs two different texts under one nonce: their
\* reservations would be two, and the nonces of a scope rise strictly.
THEOREM NoncesUnambiguous == GatewaySpec => []NoncesNameOneText
<1>1. TypeInv /\ PaidInv => NoncesNameOneText
  <2> SUFFICES ASSUME TypeInv, PaidInv, NEW s \in signatures, NEW u \in signatures,
                      s.scope = u.scope, s.nonce = u.nonce
               PROVE  s.text = u.text
    BY DEF NoncesNameOneText
  <2>1. s.scope # NoScope
    BY GatewayAssumption DEF TypeInv, TypeOK, Signature
  <2>2. PICK e \in ledger : e.serial = s.serial /\ e.scope = s.scope /\ e.nonce = s.nonce
    BY DEF PaidInv, SignaturesArePaid
  <2>3. PICK f \in ledger : f.serial = u.serial /\ f.scope = u.scope /\ f.nonce = u.nonce
    BY DEF PaidInv, SignaturesArePaid
  <2>4. e.serial \in Nat /\ f.serial \in Nat /\ e.nonce \in Nat /\ f.nonce \in Nat
    BY FS_CardinalityType DEF TypeInv, PaidInv, LedgerInv
  <2>5. ~(e.serial < f.serial) /\ ~(f.serial < e.serial)
    BY <2>1, <2>2, <2>3, <2>4 DEF PaidInv, LedgerInv
  <2>6. s.serial = u.serial
    BY <2>2, <2>3, <2>4, <2>5
  <2>7. QED
    BY <2>6 DEF PaidInv, SignaturesArePaid
<1>2. QED
  BY <1>1, TypeInit, TypeStep, PaidInit, PaidStep, PTL DEF GatewaySpec

-----------------------------------------------------------------------------
(* The key stays dark while no grant is live, and only others' work is      *)
(* attested as board-matched.                                              *)

\* What a running call met includes what is in force and posted now; one that
\* is past its check met a live grant; one that matched met the result.
MetInv ==
  /\ \A c \in Caller : calls[c] # Idle =>
       Status(inForce) \in since[c].met /\ Others(board) \subseteq since[c].posted
  /\ \A c \in Caller :
       At(c, "sign", "key") \/ At(c, "note", "read") \/ At(c, "note", "key")
         => "live" \in since[c].met
  /\ \A c \in Caller :
       calls[c] # Idle /\ calls[c].op = "sign" /\ calls[c].klass = Match =>
         calls[c].at \in {"reserve", "key"} /\ calls[c].text \in since[c].posted

LEMMA MetInit == GatewayInit => MetInv
BY DEF GatewayInit, MetInv, At

\* A step that leaves the authority and the board alone and takes no call where
\* it must have met something keeps MetInv.
LEMMA MetQuiet ==
  ASSUME TypeInv, MetInv, UNCHANGED <<inForce, barred, board>>,
         NEW c \in Caller,
         \A d \in Caller \ {c} : calls'[d] = calls[d] /\ since'[d] = since[d],
         \/ calls'[c] = Idle
         \/ /\ calls[c] # Idle
            /\ since'[c] = since[c]
            /\ calls'[c].op = calls[c].op
            /\ calls'[c].klass = calls[c].klass
            /\ calls'[c].text = calls[c].text
            /\ calls'[c].op = "sign" => calls[c].at = "reserve" /\ calls'[c].at = "key"
            /\ \/ At(c, "sign", "key")' \/ At(c, "note", "read")' \/ At(c, "note", "key")'
               => "live" \in since[c].met
  PROVE  MetInv'
<1>1. Status(inForce)' = Status(inForce) /\ Others(board)' = Others(board)
  BY DEF Status, Live, Others
<1>2. QED
  BY <1>1 DEF MetInv, At

LEMMA MetStep == TypeInv /\ MetInv /\ [GatewayNext]_all => MetInv'
<1> SUFFICES ASSUME TypeInv, MetInv, [GatewayNext]_all PROVE MetInv'
  OBVIOUS
<1> USE DEF authority, gateway, counts, history, all
<1>1. ASSUME NEW c \in Caller, NEW call \in Call, Enter(c, call),
             call.klass # Match, ~(call.op = "sign" /\ call.at = "key"),
             ~(call.op = "note" /\ call.at \in {"read", "key"})
      PROVE  MetInv'
  <2>1. Status(inForce)' = Status(inForce) /\ Others(board)' = Others(board)
    BY <1>1 DEF Enter, Status, Live, Others
  <2>2. calls'[c] = call
    BY <1>1 DEF Enter, TypeInv, TypeOK
  <2>3. since'[c] = [met |-> {Status(inForce)}, posted |-> Others(board)]
    BY <1>1 DEF Enter, TypeInv, TypeOK
  <2>4. \A d \in Caller \ {c} : calls'[d] = calls[d] /\ since'[d] = since[d]
    BY <1>1 DEF Enter, TypeInv, TypeOK
  <2>5. QED
    BY <1>1, <2>1, <2>2, <2>3, <2>4 DEF MetInv, At
<1>2. ASSUME NEW c \in Caller, NEW k \in Class, NEW s \in Scope, NEW n \in Nonce,
             NEW t \in Text, BeginSign(c, k, s, n, t) \/ BeginAttest(c, k, s, n, t)
      PROVE  MetInv'
  <2>1. PICK step \in {"reserve", "board"} : Enter(c, Request(k, s, n, t, step))
    BY <1>2 DEF BeginSign, BeginAttest
  <2>2. Request(k, s, n, t, step) \in Call
    BY GatewayAssumption DEF Request, Call, Kind, Ring
  <2>3. k # Match
    BY <1>2 DEF BeginSign, BeginAttest, Match, NoMatch, NotUseful
  <2>4. QED
    BY <1>1, <2>1, <2>2, <2>3 DEF Request
<1>3. ASSUME NEW c \in Caller, BeginComplete(c)
      PROVE  MetInv'
  <2> DEFINE call == [op |-> "complete", at |-> "reserve", klass |-> Model,
                      scope |-> NoScope, nonce |-> 0, text |-> NoText, serial |-> 0,
                      line |-> 0, ring |-> <<>>]
  <2>1. call \in Call /\ call.op = "complete" /\ call.klass # Match
    BY GatewayAssumption DEF Call, Kind, Ring, Model, Match
  <2>2. Enter(c, call)
    BY <1>3 DEF BeginComplete
  <2> HIDE DEF call
  <2>3. QED
    BY <1>1, <2>1, <2>2
<1>4. ASSUME NEW c \in Caller, BeginNote(c)
      PROVE  MetInv'
  <2> DEFINE call == [op |-> "note", at |-> "check", klass |-> NoClass,
                      scope |-> NoScope, nonce |-> 0, text |-> NoText, serial |-> 0,
                      line |-> noted + 1, ring |-> <<>>]
  <2>1. noted + 1 \in Line
    BY <1>4, GatewayAssumption DEF BeginNote, TypeInv, TypeOK, Line
  <2>2. call \in Call /\ call.op = "note" /\ call.at = "check" /\ call.klass # Match
    BY <2>1, GatewayAssumption DEF Call, Kind, Ring, NoClass, Match
  <2>3. Enter(c, call)
    BY <1>4 DEF BeginNote
  <2> HIDE DEF call
  <2>4. QED
    BY <1>1, <2>2, <2>3
<1>5. ASSUME NEW c \in Caller, NEW reads \in BOOLEAN, ReadBoard(c, reads)
      PROVE  MetInv'
  <2>1. calls[c] \in Call
    BY <1>5 DEF ReadBoard, At, TypeInv, TypeOK
  <2>2. /\ calls'[c].op = "sign"
        /\ calls'[c].at = "reserve"
        /\ calls'[c].text = calls[c].text
        /\ calls'[c].klass = Match =>
             calls[c].klass = Match \/ PostedByOther(calls[c].text)
    BY <1>5, <2>1 DEF ReadBoard, At, TypeInv, TypeOK, Call
  <2>3. calls[c].klass # Match
    BY <1>5 DEF ReadBoard, At, MetInv
  <2>4. PostedByOther(calls[c].text) => calls[c].text \in since[c].posted
    BY <1>5, GatewayAssumption
       DEF ReadBoard, At, PostedByOther, Others, MetInv, TypeInv, SignsTyped
  <2>5. UNCHANGED <<inForce, barred, board, since>>
    BY <1>5 DEF ReadBoard
  <2>6. Status(inForce)' = Status(inForce) /\ Others(board)' = Others(board)
    BY <2>5 DEF Status, Live, Others
  <2>7. \A d \in Caller \ {c} : calls'[d] = calls[d]
    BY <1>5 DEF ReadBoard, TypeInv, TypeOK
  <2>8. calls[c] # Idle
    BY <1>5 DEF ReadBoard, At
  <2>9. QED
    BY <2>2, <2>3, <2>4, <2>5, <2>6, <2>7, <2>8 DEF MetInv, At
<1>6. ASSUME NEW c \in Caller, NEW w \in Time, Reserve(c, w)
      PROVE  MetInv'
  <2>1. calls[c] \in Call /\ calls[c] # Idle
    BY <1>6 DEF Reserve, TypeInv, TypeOK
  <2>2. /\ calls'[c].op = calls[c].op
        /\ calls'[c].klass = calls[c].klass
        /\ calls'[c].text = calls[c].text
        /\ calls'[c].at = IF calls[c].op = "sign" THEN "key" ELSE "invoke"
        /\ calls[c].at = "reserve"
    BY <1>6, <2>1 DEF Reserve, TypeInv, TypeOK, Call
  <2>3. Live(inForce)
    <3>1. Cardinality(Spent(calls[c].klass, w)) \in Nat
      BY FS_Subset, FS_CardinalityType DEF Spent, TypeInv
    <3>2. /\ inForce # NoGrant /\ inForce.id \notin barred
          /\ Cardinality(Spent(calls[c].klass, w)) < Ceiling(inForce, calls[c].klass)
      BY <1>6 DEF Reserve, Spend
    <3>3. DOMAIN inForce.allow # {}
      BY <3>1, <3>2 DEF Ceiling
    <3>4. QED
      BY <3>2, <3>3 DEF Live
  <2>4. "live" \in since[c].met
    BY <2>1, <2>3 DEF MetInv, Status
  <2>5. UNCHANGED <<inForce, barred, board, since>>
    BY <1>6 DEF Reserve, Spend
  <2>6. \A d \in Caller \ {c} : calls'[d] = calls[d]
    BY <1>6 DEF Reserve, TypeInv, TypeOK
  <2>7. QED
    BY <2>1, <2>2, <2>4, <2>5, <2>6, MetQuiet
<1>7. ASSUME NEW c \in Caller, Return(c), UNCHANGED <<inForce, barred, board>>
      PROVE  MetInv'
  <2>1. calls'[c] = Idle
    BY <1>7 DEF Return, TypeInv, TypeOK
  <2>2. \A d \in Caller \ {c} : calls'[d] = calls[d] /\ since'[d] = since[d]
    BY <1>7 DEF Return, TypeInv, TypeOK
  <2>3. QED
    BY <1>7, <2>1, <2>2, MetQuiet
<1>8. ASSUME NEW c \in Caller, calls[c] # Idle, NEW step, Goto(c, step),
             UNCHANGED <<inForce, barred, board, since>>,
             calls[c].op # "sign",
             calls[c].op = "note" /\ step \in {"read", "key"} => "live" \in since[c].met
      PROVE  MetInv'
  <2>1. calls[c] \in Call
    BY <1>8 DEF TypeInv, TypeOK
  <2>2. /\ calls'[c].op = calls[c].op
        /\ calls'[c].klass = calls[c].klass
        /\ calls'[c].text = calls[c].text
        /\ calls'[c].at = step
    BY <1>8, <2>1 DEF Goto, TypeInv, TypeOK, Call
  <2>3. \A d \in Caller \ {c} : calls'[d] = calls[d] /\ since'[d] = since[d]
    BY <1>8 DEF Goto, TypeInv, TypeOK
  <2>4. At(c, "sign", "key")' \/ At(c, "note", "read")' \/ At(c, "note", "key")'
          => "live" \in since[c].met
    BY <1>8, <2>2 DEF At
  <2>5. QED
    BY <1>8, <2>2, <2>3, <2>4, MetQuiet
<1>9. ASSUME NEW c \in Caller, Gated(c)
      PROVE  MetInv'
  <2>1. UNCHANGED <<inForce, barred, board>> /\ calls[c] # Idle
    BY <1>9 DEF Gated
  <2>2. CASE calls[c].op = "sign"
    BY <1>7, <1>9, <2>1, <2>2 DEF Gated
  <2>3. CASE calls[c].op # "sign"
    BY <1>8, <1>9, <2>1, <2>3 DEF Gated
  <2>4. QED
    BY <2>2, <2>3
<1>10. ASSUME NEW c \in Caller, NEW answered \in BOOLEAN, Invoke(c, answered)
       PROVE  MetInv'
  BY <1>8, <1>10 DEF Invoke, At
<1>11. ASSUME NEW c \in Caller, NEW ok \in BOOLEAN, CheckLive(c, ok)
       PROVE  MetInv'
  <2>1. UNCHANGED <<inForce, barred, board>> /\ At(c, "note", "check")
    BY <1>11 DEF CheckLive
  <2>2. CASE ok /\ Live(inForce)
    <3>1. "live" \in since[c].met
      BY <2>1, <2>2 DEF MetInv, Status, At
    <3>2. QED
      BY <1>8, <1>11, <2>1, <2>2, <3>1 DEF CheckLive, At
  <2>3. CASE ~(ok /\ Live(inForce))
    BY <1>7, <1>11, <2>1, <2>3 DEF CheckLive
  <2>4. QED
    BY <2>2, <2>3
<1>12. ASSUME NEW c \in Caller, NEW reads \in BOOLEAN, NEW fits \in 1 .. MaxRing,
              ReadRing(c, reads, fits)
       PROVE  MetInv'
  <2>1. calls[c] \in Call /\ At(c, "note", "read")
    BY <1>12 DEF ReadRing, At, TypeInv, TypeOK
  <2>2. /\ calls'[c].op = "note"
        /\ calls'[c].klass = calls[c].klass
        /\ calls'[c].text = calls[c].text
    BY <1>12, <2>1 DEF ReadRing, At, TypeInv, TypeOK, Call
  <2>3. \A d \in Caller \ {c} : calls'[d] = calls[d] /\ since'[d] = since[d]
    BY <1>12 DEF ReadRing, TypeInv, TypeOK
  <2>4. "live" \in since[c].met /\ since' = since
    BY <1>12, <2>1 DEF MetInv, ReadRing
  <2>5. UNCHANGED <<inForce, barred, board>>
    BY <1>12 DEF ReadRing
  <2>6. QED
    BY <2>1, <2>2, <2>3, <2>4, <2>5, MetQuiet DEF At
<1>13. ASSUME NEW c \in Caller, SignRing(c)
       PROVE  MetInv'
  BY <1>8, <1>13 DEF SignRing, At
<1>14. ASSUME NEW c \in Caller,
              \/ SignMessage(c) \/ PublishHealth(c) \/ Evict(c)
              \/ \E kept \in BOOLEAN : WriteRing(c, kept)
       PROVE  MetInv'
  BY <1>7, <1>14 DEF SignMessage, PublishHealth, Evict, WriteRing
<1>15. ASSUME NEW b \in Posts, Post(b)
       PROVE  MetInv'
  <2>1. Status(inForce)' = Status(inForce) /\ Others(board)' = Others(b) /\ calls' = calls
    BY <1>15 DEF Post, Status, Live, Others
  <2>2. \A c \in Caller : calls[c] # Idle =>
          /\ since'[c].met = since[c].met
          /\ since'[c].posted = since[c].posted \cup Others(b)
    <3>1. \A c \in Caller : since[c] \in Since
      BY DEF TypeInv, TypeOK
    <3>2. QED
      BY <1>15, <3>1 DEF Post, Since
  <2>3. QED
    BY <2>1, <2>2 DEF MetInv, At
<1>16. ASSUME NEW g \in Grants, Steer(g)
       PROVE  MetInv'
  <2>1. /\ Status(inForce)' = Status(g)
        /\ Others(board)' = Others(board)
        /\ calls' = calls
    BY <1>16 DEF Steer, Install, Status, Live, Others
  <2>2. \A c \in Caller : calls[c] # Idle =>
          /\ since'[c].met = since[c].met \cup {Status(g)}
          /\ since'[c].posted = since[c].posted
    <3>1. \A c \in Caller : since[c] \in Since
      BY DEF TypeInv, TypeOK
    <3>2. QED
      BY <1>16, <3>1 DEF Steer, Since
  <2>3. QED
    BY <2>1, <2>2 DEF MetInv, At
<1>17. CASE Overwrite \/ UNCHANGED all
  BY <1>17 DEF Overwrite, MetInv, At, Status, Live, Others
<1>18. QED
  BY <1>2, <1>3, <1>4, <1>5, <1>6, <1>9, <1>10, <1>11, <1>12, <1>13, <1>14, <1>15,
     <1>16, <1>17 DEF GatewayNext, Step

\* Only three actions sign, each for its own call.
LEMMA WhoSigns ==
  ASSUME TypeInv, [GatewayNext]_all, NEW c \in Caller, Signs(c)
  PROVE  SignMessage(c) \/ SignRing(c) \/ PublishHealth(c)
<1> USE DEF authority, gateway, counts, history, all, Signs
<1>1. ASSUME NEW d \in Caller, SignMessage(d) \/ SignRing(d) \/ PublishHealth(d)
      PROVE  d = c
  BY <1>1 DEF SignMessage, SignRing, PublishHealth, Return, Goto, TypeInv, TypeOK
<1>2. ASSUME NEW d \in Caller, Step(d)
      PROVE  SignMessage(d) \/ SignRing(d) \/ PublishHealth(d)
  BY <1>2 DEF Step, BeginSign, BeginAttest, BeginComplete, BeginNote, Enter, ReadBoard,
     Reserve, Gated, Invoke, CheckLive, ReadRing, WriteRing, Evict
<1>3. ~(\E b \in Posts : Post(b)) /\ ~(\E g \in Grants : Steer(g)) /\ ~Overwrite
  BY DEF Post, Steer, Overwrite
<1>4. QED
  BY <1>1, <1>2, <1>3 DEF GatewayNext

\* A call that has met no live grant since it began signs no message, note or
\* ring: noteActivity asked before it read, sign was reserved.
THEOREM GatedSurfacesDark == GatewaySpec => GatedSurfacesGoDark
<1>1. TypeInv /\ MetInv /\ [GatewayNext]_all =>
        [\A c \in Caller :
           Signs(c) /\ calls[c].op # "complete" => "live" \in since[c].met]_all
  <2> SUFFICES ASSUME TypeInv, MetInv, [GatewayNext]_all, NEW c \in Caller, Signs(c),
                      calls[c].op # "complete"
               PROVE  "live" \in since[c].met
    OBVIOUS
  <2>1. SignMessage(c) \/ SignRing(c)
    BY WhoSigns DEF PublishHealth, At
  <2>2. QED
    BY <2>1 DEF SignMessage, SignRing, MetInv
<1>2. QED
  BY <1>1, TypeInit, TypeStep, MetInit, MetStep, PTL DEF GatewaySpec, GatedSurfacesGoDark

\* An attestation is signed as board-matched only for a result someone else had
\* on the board while the call ran.
THEOREM MatchesOthersWork == GatewaySpec => MatchesAreOthersWork
<1>1. TypeInv /\ PaidInv /\ MetInv /\ [GatewayNext]_all =>
        [\A s \in signatures' \ signatures, c \in Caller :
           s.klass = Match /\ At(c, "sign", "key") /\ calls[c].serial = s.serial
             => s.text \in since[c].posted]_all
  <2> SUFFICES ASSUME TypeInv, PaidInv, MetInv, [GatewayNext]_all,
                      NEW s \in signatures' \ signatures, NEW c \in Caller,
                      s.klass = Match, At(c, "sign", "key"), calls[c].serial = s.serial
               PROVE  s.text \in since[c].posted
    OBVIOUS
  <2>1. PICK d \in Caller : SignMessage(d)
    <3>1. signatures' # signatures
      OBVIOUS
    <3>2. ~(\E b \in Posts : Post(b)) /\ ~(\E g \in Grants : Steer(g)) /\ ~Overwrite
      BY <3>1 DEF Post, Steer, Overwrite, history
    <3>3. PICK d \in Caller : Step(d)
      BY <3>1, <3>2 DEF GatewayNext, all, gateway, history
    <3>4. SignMessage(d)
      BY <3>1, <3>3 DEF Step, history, BeginSign, BeginAttest, BeginComplete,
         BeginNote, Enter, ReadBoard, Reserve, Gated, Invoke, PublishHealth, CheckLive,
         ReadRing, SignRing, WriteRing, Evict
    <3>5. QED
      BY <3>4
  <2>2. s.serial = calls[d].serial /\ s.klass = calls[d].klass /\ s.text = calls[d].text
    BY <2>1 DEF SignMessage
  <2>3. d = c
    BY <2>1, <2>2 DEF SignMessage, PaidInv, HoldsPaid, Holds
  <2>4. QED
    BY <2>2, <2>3 DEF MetInv, At
<1>2. QED
  BY <1>1, TypeInit, TypeStep, PaidInit, PaidStep, MetInit, MetStep, PTL
     DEF GatewaySpec, MatchesAreOthersWork

-----------------------------------------------------------------------------
(* Model calls are paid for.                                               *)

Asking == {c \in Caller : At(c, "complete", "invoke")}
ModelSpends == {e \in ledger : e.klass = Model}

CompletesAskModel ==
  \A c \in Caller : calls[c] # Idle /\ calls[c].op = "complete" => calls[c].klass = Model

\* What was invoked, and is about to be, was reserved.
ModelInv ==
  /\ CompletesAskModel
  /\ invoked + Cardinality(Asking) <= Cardinality(ModelSpends)

LEMMA FiniteAsking ==
  ASSUME TypeInv
  PROVE  /\ IsFiniteSet(Asking) /\ Cardinality(Asking) \in Nat
         /\ IsFiniteSet(ModelSpends) /\ Cardinality(ModelSpends) \in Nat
<1>1. Asking \subseteq Caller /\ ModelSpends \subseteq ledger
  BY DEF Asking, ModelSpends
<1>2. QED
  BY <1>1, FS_Subset, FS_CardinalityType, GatewayAssumption DEF TypeInv

LEMMA ModelInit == GatewayInit => ModelInv
<1> SUFFICES ASSUME GatewayInit PROVE ModelInv
  OBVIOUS
<1>1. Asking = {} /\ ModelSpends = {}
  BY DEF GatewayInit, Init, Asking, ModelSpends, At
<1>2. Cardinality({}) = 0
  BY FS_EmptySet
<1>3. QED
  BY <1>1, <1>2 DEF GatewayInit, ModelInv, CompletesAskModel

\* A step that takes no new call to the model and spends at most more.
LEMMA ModelQuiet ==
  ASSUME TypeInv, TypeInv', ModelInv, CompletesAskModel', invoked' = invoked,
         ledger \subseteq ledger', Asking' \subseteq Asking
  PROVE  ModelInv'
<1>1. ModelSpends \subseteq ModelSpends'
  BY DEF ModelSpends
<1>2. /\ Cardinality(Asking') <= Cardinality(Asking) /\ Cardinality(Asking') \in Nat
      /\ Cardinality(ModelSpends) <= Cardinality(ModelSpends')
      /\ Cardinality(ModelSpends') \in Nat
  <2>1. IsFiniteSet(ledger')
    BY DEF TypeInv
  <2>2. ModelSpends' \subseteq ledger'
    BY DEF ModelSpends
  <2>3. IsFiniteSet(ModelSpends')
    BY <2>1, <2>2, FS_Subset
  <2>4. QED
    BY <1>1, <2>3, FiniteAsking, FS_Subset, FS_CardinalityType
<1>3. QED
  BY <1>2, FiniteAsking DEF ModelInv, TypeInv, TypeOK

LEMMA ModelStep ==
  TypeInv /\ TypeInv' /\ PaidInv /\ ModelInv /\ [GatewayNext]_all => ModelInv'
<1> SUFFICES ASSUME TypeInv, TypeInv', PaidInv, ModelInv, [GatewayNext]_all
             PROVE  ModelInv'
  OBVIOUS
<1> USE DEF authority, gateway, counts, history, all
<1>1. ASSUME NEW c \in Caller, NEW w \in Time, Reserve(c, w)
      PROVE  ModelInv'
  <2> DEFINE e == Entry(calls[c].klass, w, calls[c].scope, calls[c].nonce)
  <2>1. calls[c] \in Call /\ calls[c].nonce \in Nat /\ calls[c] # Idle
    BY <1>1, GatewayAssumption DEF Reserve, TypeInv, TypeOK, Call
  <2>2. /\ ledger' = ledger \cup {e}
        /\ e \notin ledger
    BY <1>1, <2>1, SpendStep DEF Reserve, TypeInv, PaidInv
  <2>3. /\ calls'[c].op = calls[c].op
        /\ calls'[c].klass = calls[c].klass
        /\ calls'[c].at = IF calls[c].op = "sign" THEN "key" ELSE "invoke"
        /\ calls[c].at = "reserve"
        /\ \A d \in Caller \ {c} : calls'[d] = calls[d]
        /\ invoked' = invoked
    BY <1>1, <2>1 DEF Reserve, TypeInv, TypeOK, Call
  <2>4. CompletesAskModel'
    BY <2>1, <2>3 DEF ModelInv, CompletesAskModel
  <2>5. e.klass = calls[c].klass
    BY DEF Entry
  <2> HIDE DEF e
  <2>6. CASE calls[c].op # "complete"
    <3>1. Asking' \subseteq Asking
      BY <2>3, <2>6 DEF Asking, At
    <3>2. QED
      BY <2>2, <2>3, <2>4, <3>1, ModelQuiet
  <2>7. CASE calls[c].op = "complete"
    <3>1. c \notin Asking /\ Asking' \subseteq Asking \cup {c}
      BY <2>3 DEF Asking, At
    <3>2. /\ ModelSpends' = ModelSpends \cup {e}
          /\ e \notin ModelSpends
      BY <2>1, <2>2, <2>5, <2>7 DEF ModelSpends, ModelInv, CompletesAskModel
    <3>3. Cardinality(ModelSpends') = Cardinality(ModelSpends) + 1
      BY <3>2, FiniteAsking, FS_AddElement
    <3>4. /\ Cardinality(Asking \cup {c}) = Cardinality(Asking) + 1
          /\ IsFiniteSet(Asking \cup {c})
      BY <3>1, FiniteAsking, FS_AddElement
    <3>5. /\ Cardinality(Asking') \in Nat
          /\ Cardinality(Asking') <= Cardinality(Asking) + 1
      BY <3>1, <3>4, FS_Subset, FS_CardinalityType
    <3>6. QED
      BY <2>3, <2>4, <3>3, <3>5, FiniteAsking DEF ModelInv, TypeInv, TypeOK
  <2>8. QED
    BY <2>6, <2>7
<1>2. ASSUME NEW c \in Caller, NEW answered \in BOOLEAN, Invoke(c, answered)
      PROVE  ModelInv'
  <2>1. calls[c] \in Call /\ At(c, "complete", "invoke")
    BY <1>2 DEF Invoke, At, TypeInv, TypeOK
  <2>2. /\ calls'[c].op = "complete"
        /\ calls'[c].klass = calls[c].klass
        /\ calls'[c].at = "health"
        /\ \A d \in Caller \ {c} : calls'[d] = calls[d]
        /\ ledger' = ledger
        /\ invoked' = invoked + 1
    BY <1>2, <2>1 DEF Invoke, Goto, At, TypeInv, TypeOK, Call
  <2>3. Asking' = Asking \ {c} /\ c \in Asking
    BY <2>1, <2>2 DEF Asking, At
  <2>4. Cardinality(Asking') = Cardinality(Asking) - 1
    BY <2>3, FiniteAsking, FS_RemoveElement
  <2>5. CompletesAskModel'
    BY <2>1, <2>2 DEF ModelInv, CompletesAskModel, At
  <2>6. ModelSpends' = ModelSpends
    BY <2>2 DEF ModelSpends
  <2>7. QED
    BY <2>2, <2>4, <2>5, <2>6, FiniteAsking DEF ModelInv, TypeInv, TypeOK
<1>3. ASSUME NEW c \in Caller, NEW call \in Call, Enter(c, call),
             call.op = "complete" => call.klass = Model, call.at # "invoke"
      PROVE  ModelInv'
  <2>1. CompletesAskModel'
    BY <1>3 DEF Enter, ModelInv, CompletesAskModel, TypeInv, TypeOK
  <2>2. Asking' \subseteq Asking
    BY <1>3 DEF Enter, Asking, At, TypeInv, TypeOK
  <2>3. invoked' = invoked /\ ledger' = ledger
    BY <1>3 DEF Enter
  <2>4. QED
    BY <2>1, <2>2, <2>3, ModelQuiet
<1>4. ASSUME NEW c \in Caller, NEW k \in Class, NEW s \in Scope, NEW n \in Nonce,
             NEW t \in Text, BeginSign(c, k, s, n, t) \/ BeginAttest(c, k, s, n, t)
      PROVE  ModelInv'
  <2>1. PICK step \in {"reserve", "board"} : Enter(c, Request(k, s, n, t, step))
    BY <1>4 DEF BeginSign, BeginAttest
  <2>2. Request(k, s, n, t, step) \in Call
    BY GatewayAssumption DEF Request, Call, Kind, Ring
  <2>3. QED
    BY <1>3, <2>1, <2>2 DEF Request
<1>5. ASSUME NEW c \in Caller, BeginComplete(c)
      PROVE  ModelInv'
  <2> DEFINE call == [op |-> "complete", at |-> "reserve", klass |-> Model,
                      scope |-> NoScope, nonce |-> 0, text |-> NoText, serial |-> 0,
                      line |-> 0, ring |-> <<>>]
  <2>1. call \in Call /\ call.klass = Model /\ call.at = "reserve"
    BY GatewayAssumption DEF Call, Kind, Ring
  <2>2. Enter(c, call)
    BY <1>5 DEF BeginComplete
  <2> HIDE DEF call
  <2>3. QED
    BY <1>3, <2>1, <2>2
<1>6. ASSUME NEW c \in Caller, BeginNote(c)
      PROVE  ModelInv'
  <2> DEFINE call == [op |-> "note", at |-> "check", klass |-> NoClass,
                      scope |-> NoScope, nonce |-> 0, text |-> NoText, serial |-> 0,
                      line |-> noted + 1, ring |-> <<>>]
  <2>1. noted + 1 \in Line
    BY <1>6, GatewayAssumption DEF BeginNote, TypeInv, TypeOK, Line
  <2>2. call \in Call /\ call.op = "note" /\ call.at = "check"
    BY <2>1, GatewayAssumption DEF Call, Kind, Ring
  <2>3. Enter(c, call)
    BY <1>6 DEF BeginNote
  <2> HIDE DEF call
  <2>4. QED
    BY <1>3, <2>2, <2>3
<1>7. ASSUME NEW c \in Caller, calls[c] \in Call,
             calls' = [calls EXCEPT ![c] = calls'[c]],
             \/ calls'[c] = Idle
             \/ /\ calls[c] # Idle
                /\ calls'[c].op = calls[c].op
                /\ calls'[c].op = "complete" =>
                     calls'[c].klass = calls[c].klass /\ calls'[c].at # "invoke",
             invoked' = invoked, ledger' = ledger
      PROVE  ModelInv'
  <2>1. \A d \in Caller \ {c} : calls'[d] = calls[d]
    BY <1>7 DEF TypeInv, TypeOK
  <2>2. CompletesAskModel'
    BY <1>7, <2>1 DEF ModelInv, CompletesAskModel
  <2>3. Asking' \subseteq Asking
    BY <1>7, <2>1 DEF Asking, At
  <2>4. QED
    BY <1>7, <2>2, <2>3, ModelQuiet
<1>8. ASSUME NEW c \in Caller, Return(c), calls[c] # Idle,
             invoked' = invoked, ledger' = ledger
      PROVE  ModelInv'
  BY <1>7, <1>8 DEF Return, TypeInv, TypeOK
<1>9. ASSUME NEW c \in Caller, NEW step, Goto(c, step), calls[c] # Idle,
             step # "invoke", invoked' = invoked, ledger' = ledger
      PROVE  ModelInv'
  <2>1. calls[c] \in Call
    BY <1>9 DEF TypeInv, TypeOK
  <2>2. /\ calls' = [calls EXCEPT ![c] = calls'[c]]
        /\ calls'[c].op = calls[c].op
        /\ calls'[c].klass = calls[c].klass
        /\ calls'[c].at = step
    BY <1>9, <2>1 DEF Goto, TypeInv, TypeOK, Call
  <2>3. QED
    BY <1>7, <1>9, <2>1, <2>2
<1>10. ASSUME NEW c \in Caller,
              \/ \E reads \in BOOLEAN : ReadBoard(c, reads)
              \/ \E reads \in BOOLEAN, fits \in 1 .. MaxRing : ReadRing(c, reads, fits)
       PROVE  ModelInv'
  <2>1. calls[c] \in Call /\ calls[c] # Idle /\ calls[c].op # "complete"
    BY <1>10 DEF ReadBoard, ReadRing, At, TypeInv, TypeOK
  <2>2. calls' = [calls EXCEPT ![c] = calls'[c]] /\ calls'[c].op = calls[c].op
    BY <1>10, <2>1 DEF ReadBoard, ReadRing, TypeInv, TypeOK, Call
  <2>3. invoked' = invoked /\ ledger' = ledger
    BY <1>10 DEF ReadBoard, ReadRing
  <2>4. QED
    BY <1>7, <2>1, <2>2, <2>3
<1>11. ASSUME NEW c \in Caller,
              \/ Gated(c) \/ SignMessage(c) \/ PublishHealth(c) \/ SignRing(c) \/ Evict(c)
              \/ \E b \in BOOLEAN : CheckLive(c, b) \/ WriteRing(c, b)
       PROVE  ModelInv'
  <2>1. calls[c] # Idle /\ invoked' = invoked /\ ledger' = ledger
    BY <1>11 DEF Gated, SignMessage, PublishHealth, SignRing, Evict, CheckLive,
       WriteRing, At
  <2>2. Return(c) \/ \E step \in {"health", "read", "write"} : Goto(c, step)
    BY <1>11 DEF Gated, SignMessage, PublishHealth, SignRing, Evict, CheckLive, WriteRing
  <2>3. QED
    BY <1>8, <1>9, <2>1, <2>2
<1>12. CASE \/ \E b \in Posts : Post(b)
            \/ \E g \in Grants : Steer(g)
            \/ Overwrite
            \/ UNCHANGED all
  <2>1. UNCHANGED <<calls, invoked, ledger>>
    BY <1>12 DEF Post, Steer, Install, Overwrite
  <2>2. CompletesAskModel' /\ Asking' = Asking
    BY <2>1 DEF ModelInv, CompletesAskModel, Asking, At
  <2>3. QED
    BY <2>1, <2>2, ModelQuiet
<1>13. QED
  BY <1>1, <1>2, <1>4, <1>5, <1>6, <1>10, <1>11, <1>12 DEF GatewayNext, Step

\* The model is never asked more often than was reserved.
THEOREM ModelCallsPaid == GatewaySpec => []ModelCallsArePaid
<1>1. TypeInv /\ ModelInv => ModelCallsArePaid
  BY FiniteAsking DEF ModelInv, ModelCallsArePaid, ModelSpends, TypeInv, TypeOK
<1>2. QED
  BY <1>1, TypeInit, TypeStep, PaidInit, PaidStep, ModelInit, ModelStep, PTL
     DEF GatewaySpec

-----------------------------------------------------------------------------
(* The activity ring.                                                      *)

Noting(c) == calls[c] # Idle /\ calls[c].op = "note"

\* A line no ring can hold yet: its call has not read the slot.
Unread(c) == Noting(c) /\ calls[c].at \in {"check", "read"}

In(line, r) == \E i \in 1 .. Len(r) : r[i] = line

Distinct(r) == \A i, j \in 1 .. Len(r) : i # j => r[i] # r[j]

\* What RingsAreOurs says of one ring.
Sound(r) ==
  /\ Len(r) \in 1 .. MaxRing
  /\ \A i \in 1 .. Len(r) : r[i] \in 1 .. noted
  /\ Distinct(r)

\* Each call of noteActivity has a line of its own, handed to it when it began.
OwnLines ==
  /\ \A c \in Caller : Noting(c) =>
       /\ calls[c].at \in {"check", "read", "key", "write"}
       /\ calls[c].line \in 1 .. noted
  /\ \A c, d \in Caller : Noting(c) /\ Noting(d) /\ c # d => calls[c].line # calls[d].line

\* What was signed, what is about to be, and what the slot holds of ours.
RingsSound ==
  /\ \A r \in rings : Sound(r)
  /\ \A c \in Caller : Noting(c) /\ calls[c].at = "key" => Sound(calls[c].ring)
  /\ \A c \in Caller : Noting(c) /\ calls[c].at = "write" => calls[c].ring \in rings
  /\ feed.ours => feed.lines \in rings

\* The line of a call that has not read the slot is in no ring.
UnreadAreNew ==
  \A c \in Caller : Unread(c) =>
    /\ \A r \in rings : ~In(calls[c].line, r)
    /\ \A d \in Caller : Noting(d) /\ calls[d].at = "key" =>
         ~In(calls[c].line, calls[d].ring)

RingInv == TypeInv /\ OwnLines /\ RingsSound /\ UnreadAreNew

\* Fit keeps an end of the prior ring with the new line behind it.
LEMMA FitIsSuffix ==
  ASSUME NEW prior \in Ring, NEW line \in Line, NEW fits \in 1 .. MaxRing
  PROVE  \E k \in 0 .. Len(prior) :
           /\ Len(Fit(prior, line, fits)) = Len(prior) + 1 - k
           /\ \A i \in 1 .. Len(prior) + 1 - k :
                Fit(prior, line, fits)[i] = IF i + k <= Len(prior) THEN prior[i + k] ELSE line
<1> DEFINE ring == Append(prior, line)
<1>1. ring \in Seq(Line) /\ Len(ring) = Len(prior) + 1 /\ Len(prior) \in Nat
  BY DEF Ring
<1>2. \A i \in 1 .. Len(prior) + 1 : ring[i] = IF i <= Len(prior) THEN prior[i] ELSE line
  BY DEF Ring
<1>3. CASE Len(ring) <= fits
  <2>1. Fit(prior, line, fits) = ring
    BY <1>3 DEF Fit
  <2> HIDE DEF ring
  <2>2. 0 \in 0 .. Len(prior)
    BY <1>1
  <2>3. QED
    BY <1>1, <1>2, <2>1, <2>2
<1>4. CASE ~(Len(ring) <= fits)
  <2> DEFINE k == Len(ring) - fits
             cut == SubSeq(ring, k + 1, Len(ring))
  <2>1. Fit(prior, line, fits) = cut
    BY <1>4 DEF Fit
  <2> HIDE DEF ring
  <2>2. k \in 0 .. Len(prior)
    BY <1>1, <1>4, GatewayAssumption
  <2>3. Len(cut) = Len(prior) + 1 - k
    BY <1>1, <1>4, GatewayAssumption
  <2>4. \A i \in 1 .. Len(prior) + 1 - k : cut[i] = ring[i + k]
    BY <1>1, <1>4, GatewayAssumption
  <2>5. \A i \in 1 .. Len(prior) + 1 - k : i + k \in 1 .. Len(prior) + 1
    BY <1>1, <2>2
  <2>6. \A i \in 1 .. Len(prior) + 1 - k :
          cut[i] = IF i + k <= Len(prior) THEN prior[i + k] ELSE line
    BY <1>2, <2>4, <2>5
  <2> HIDE DEF k, cut
  <2>7. QED
    BY <2>1, <2>2, <2>3, <2>6
<1>5. QED
  BY <1>3, <1>4

\* If the prior ring is sound and the line is not in it, the fitted ring is sound
\* and holds nothing else.
LEMMA FitSound ==
  ASSUME NEW prior \in Ring, NEW line \in Line, NEW fits \in 1 .. MaxRing,
         noted \in Nat, line \in 1 .. noted,
         prior = <<>> \/ Sound(prior), ~In(line, prior)
  PROVE  /\ Sound(Fit(prior, line, fits))
         /\ \A l : In(l, Fit(prior, line, fits)) => l = line \/ In(l, prior)
<1> DEFINE fit == Fit(prior, line, fits)
<1>1. PICK k \in 0 .. Len(prior) :
        /\ Len(fit) = Len(prior) + 1 - k
        /\ \A i \in 1 .. Len(prior) + 1 - k :
             fit[i] = IF i + k <= Len(prior) THEN prior[i + k] ELSE line
  BY FitIsSuffix
<1>2. fit \in Ring /\ Len(fit) >= 1
  BY FitType
<1>3. Len(prior) \in Nat /\ Len(fit) \in 1 .. MaxRing
  BY <1>2, GatewayAssumption DEF Ring
<1> HIDE DEF fit
<1>4. /\ \A i \in 1 .. Len(prior) : prior[i] \in 1 .. noted /\ prior[i] # line
      /\ Distinct(prior)
  <2>1. CASE prior = <<>>
    BY <2>1 DEF Distinct
  <2>2. CASE Sound(prior)
    BY <2>2 DEF Sound, In
  <2>3. QED
    BY <2>1, <2>2
<1>5. \A i \in 1 .. Len(fit) : fit[i] \in 1 .. noted
  <2> SUFFICES ASSUME NEW i \in 1 .. Len(fit) PROVE fit[i] \in 1 .. noted
    OBVIOUS
  <2>1. fit[i] = IF i + k <= Len(prior) THEN prior[i + k] ELSE line
    BY <1>1, <1>3
  <2>2. CASE i + k <= Len(prior)
    <3>1. i + k \in 1 .. Len(prior)
      BY <1>1, <1>3, <2>2
    <3>2. QED
      BY <1>4, <2>1, <2>2, <3>1
  <2>3. QED
    BY <2>1, <2>2
<1>6. Distinct(fit)
  <2> SUFFICES ASSUME NEW i \in 1 .. Len(fit), NEW j \in 1 .. Len(fit), i < j
               PROVE  fit[i] # fit[j]
    BY <1>3 DEF Distinct
  <2>1. i + k \in 1 .. Len(prior) /\ fit[i] = prior[i + k]
    BY <1>1, <1>3
  <2>2. CASE j + k <= Len(prior)
    <3>1. j + k \in 1 .. Len(prior) /\ fit[j] = prior[j + k] /\ i + k # j + k
      BY <1>1, <1>3, <2>2
    <3>2. QED
      BY <2>1, <3>1, <1>4 DEF Distinct
  <2>3. CASE ~(j + k <= Len(prior))
    BY <1>1, <1>3, <1>4, <2>1, <2>3
  <2>4. QED
    BY <2>2, <2>3
<1>7. \A l : In(l, fit) => l = line \/ In(l, prior)
  <2> SUFFICES ASSUME NEW i \in 1 .. Len(fit), fit[i] # line
               PROVE  In(fit[i], prior)
    BY DEF In
  <2>1. i + k \in 1 .. Len(prior) /\ fit[i] = prior[i + k]
    BY <1>1, <1>3
  <2>2. QED
    BY <2>1 DEF In
<1>8. QED
  BY <1>3, <1>5, <1>6, <1>7 DEF Sound, fit

LEMMA RingInit == GatewayInit => RingInv
<1> SUFFICES ASSUME GatewayInit PROVE RingInv
  OBVIOUS
<1>1. \A c \in Caller : ~Noting(c)
  BY DEF GatewayInit, Noting
<1>2. rings = {} /\ feed.ours = FALSE
  BY DEF GatewayInit
<1>3. QED
  BY <1>1, <1>2, TypeInit DEF RingInv, OwnLines, RingsSound, UnreadAreNew, Unread

\* A step that signs and begins no ring: the call it is of, if it notes still,
\* keeps its line and its ring, and the slot gets nothing of ours but a signed ring.
LEMMA RingQuiet ==
  ASSUME RingInv, TypeInv', NEW c \in Caller,
         \A d \in Caller \ {c} : calls'[d] = calls[d],
         noted' = noted, rings' = rings,
         feed'.ours => feed'.lines \in rings,
         Noting(c)' => /\ Noting(c)
                       /\ calls'[c].line = calls[c].line
                       /\ calls'[c].ring = calls[c].ring
                       /\ \/ calls'[c].at = calls[c].at
                          \/ calls[c].at = "check" /\ calls'[c].at = "read"
  PROVE  RingInv'
<1>1. \A r : Sound(r)' <=> Sound(r)
  BY DEF Sound
<1>2. \A d \in Caller : calls'[d] # Idle /\ calls'[d].op = "note" =>
        /\ Noting(d)
        /\ calls'[d].line = calls[d].line
        /\ calls'[d].ring = calls[d].ring
        /\ \/ calls'[d].at = calls[d].at
           \/ calls[d].at = "check" /\ calls'[d].at = "read"
  BY DEF Noting
<1>3. OwnLines'
  BY <1>2 DEF RingInv, OwnLines, Noting
<1>4. RingsSound'
  BY <1>1, <1>2 DEF RingInv, RingsSound, Noting
<1>5. UnreadAreNew'
  BY <1>2 DEF RingInv, UnreadAreNew, Unread, Noting
<1>6. QED
  BY <1>3, <1>4, <1>5 DEF RingInv

LEMMA RingBeginNote ==
  ASSUME RingInv, TypeInv', NEW c \in Caller, BeginNote(c)
  PROVE  RingInv'
<1>1. /\ noted \in Nat /\ noted' = noted + 1
      /\ rings' = rings /\ feed' = feed
      /\ calls[c] = Idle
      /\ \A d \in Caller \ {c} : calls'[d] = calls[d]
  BY DEF BeginNote, Enter, RingInv, TypeInv, TypeOK, history
<1>2. /\ calls'[c].op = "note" /\ calls'[c].at = "check"
      /\ calls'[c].line = noted + 1
  BY DEF BeginNote, Enter, RingInv, TypeInv, TypeOK
<1>3. \A r : Sound(r) => Sound(r)' /\ ~In(noted + 1, r)
  BY <1>1 DEF Sound, In
<1>4. OwnLines'
  <2>1. ASSUME NEW d \in Caller, Noting(d)'
        PROVE  calls'[d].at \in {"check", "read", "key", "write"} /\ calls'[d].line \in 1 .. noted'
    BY <1>1, <1>2, <2>1 DEF RingInv, OwnLines, Noting
  <2>2. ASSUME NEW d \in Caller, NEW e \in Caller, Noting(d)', Noting(e)', d # e
        PROVE  calls'[d].line # calls'[e].line
    BY <1>1, <1>2, <2>2 DEF RingInv, OwnLines, Noting
  <2>3. QED
    BY <2>1, <2>2 DEF OwnLines
<1>5. RingsSound'
  BY <1>1, <1>2, <1>3 DEF RingInv, RingsSound, Noting
<1>6. UnreadAreNew'
  BY <1>1, <1>2, <1>3 DEF RingInv, RingsSound, UnreadAreNew, Unread, Noting
<1>7. QED
  BY <1>4, <1>5, <1>6 DEF RingInv

LEMMA RingRead ==
  ASSUME RingInv, TypeInv', NEW c \in Caller, NEW reads \in BOOLEAN,
         NEW fits \in 1 .. MaxRing, ReadRing(c, reads, fits)
  PROVE  RingInv'
<1> DEFINE prior == IF reads THEN OwnRing ELSE <<>>
           line == calls[c].line
           ring == Fit(prior, line, fits)
<1>1. calls[c] \in Call /\ Unread(c) /\ Noting(c) /\ noted \in Nat
  BY DEF ReadRing, At, Unread, Noting, RingInv, TypeInv, TypeOK
<1>2. line \in Line /\ line \in 1 .. noted
  BY <1>1 DEF RingInv, OwnLines, TypeInv, LinesTyped, Noting
<1>3. prior = <<>> \/ prior \in rings
  BY DEF OwnRing, RingInv, RingsSound
<1>4. prior \in Ring
  BY GatewayAssumption DEF OwnRing, Ring, RingInv, TypeInv, TypeOK
<1>5. (prior = <<>> \/ Sound(prior)) /\ ~In(line, prior)
  <2>1. CASE prior = <<>>
    BY <2>1 DEF In
  <2>2. CASE prior \in rings
    BY <1>1, <2>2 DEF RingInv, RingsSound, UnreadAreNew
  <2>3. QED
    BY <1>3, <2>1, <2>2
<1> HIDE DEF prior, line
<1>6. Sound(ring) /\ \A l : In(l, ring) => l = line \/ In(l, prior)
  BY <1>1, <1>2, <1>4, <1>5, FitSound
<1>7. rings' = rings /\ feed' = feed /\ noted' = noted
  BY DEF ReadRing, counts, history
<1>8. /\ calls'[c].op = "note" /\ calls'[c].at = "key"
      /\ calls'[c].ring = ring /\ calls'[c].line = line
      /\ \A d \in Caller \ {c} : calls'[d] = calls[d]
  <2>1. calls' = [calls EXCEPT ![c].at = "key", ![c].ring = ring]
    BY DEF ReadRing, prior, line
  <2> HIDE DEF ring
  <2>2. calls'[c] \in Call \cup {Idle}
    BY DEF TypeInv, TypeOK
  <2>3. QED
    BY <1>1, <2>1, <2>2 DEF Noting, RingInv, TypeInv, TypeOK, Call, line
<1> HIDE DEF ring
<1>9. \A r : Sound(r)' <=> Sound(r)
  BY <1>7 DEF Sound
<1>10. OwnLines'
  BY <1>1, <1>7, <1>8 DEF RingInv, OwnLines, Noting, line
<1>11. RingsSound'
  BY <1>6, <1>7, <1>8, <1>9 DEF RingInv, RingsSound, Noting
<1>12. UnreadAreNew'
  <2> SUFFICES ASSUME NEW d \in Caller, Unread(d)'
               PROVE  /\ \A r \in rings : ~In(calls'[d].line, r)
                      /\ \A e \in Caller : calls'[e] # Idle /\ calls'[e].op = "note"
                                           /\ calls'[e].at = "key"
                           => ~In(calls'[d].line, calls'[e].ring)
    BY <1>7 DEF UnreadAreNew, Noting
  <2>1. d # c /\ calls'[d] = calls[d] /\ Unread(d)
    BY <1>8 DEF Unread, Noting
  <2>2. calls[d].line # line
    BY <1>1, <2>1 DEF RingInv, OwnLines, Unread, line
  <2>3. \A r \in rings : ~In(calls[d].line, r)
    BY <2>1 DEF RingInv, UnreadAreNew
  <2>4. ~In(calls[d].line, ring)
    <3>1. ~In(calls[d].line, prior)
      BY <1>3, <2>3 DEF In
    <3>2. QED
      BY <1>6, <2>2, <3>1
  <2>5. ASSUME NEW e \in Caller \ {c}, Noting(e), calls[e].at = "key"
        PROVE  ~In(calls[d].line, calls[e].ring)
    BY <2>1, <2>5 DEF RingInv, UnreadAreNew
  <2>6. QED
    BY <1>8, <2>1, <2>3, <2>4, <2>5 DEF Noting
<1>13. QED
  BY <1>10, <1>11, <1>12 DEF RingInv

LEMMA RingSign ==
  ASSUME RingInv, TypeInv', NEW c \in Caller, SignRing(c)
  PROVE  RingInv'
<1>1. calls[c] \in Call /\ Noting(c) /\ calls[c].at = "key"
  BY DEF SignRing, At, Noting, RingInv, TypeInv, TypeOK
<1>2. /\ rings' = rings \cup {calls[c].ring} /\ feed' = feed /\ noted' = noted
      /\ \A d \in Caller \ {c} : calls'[d] = calls[d]
  BY DEF SignRing, Goto, counts, RingInv, TypeInv, TypeOK
<1>3. /\ calls'[c].op = "note" /\ calls'[c].at = "write"
      /\ calls'[c].ring = calls[c].ring /\ calls'[c].line = calls[c].line
  BY <1>1 DEF SignRing, Goto, Noting, RingInv, TypeInv, TypeOK, Call
<1>4. \A r : Sound(r)' <=> Sound(r)
  BY <1>2 DEF Sound
<1>5. Sound(calls[c].ring)
  BY <1>1 DEF RingInv, RingsSound
<1>6. OwnLines'
  BY <1>1, <1>2, <1>3 DEF RingInv, OwnLines, Noting
<1>7. RingsSound'
  BY <1>2, <1>3, <1>4, <1>5 DEF RingInv, RingsSound, Noting
<1>8. UnreadAreNew'
  BY <1>1, <1>2, <1>3 DEF RingInv, UnreadAreNew, Unread, Noting
<1>9. QED
  BY <1>6, <1>7, <1>8 DEF RingInv

LEMMA RingStep == RingInv /\ TypeInv' /\ [GatewayNext]_all => RingInv'
<1> SUFFICES ASSUME RingInv, TypeInv', [GatewayNext]_all PROVE RingInv'
  OBVIOUS
<1>1. TypeInv /\ OwnLines /\ (feed.ours => feed.lines \in rings)
  BY DEF RingInv, RingsSound
<1>2. ASSUME NEW c \in Caller, NEW call, Enter(c, call), call.op # "note", noted' = noted
      PROVE  RingInv'
  <2>1. /\ \A d \in Caller \ {c} : calls'[d] = calls[d]
        /\ ~Noting(c)' /\ rings' = rings /\ feed' = feed
    BY <1>1, <1>2 DEF Enter, history, Noting, TypeInv, TypeOK
  <2>2. QED
    BY <1>1, <1>2, <2>1, RingQuiet
<1>3. ASSUME NEW c \in Caller, Return(c), noted' = noted, rings' = rings,
             feed'.ours => feed'.lines \in rings
      PROVE  RingInv'
  <2>1. (\A d \in Caller \ {c} : calls'[d] = calls[d]) /\ ~Noting(c)'
    BY <1>1, <1>3 DEF Return, Noting, TypeInv, TypeOK
  <2>2. QED
    BY <1>3, <2>1, RingQuiet
\* A step of a call that is not one of noteActivity.
<1>4. ASSUME NEW c \in Caller, ~Noting(c), calls[c] # Idle,
             calls' = [calls EXCEPT ![c] = calls'[c]], calls'[c].op = calls[c].op,
             noted' = noted, rings' = rings, feed' = feed
      PROVE  RingInv'
  <2>1. (\A d \in Caller \ {c} : calls'[d] = calls[d]) /\ ~Noting(c)'
    BY <1>1, <1>4 DEF Noting, TypeInv, TypeOK
  <2>2. QED
    BY <1>1, <1>4, <2>1, RingQuiet
<1>5. ASSUME NEW c \in Caller, NEW step, Goto(c, step), ~Noting(c), calls[c] # Idle,
             noted' = noted, rings' = rings, feed' = feed
      PROVE  RingInv'
  <2>1. calls[c] \in Call
    BY <1>1, <1>5 DEF TypeInv, TypeOK
  <2>2. calls' = [calls EXCEPT ![c] = calls'[c]] /\ calls'[c].op = calls[c].op
    BY <1>1, <1>5, <2>1 DEF Goto, TypeInv, TypeOK, Call
  <2>3. QED
    BY <1>4, <1>5, <2>2
<1>6. ASSUME NEW c \in Caller,
             \/ \E k \in Class, s \in Scope, n \in Nonce, t \in Text :
                  BeginSign(c, k, s, n, t) \/ BeginAttest(c, k, s, n, t)
             \/ BeginComplete(c)
      PROVE  RingInv'
  <2>1. \E call : Enter(c, call) /\ call.op # "note"
    <3>1. CASE BeginComplete(c)
      BY <3>1 DEF BeginComplete
    <3>2. ASSUME NEW k \in Class, NEW s \in Scope, NEW n \in Nonce, NEW t \in Text,
                 BeginSign(c, k, s, n, t) \/ BeginAttest(c, k, s, n, t)
          PROVE  \E call : Enter(c, call) /\ call.op # "note"
      <4>1. PICK step : Enter(c, Request(k, s, n, t, step))
        BY <3>2 DEF BeginSign, BeginAttest
      <4>2. Request(k, s, n, t, step).op = "sign"
        BY DEF Request
      <4>3. QED
        BY <4>1, <4>2
    <3>3. QED
      BY <1>6, <3>1, <3>2
  <2>2. noted' = noted
    BY <1>6 DEF BeginSign, BeginAttest, BeginComplete, counts
  <2>3. QED
    BY <1>2, <2>1, <2>2
<1>7. ASSUME NEW c \in Caller, NEW reads \in BOOLEAN, ReadBoard(c, reads)
      PROVE  RingInv'
  <2>1. calls[c] \in Call /\ calls[c] # Idle /\ ~Noting(c)
    BY <1>1, <1>7 DEF ReadBoard, At, Noting, TypeInv, TypeOK
  <2>2. calls' = [calls EXCEPT ![c] = calls'[c]] /\ calls'[c].op = calls[c].op
    BY <1>1, <1>7, <2>1 DEF ReadBoard, TypeInv, TypeOK, Call
  <2>3. noted' = noted /\ rings' = rings /\ feed' = feed
    BY <1>7 DEF ReadBoard, counts, history
  <2>4. QED
    BY <1>4, <2>1, <2>2, <2>3
<1>8. ASSUME NEW c \in Caller, NEW w \in Time, Reserve(c, w)
      PROVE  RingInv'
  <2>1. calls[c] \in Call /\ calls[c] # Idle /\ ~Noting(c)
    BY <1>1, <1>8 DEF Reserve, OwnLines, Noting, TypeInv, TypeOK
  <2>2. calls' = [calls EXCEPT ![c] = calls'[c]] /\ calls'[c].op = calls[c].op
    BY <1>1, <1>8, <2>1 DEF Reserve, TypeInv, TypeOK, Call
  <2>3. noted' = noted /\ rings' = rings /\ feed' = feed
    BY <1>8 DEF Reserve, counts, history
  <2>4. QED
    BY <1>4, <2>1, <2>2, <2>3
<1>9. ASSUME NEW c \in Caller, Gated(c) \/ \E answered \in BOOLEAN : Invoke(c, answered)
      PROVE  RingInv'
  <2>1. calls[c] # Idle /\ ~Noting(c)
    BY <1>1, <1>9 DEF Gated, Invoke, At, OwnLines, Noting
  <2>2. Return(c) \/ Goto(c, "health")
    BY <1>9 DEF Gated, Invoke
  <2>3. noted' = noted /\ rings' = rings /\ feed' = feed
    BY <1>9 DEF Gated, Invoke, counts, history
  <2>4. QED
    BY <1>1, <1>3, <1>5, <2>1, <2>2, <2>3
<1>10. ASSUME NEW c \in Caller, SignMessage(c) \/ PublishHealth(c) \/ Evict(c)
       PROVE  RingInv'
  <2>1. Return(c) /\ noted' = noted /\ rings' = rings /\ feed' = feed
    BY <1>10 DEF SignMessage, PublishHealth, Evict, counts, history
  <2>2. QED
    BY <1>1, <1>3, <2>1
<1>11. ASSUME NEW c \in Caller, NEW ok \in BOOLEAN, CheckLive(c, ok)
       PROVE  RingInv'
  <2>1. noted' = noted /\ rings' = rings /\ feed' = feed
    BY <1>11 DEF CheckLive, counts, history
  <2>2. CASE Return(c)
    BY <1>1, <1>3, <2>1, <2>2
  <2>3. CASE Goto(c, "read")
    <3>1. calls[c] \in Call /\ Noting(c) /\ calls[c].at = "check"
      BY <1>1, <1>11 DEF CheckLive, At, Noting, TypeInv, TypeOK
    <3>2. /\ \A d \in Caller \ {c} : calls'[d] = calls[d]
          /\ calls'[c].line = calls[c].line
          /\ calls'[c].ring = calls[c].ring
          /\ calls'[c].at = "read"
      BY <1>1, <2>3, <3>1 DEF Goto, TypeInv, TypeOK, Call
    <3>3. QED
      BY <1>1, <2>1, <3>1, <3>2, RingQuiet
  <2>4. QED
    BY <1>11, <2>2, <2>3 DEF CheckLive
<1>12. ASSUME NEW c \in Caller, NEW kept \in BOOLEAN, WriteRing(c, kept)
       PROVE  RingInv'
  <2>1. calls[c].ring \in rings
    BY <1>12 DEF WriteRing, At, Noting, RingInv, RingsSound
  <2>2. Return(c) /\ noted' = noted /\ rings' = rings /\ (feed'.ours => feed'.lines \in rings)
    BY <1>1, <1>12, <2>1 DEF WriteRing, counts, history
  <2>3. QED
    BY <1>3, <2>2
<1>13. CASE \/ \E b \in Posts : Post(b)
            \/ \E g \in Grants : Steer(g)
            \/ Overwrite
            \/ UNCHANGED all
  <2>1. calls' = calls /\ noted' = noted /\ rings' = rings
    BY <1>13 DEF Post, Steer, Overwrite, all, gateway, counts, history
  <2>2. feed'.ours => feed'.lines \in rings
    BY <1>1, <1>13 DEF Post, Steer, Overwrite, all, gateway
  <2>3. ASSUME NEW c \in Caller
        PROVE  RingInv'
    BY <2>1, <2>2, RingQuiet DEF Noting
  <2>4. CASE Caller = {}
    <3>1. \A r : Sound(r)' <=> Sound(r)
      BY <2>1 DEF Sound
    <3>2. QED
      BY <2>1, <2>2, <2>4, <3>1 DEF RingInv, OwnLines, RingsSound, UnreadAreNew
  <2>5. QED
    BY <2>3, <2>4
<1>14. QED
  BY <1>6, <1>7, <1>8, <1>9, <1>10, <1>11, <1>12, <1>13,
     RingBeginNote, RingRead, RingSign DEF GatewayNext, Step

\* A ring we sign holds our own lines only, none twice and no more than fit,
\* whoever wrote the slot in between and however the calls of noteActivity are
\* interleaved (readOwnActivityRing, fitActivityRing).
THEOREM RingsHoldOwnLines == GatewaySpec => []RingsAreOurs
<1>1. RingInv => RingsAreOurs
  BY DEF RingInv, RingsSound, Sound, Distinct, RingsAreOurs
<1>2. QED
  BY <1>1, RingInit, TypeInit, TypeStep, RingStep, PTL DEF GatewaySpec
=============================================================================
