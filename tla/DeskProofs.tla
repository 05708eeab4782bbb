---------------------------- MODULE DeskProofs ----------------------------
(***************************************************************************)
(* Theorems about the approvals and about what the human posts, for every   *)
(* set of requests, proposals, rooms, texts and threads and every clock;    *)
(* and about the two with the deploy, as MCDesk composes them.             *)
(***************************************************************************)
EXTENDS MCDesk, DeployProofs, FiniteSetTheorems

\* A nonce is above the last one, whatever the clock says.
LEMMA NonceRises ==
  ASSUME NEW last \in Nat \cup {None}, clock \in Nat
  PROVE  NextNonce(last) \in Nat /\ (last \in Nat => NextNonce(last) > last)
BY DeskAssumption DEF NextNonce

-----------------------------------------------------------------------------
(* The approvals.                                                          *)

DecideSteps == {"claim", "sign", "deliver", "record"}
Decidings ==
  [op : {"approve", "reject"}, at : DecideSteps, rid : Rid, item : Proposals,
   steer : Envelopes \cup {None}]

ItemsInv ==
  /\ clock \in Nat
  /\ thread \in [Thread -> Decidings \cup {Idle}]
  /\ pending \in [Rid -> Proposals \cup {None}]
  /\ decided \in [Rid -> Decisions \cup {None}]
  /\ steerNonce \in Nat \cup {None}
  /\ answered \subseteq Rid
  /\ \A c \in cards : c.rid \in Rid
  /\ \A x \in signed : x.rid \in Rid /\ x.steer \in Envelopes

\* A request that won its claim.
Past(t) == thread[t] # Idle /\ thread[t].at \in {"sign", "deliver", "record"}

\* What a request in progress has signed, or not yet.
Undecided(r) == r \notin answered /\ \A x \in signed : x.rid # r

\* A request is claimed once and for all: it leaves pending/ for good, one thread
\* owns it, and until that thread records the outcome nothing else is known of it.
ClaimInv ==
  /\ \A r \in Rid : decided[r] # None => pending[r] = None
  /\ \A r \in Rid : decided[r] = None => Undecided(r)
  /\ \A t, u \in Thread : Past(t) /\ Past(u) /\ thread[t].rid = thread[u].rid => t = u
  /\ \A t \in Thread : Past(t) =>
       /\ decided[thread[t].rid] # None /\ decided[thread[t].rid].outcome = "claimed"
       /\ thread[t].rid \notin answered
       /\ thread[t].op = "reject" \/ thread[t].at = "sign" => Undecided(thread[t].rid)
       /\ thread[t].op = "reject" => thread[t].at = "record"
       /\ thread[t].op = "approve" /\ thread[t].at # "sign" =>
            [rid |-> thread[t].rid, item |-> thread[t].item, steer |-> thread[t].steer] \in signed
  /\ OneDecision
  /\ Accounted

\* What is approved was on a card, to the byte of what is signed.
ReadInv ==
  /\ \A c \in cards : Displayable(c.item)
  /\ \A t \in Thread : thread[t] # Idle /\ thread[t].op = "approve" =>
       \E c \in cards : c.rid = thread[t].rid /\ ActionString(c.item) = ActionString(thread[t].item)
  /\ \A x \in signed :
       /\ x.steer.action = ActionString(x.item)
       /\ \E c \in cards : c.rid = x.rid /\ ActionString(c.item) = ActionString(x.item)

\* What is on the wire was signed, and what verified is in the replay store.
WireInv ==
  /\ \A s \in wire : \E x \in signed : x.steer = s
  /\ \A a \in accepted : a.steer.nonce \in seenNonces
  /\ AcceptedAsSigned

\* While its file lives, the counter is above every nonce used.
SteerNonceInv ==
  ~steerLost =>
    /\ \A x \in signed : steerNonce \in Nat /\ x.steer.nonce <= steerNonce
    /\ NoncesNeverReused

ApprovalsInv == ItemsInv /\ ClaimInv /\ ReadInv /\ WireInv /\ SteerNonceInv
-----------------------------------------------------------------------------
(* Records and actions.                                                    *)

\* A thread at a step is a request at that step.
LEMMA AtIsRequest ==
  ASSUME ItemsInv, NEW t \in Thread, NEW step \in DecideSteps, At(t, step)
  PROVE  /\ thread[t] # Idle /\ thread[t] \in Decidings /\ thread[t].at = step
         /\ thread[t].rid \in Rid /\ thread[t].item \in Proposals
         /\ thread[t].op \in {"approve", "reject"} /\ thread[t].steer \in Envelopes \cup {None}
BY DEF ItemsInv, At, Decidings

Others(t) == \A u \in Thread \ {t} : thread'[u] = thread[u]

\* A thread that goes on keeps all but its place.
LEMMA GotoKeeps ==
  ASSUME ItemsInv, NEW t \in Thread, thread[t] # Idle, NEW step \in DecideSteps, Goto(t, step)
  PROVE  /\ thread' \in [Thread -> Decidings \cup {Idle}] /\ Others(t)
         /\ thread'[t].at = step /\ thread'[t].op = thread[t].op
         /\ thread'[t].rid = thread[t].rid /\ thread'[t].item = thread[t].item
         /\ thread'[t].steer = thread[t].steer
<1>1. thread[t] \in Decidings
  BY DEF ItemsInv
<1>2. [thread[t] EXCEPT !.at = step] \in Decidings
  BY <1>1 DEF Decidings
<1>3. QED
  BY <1>1, <1>2 DEF Goto, ItemsInv, Others, Decidings

LEMMA AnswerFrees ==
  ASSUME ItemsInv, NEW t \in Thread, Answer(t)
  PROVE  thread' \in [Thread -> Decidings \cup {Idle}] /\ Others(t) /\ thread'[t] = Idle
BY DEF Answer, ItemsInv, Others

\* Two actions with one action string are of one class: whatever the class
\* depends on is signed.
LEMMA ClassIsSigned ==
  ASSUME NEW p, NEW q, ActionString(p) = ActionString(q)
  PROVE  GrantClass(p, FALSE) = GrantClass(q, FALSE)
<1>1. p.verb = q.verb
  BY DEF ActionString
<1>2. p.verb = "ATTEST" => p.useful = q.useful
  BY <1>1 DEF ActionString
<1>3. p.verb = "NOTE_WRITE" => p.place = q.place
  BY <1>1 DEF ActionString, OnPlace
<1>4. QED
  BY <1>1, <1>2, <1>3 DEF GrantClass

\* A card shows the bytes that hash to what its action string binds.
LEMMA CardShowsHash ==
  ASSUME NEW p, Displayable(p), NEW shown \in Shown(p)
  PROVE  Digest(shown) = ActionString(p).hash \/ (p.verb = "RESULT" /\ p.hash # Nil)
<1>1. p.verb # "CLAIM" /\ shown = Str(p.content)
  BY DEF Shown
<1>2. ActionString(p).hash = BoundHash(p)
  BY DEF ActionString
<1>3. CASE p.verb = "ATTEST"
  BY <1>1, <1>2, <1>3 DEF Displayable, BoundHash, Str
<1>4. CASE p.verb # "ATTEST"
  BY <1>1, <1>2, <1>4 DEF BoundHash
<1>5. QED
  BY <1>3, <1>4

LEMMA DigestInjective ==
  ASSUME NEW a, NEW b, Digest(a) = Digest(b)
  PROVE  a = b
BY DEF Digest
-----------------------------------------------------------------------------
(* Steps.                                                                  *)

\* One thread asks, gives up, delivers or answers; nothing is claimed, signed
\* or recorded.
LEMMA ThreadStep ==
  ASSUME ApprovalsInv, NEW t \in Thread, thread' \in [Thread -> Decidings \cup {Idle}], Others(t),
         UNCHANGED <<clock, files, verifier, cards, signed, answered>>,
         \A s \in wire' : s \in wire \/ \E x \in signed : x.steer = s,
         Past(t)' => /\ Past(t)
                     /\ thread'[t].op = thread[t].op /\ thread'[t].rid = thread[t].rid
                     /\ thread'[t].item = thread[t].item /\ thread'[t].steer = thread[t].steer
                     /\ thread'[t].at = "record" /\ thread[t].at # "sign",
         thread'[t] # Idle /\ thread'[t].op = "approve" =>
           \E c \in cards : c.rid = thread'[t].rid
                          /\ ActionString(c.item) = ActionString(thread'[t].item)
  PROVE  ApprovalsInv'
<1> USE DEF files, verifier
<1>1. ItemsInv'
  BY DEF ApprovalsInv, ItemsInv
<1>2. \A u \in Thread \ {t} : thread'[u] = thread[u] /\ (Past(u)' <=> Past(u))
  BY DEF Others, Past
<1>3. ClaimInv'
  <2>1. OneDecision' /\ Accounted'
    BY DEF ApprovalsInv, ClaimInv, OneDecision, Accounted
  <2>2. \A u, v \in Thread : Past(u)' /\ Past(v)' /\ thread'[u].rid = thread'[v].rid => u = v
    BY <1>2 DEF ApprovalsInv, ClaimInv
  <2>3. ASSUME NEW u \in Thread, Past(u)'
        PROVE  /\ decided[thread'[u].rid] # None /\ decided[thread'[u].rid].outcome = "claimed"
               /\ thread'[u].rid \notin answered
               /\ thread'[u].op = "reject" \/ thread'[u].at = "sign" => Undecided(thread'[u].rid)
               /\ thread'[u].op = "reject" => thread'[u].at = "record"
               /\ thread'[u].op = "approve" /\ thread'[u].at # "sign" =>
                    [rid |-> thread'[u].rid, item |-> thread'[u].item, steer |-> thread'[u].steer]
                      \in signed
    <3>1. /\ Past(u) /\ thread'[u].op = thread[u].op /\ thread'[u].rid = thread[u].rid
          /\ thread'[u].item = thread[u].item /\ thread'[u].steer = thread[u].steer
      BY <1>2, <2>3
    <3>2. thread'[u].at = thread[u].at \/ (thread'[u].at = "record" /\ thread[u].at # "sign")
      BY <1>2, <2>3
    <3>3. /\ decided[thread[u].rid] # None /\ decided[thread[u].rid].outcome = "claimed"
          /\ thread[u].rid \notin answered
          /\ thread[u].op = "reject" \/ thread[u].at = "sign" => Undecided(thread[u].rid)
          /\ thread[u].op = "reject" => thread[u].at = "record"
          /\ thread[u].op = "approve" /\ thread[u].at # "sign" =>
               [rid |-> thread[u].rid, item |-> thread[u].item, steer |-> thread[u].steer]
                 \in signed
      BY <3>1 DEF ApprovalsInv, ClaimInv
    <3>4. QED
      BY <3>1, <3>2, <3>3
  <2>4. QED
    BY <2>1, <2>2, <2>3 DEF ApprovalsInv, ClaimInv, Undecided
<1>4. ReadInv'
  BY <1>2 DEF ApprovalsInv, ReadInv
<1>5. WireInv'
  BY DEF ApprovalsInv, WireInv, AcceptedAsSigned
<1>6. SteerNonceInv'
  BY DEF ApprovalsInv, SteerNonceInv, NoncesNeverReused
<1>7. QED
  BY <1>1, <1>3, <1>4, <1>5, <1>6 DEF ApprovalsInv

LEMMA ApproveStep == ASSUME ApprovalsInv, NEW t \in Thread, NEW c \in cards, Approve(t, c) PROVE ApprovalsInv'
<1> DEFINE r == Request("approve", c.rid)
<1>1. c.rid \in Rid /\ pending[c.rid] \in Proposals
  BY DEF ApprovalsInv, ItemsInv, Approve
<1>2. /\ r \in Decidings /\ r.at = "claim" /\ r.rid = c.rid /\ r.item = pending[c.rid]
  BY <1>1 DEF Request, Decidings, DecideSteps
<1>3. ActionString(c.item) = ActionString(r.item)
  BY <1>2, DigestInjective DEF Approve, ActionCommit
<1>4. thread' = [thread EXCEPT ![t] = r] /\ UNCHANGED <<clock, approvals>>
  BY DEF Approve
<1> HIDE DEF r
<1>5. thread' \in [Thread -> Decidings \cup {Idle}] /\ Others(t) /\ thread'[t] = r
  BY <1>2, <1>4 DEF ApprovalsInv, ItemsInv, Others
<1>6. ~Past(t)'
  BY <1>2, <1>5 DEF Past
<1>7. QED
  BY <1>2, <1>3, <1>4, <1>5, <1>6, ThreadStep DEF approvals

LEMMA RejectStep == ASSUME ApprovalsInv, NEW t \in Thread, NEW q \in Rid, Reject(t, q) PROVE ApprovalsInv'
<1> DEFINE r == Request("reject", q)
<1>1. pending[q] \in Proposals
  BY DEF ApprovalsInv, ItemsInv, Reject
<1>2. r \in Decidings /\ r.at = "claim" /\ r.op = "reject"
  BY <1>1 DEF Request, Decidings, DecideSteps
<1>3. thread' = [thread EXCEPT ![t] = r] /\ UNCHANGED <<clock, approvals>>
  BY DEF Reject
<1> HIDE DEF r
<1>4. thread' \in [Thread -> Decidings \cup {Idle}] /\ Others(t) /\ thread'[t] = r
  BY <1>2, <1>3 DEF ApprovalsInv, ItemsInv, Others
<1>5. ~Past(t)'
  BY <1>2, <1>4 DEF Past
<1>6. QED
  BY <1>2, <1>3, <1>4, <1>5, ThreadStep DEF approvals

LEMMA ClaimLostStep == ASSUME ApprovalsInv, NEW t \in Thread, ClaimLost(t) PROVE ApprovalsInv'
<1>1. Answer(t) /\ UNCHANGED <<clock, approvals>>
  BY DEF ClaimLost
<1>2. QED
  BY <1>1, AnswerFrees, ThreadStep DEF approvals, Past, ApprovalsInv

LEMMA DeliverStep ==
  ASSUME ApprovalsInv, NEW t \in Thread, NEW arrives \in BOOLEAN, NEW raises \in BOOLEAN,
         Deliver(t, arrives, raises)
  PROVE  ApprovalsInv'
<1>1. /\ thread[t] # Idle /\ thread[t].at = "deliver" /\ Past(t)
      /\ thread[t].op \in {"approve", "reject"}
  BY AtIsRequest DEF ApprovalsInv, Deliver, DecideSteps, Past
<1>2. thread[t].op = "approve"
  BY <1>1 DEF ApprovalsInv, ClaimInv
<1>3. \E x \in signed : x.steer = thread[t].steer
  <2> DEFINE x == [rid |-> thread[t].rid, item |-> thread[t].item, steer |-> thread[t].steer]
  <2>1. x \in signed
    BY <1>1, <1>2 DEF ApprovalsInv, ClaimInv
  <2>2. QED
    BY <2>1
<1>4. \A s \in wire' : s \in wire \/ \E x \in signed : x.steer = s
  BY <1>3 DEF Deliver
<1>5. UNCHANGED <<clock, files, verifier, cards, signed, answered>>
  BY DEF Deliver
<1>6. CASE Answer(t)
  BY <1>4, <1>5, <1>6, AnswerFrees, ThreadStep DEF Past, ApprovalsInv
<1>7. CASE Goto(t, "record")
  <2>1. /\ thread' \in [Thread -> Decidings \cup {Idle}] /\ Others(t)
        /\ thread'[t].at = "record" /\ thread'[t].op = thread[t].op
        /\ thread'[t].rid = thread[t].rid /\ thread'[t].item = thread[t].item
        /\ thread'[t].steer = thread[t].steer
    BY <1>1, <1>7, GotoKeeps DEF ApprovalsInv, DecideSteps
  <2>2. \E c \in cards : c.rid = thread[t].rid /\ ActionString(c.item) = ActionString(thread[t].item)
    BY <1>1, <1>2 DEF ApprovalsInv, ReadInv
  <2>3. QED
    BY <1>1, <1>4, <1>5, <2>1, <2>2, ThreadStep
<1>8. QED
  BY <1>6, <1>7 DEF Deliver

LEMMA ClaimStep == ASSUME ApprovalsInv, NEW t \in Thread, Claim(t) PROVE ApprovalsInv'
<1> DEFINE r == thread[t].rid
           to == IF thread[t].op = "approve" THEN "sign" ELSE "record"
           d == Decision(pending[r], "claimed", None)
<1>1. /\ thread[t] # Idle /\ thread[t].at = "claim" /\ r \in Rid
      /\ thread[t].op \in {"approve", "reject"}
  BY AtIsRequest DEF ApprovalsInv, Claim, DecideSteps
<1>2. /\ decided' = [decided EXCEPT ![r] = d] /\ pending' = [pending EXCEPT ![r] = None]
      /\ pending[r] # None /\ Goto(t, to)
      /\ UNCHANGED <<clock, steerNonce, steerLost, wire, seenNonces, accepted, cards, signed, answered>>
  BY DEF Claim, verifier
<1>3. to \in {"sign", "record"}
  OBVIOUS
<1>4. /\ thread' \in [Thread -> Decidings \cup {Idle}] /\ Others(t)
      /\ thread'[t].at = to /\ thread'[t].op = thread[t].op /\ thread'[t].rid = r
      /\ thread'[t].item = thread[t].item
  BY <1>1, <1>2, <1>3, GotoKeeps DEF ApprovalsInv, DecideSteps
<1>5. d \in Decisions /\ d # None /\ d.outcome = "claimed"
  <2>1. pending[r] \in Proposals
    BY <1>1, <1>2 DEF ApprovalsInv, ItemsInv
  <2>2. d \in Decisions /\ d.outcome = "claimed"
    BY <2>1 DEF Decision, Decisions
  <2>3. QED
    BY <2>2, ApprovalsAssumption
<1>6. /\ decided'[r] = d /\ pending'[r] = None
      /\ \A q \in Rid \ {r} : decided'[q] = decided[q] /\ pending'[q] = pending[q]
  BY <1>1, <1>2 DEF ApprovalsInv, ItemsInv
<1>7. decided[r] = None /\ Undecided(r)
  BY <1>1, <1>2 DEF ApprovalsInv, ClaimInv
<1>8. \A u \in Thread \ {t} : thread'[u] = thread[u] /\ (Past(u)' <=> Past(u))
  BY <1>4 DEF Others, Past
<1>9. \A u \in Thread : Past(u) => thread[u].rid # r /\ thread[u].rid \in Rid
  <2>1. \A u \in Thread : Past(u) => thread[u].rid \in Rid
    BY DEF ApprovalsInv, ItemsInv, Past, Decidings
  <2>2. QED
    BY <1>7, <2>1 DEF ApprovalsInv, ClaimInv
<1>10. ItemsInv'
  BY <1>2, <1>4, <1>5 DEF ApprovalsInv, ItemsInv
<1> HIDE DEF d, to, r
<1>11. ClaimInv'
  <2>1. \A q \in Rid : decided'[q] # None => pending'[q] = None
    BY <1>6 DEF ApprovalsInv, ClaimInv
  <2>2. \A q \in Rid : decided'[q] = None => Undecided(q)'
    BY <1>2, <1>5, <1>6 DEF ApprovalsInv, ClaimInv, Undecided
  <2>3. \A u, v \in Thread : Past(u)' /\ Past(v)' /\ thread'[u].rid = thread'[v].rid => u = v
    BY <1>4, <1>8, <1>9 DEF ApprovalsInv, ClaimInv
  <2>4. ASSUME NEW u \in Thread, Past(u)'
        PROVE  /\ decided'[thread'[u].rid] # None /\ decided'[thread'[u].rid].outcome = "claimed"
               /\ thread'[u].rid \notin answered
               /\ thread'[u].op = "reject" \/ thread'[u].at = "sign" => Undecided(thread'[u].rid)
               /\ thread'[u].op = "reject" => thread'[u].at = "record"
               /\ thread'[u].op = "approve" /\ thread'[u].at # "sign" =>
                    [rid |-> thread'[u].rid, item |-> thread'[u].item, steer |-> thread'[u].steer]
                      \in signed
    <3>1. CASE u = t
      <4>1. /\ decided'[r] # None /\ decided'[r].outcome = "claimed"
            /\ thread'[t].rid = r /\ Undecided(r) /\ r \notin answered
        BY <1>4, <1>5, <1>6, <1>7 DEF Undecided
      <4>2. thread'[t].op = "reject" => thread'[t].at = "record"
        BY <1>1, <1>4 DEF to
      <4>3. ~(thread'[t].op = "approve" /\ thread'[t].at # "sign")
        BY <1>1, <1>4 DEF to
      <4>4. QED
        BY <3>1, <4>1, <4>2, <4>3
    <3>2. CASE u # t
      BY <1>6, <1>8, <1>9, <2>4, <3>2 DEF ApprovalsInv, ClaimInv
    <3>3. QED
      BY <3>1, <3>2
  <2>5. OneDecision'
    BY <1>2 DEF ApprovalsInv, ClaimInv, OneDecision
  <2>6. Accounted'
    <3> SUFFICES ASSUME NEW q \in Rid
                 PROVE  /\ (\E c \in cards : c.rid = q) => pending'[q] # None \/ decided'[q] # None
                        /\ decided'[q] # None =>
                             /\ decided'[q].outcome = "signed" =>
                                  [rid |-> q, item |-> decided'[q].item, steer |-> decided'[q].steer]
                                    \in signed
                             /\ decided'[q].outcome = "rejected" => \A x \in signed : x.rid # q
      BY <1>2 DEF Accounted
    <3>1. CASE q = r
      BY <1>5, <1>6, <3>1
    <3>2. CASE q # r
      BY <1>6, <3>2 DEF ApprovalsInv, ClaimInv, Accounted
    <3>3. QED
      BY <3>1, <3>2
  <2>7. QED
    BY <1>2, <2>1, <2>2, <2>3, <2>4, <2>5, <2>6 DEF ClaimInv, Undecided
<1>12. ReadInv'
  BY <1>1, <1>2, <1>4, <1>8 DEF ApprovalsInv, ReadInv, r
<1>13. WireInv' /\ SteerNonceInv'
  BY <1>2 DEF ApprovalsInv, WireInv, AcceptedAsSigned, SteerNonceInv, NoncesNeverReused
<1>14. QED
  BY <1>10, <1>11, <1>12, <1>13 DEF ApprovalsInv

\* A nonce is drawn.
LEMMA DrawStep ==
  ASSUME ApprovalsInv, NEW x, signed' \subseteq signed \cup {x}, steerNonce' = NextNonce(steerNonce),
         x.steer.nonce = steerNonce', UNCHANGED steerLost
  PROVE  SteerNonceInv'
<1> SUFFICES ASSUME ~steerLost PROVE SteerNonceInv'
  BY DEF SteerNonceInv
<1>1. steerNonce' \in Nat /\ (steerNonce \in Nat => steerNonce' > steerNonce)
  BY NonceRises DEF ApprovalsInv, ItemsInv
<1>2. \A y \in signed : y.steer.nonce \in Nat /\ y.steer.nonce < steerNonce'
  BY <1>1 DEF ApprovalsInv, ItemsInv, Envelopes, SteerNonceInv
<1>3. \A y, z \in signed' : y.steer.nonce = z.steer.nonce => y = z
  BY <1>1, <1>2 DEF ApprovalsInv, SteerNonceInv, NoncesNeverReused
<1>4. QED
  BY <1>1, <1>2, <1>3 DEF SteerNonceInv, NoncesNeverReused

LEMMA SignStep == ASSUME ApprovalsInv, NEW t \in Thread, Sign(t) PROVE ApprovalsInv'
<1> DEFINE p == thread[t].item
           r == thread[t].rid
           n == NextNonce(steerNonce)
           s == BuildSteer(p, n, clock + Life)
           x == [rid |-> r, item |-> p, steer |-> s]
           e == [thread[t] EXCEPT !.at = "deliver", !.steer = s]
<1>1. /\ thread[t] # Idle /\ thread[t].at = "sign" /\ thread[t] \in Decidings
      /\ r \in Rid /\ p \in Proposals /\ Past(t) /\ thread[t].op \in {"approve", "reject"}
  BY AtIsRequest DEF ApprovalsInv, Sign, DecideSteps, Past
<1>2. thread[t].op = "approve" /\ Undecided(r) /\ decided[r].outcome = "claimed"
  BY <1>1 DEF ApprovalsInv, ClaimInv
<1>3. n \in Nat /\ clock + Life \in Nat
  BY NonceRises, ApprovalsAssumption DEF ApprovalsInv, ItemsInv
<1>4. s \in Envelopes /\ s.nonce = n /\ s.action = ActionString(p)
  BY <1>1, <1>3 DEF BuildSteer, Envelopes
<1>5. /\ steerNonce' = n
      /\ \/ Answer(t) /\ UNCHANGED signed
         \/ signed' = signed \cup {x} /\ thread' = [thread EXCEPT ![t] = e]
      /\ UNCHANGED <<clock, pending, decided, steerLost, wire, seenNonces, accepted, cards, answered>>
  BY DEF Sign, verifier
<1>6. x.rid = r /\ x.item = p /\ x.steer = s
  OBVIOUS
<1> HIDE DEF n, s
<1>7. /\ e \in Decidings /\ e.at = "deliver" /\ e.op = "approve" /\ e.rid = r /\ e.item = p
      /\ e.steer = s
  BY <1>1, <1>2, <1>4 DEF Decidings, DecideSteps
<1> HIDE DEF e, x
<1>8. SteerNonceInv'
  BY <1>4, <1>5, <1>6, DrawStep DEF n
<1>9. CASE Answer(t) /\ UNCHANGED signed
  <2>1. thread' \in [Thread -> Decidings \cup {Idle}] /\ Others(t) /\ thread'[t] = Idle
    BY <1>9, AnswerFrees DEF ApprovalsInv
  <2>2. \A u \in Thread \ {t} : thread'[u] = thread[u] /\ (Past(u)' <=> Past(u))
    BY <2>1 DEF Others, Past
  <2>3. ~Past(t)'
    BY <2>1 DEF Past
  <2>4. ItemsInv'
    BY <1>3, <1>5, <1>9, <2>1 DEF ApprovalsInv, ItemsInv
  <2>5. ClaimInv'
    BY <1>5, <1>9, <2>2, <2>3 DEF ApprovalsInv, ClaimInv, Undecided, OneDecision, Accounted
  <2>6. ReadInv'
    BY <1>5, <1>9, <2>1, <2>2 DEF ApprovalsInv, ReadInv
  <2>7. WireInv'
    BY <1>5, <1>9 DEF ApprovalsInv, WireInv, AcceptedAsSigned
  <2>8. QED
    BY <1>8, <2>4, <2>5, <2>6, <2>7 DEF ApprovalsInv
<1>10. CASE signed' = signed \cup {x} /\ thread' = [thread EXCEPT ![t] = e]
  <2>1. thread' \in [Thread -> Decidings \cup {Idle}] /\ Others(t) /\ thread'[t] = e
    BY <1>7, <1>10 DEF ApprovalsInv, ItemsInv, Others
  <2>2. \A u \in Thread \ {t} : thread'[u] = thread[u] /\ (Past(u)' <=> Past(u))
    BY <2>1 DEF Others, Past
  <2>3. \A u \in Thread \ {t} : Past(u) => thread[u].rid # r
    BY <1>1 DEF ApprovalsInv, ClaimInv
  <2>4. ItemsInv'
    BY <1>1, <1>3, <1>4, <1>5, <1>6, <1>10, <2>1 DEF ApprovalsInv, ItemsInv
  <2>5. OneDecision'
    BY <1>2, <1>5, <1>6, <1>10 DEF ApprovalsInv, ClaimInv, OneDecision, Undecided
  <2>6. Accounted'
    <3>1. decided[r].outcome # "rejected"
      BY <1>2
    <3>2. \A y \in signed' : y \in signed \/ y.rid = r
      BY <1>6, <1>10
    <3>3. \A q \in Rid : decided[q] # None /\ decided[q].outcome = "rejected" =>
            \A y \in signed' : y.rid # q
      BY <3>1, <3>2 DEF ApprovalsInv, ClaimInv, Accounted
    <3>4. signed \subseteq signed' /\ UNCHANGED <<pending, decided, cards>>
      BY <1>5, <1>10
    <3>5. QED
      BY <3>3, <3>4 DEF ApprovalsInv, ClaimInv, Accounted
  <2>7. \A q \in Rid : decided'[q] = None => Undecided(q)'
    <3>1. decided[r] # None
      BY <1>1 DEF ApprovalsInv, ClaimInv
    <3>2. QED
      BY <1>5, <1>6, <1>10, <3>1 DEF ApprovalsInv, ClaimInv, Undecided
  <2>8. ASSUME NEW u \in Thread, Past(u)'
        PROVE  /\ decided[thread'[u].rid] # None /\ decided[thread'[u].rid].outcome = "claimed"
               /\ thread'[u].rid \notin answered
               /\ thread'[u].op = "reject" \/ thread'[u].at = "sign" =>
                    \A y \in signed' : y.rid # thread'[u].rid
               /\ thread'[u].op = "reject" => thread'[u].at = "record"
               /\ thread'[u].op = "approve" /\ thread'[u].at # "sign" =>
                    [rid |-> thread'[u].rid, item |-> thread'[u].item, steer |-> thread'[u].steer]
                      \in signed'
    <3>1. CASE u = t
      <4>1. [rid |-> thread'[t].rid, item |-> thread'[t].item, steer |-> thread'[t].steer] = x
        BY <1>7, <2>1 DEF x
      <4>2. decided[r] # None /\ decided[r].outcome = "claimed" /\ r \notin answered
        BY <1>1 DEF ApprovalsInv, ClaimInv
      <4>3. QED
        BY <1>7, <1>10, <2>1, <3>1, <4>1, <4>2
    <3>2. CASE u # t
      <4>1. Past(u) /\ thread'[u] = thread[u] /\ thread[u].rid # r
        BY <2>2, <2>3, <2>8, <3>2
      <4>2. QED
        BY <1>6, <1>10, <4>1 DEF ApprovalsInv, ClaimInv, Undecided
    <3>3. QED
      BY <3>1, <3>2
  <2>9. \A u, v \in Thread : Past(u)' /\ Past(v)' /\ thread'[u].rid = thread'[v].rid => u = v
    BY <1>7, <2>1, <2>2, <2>3 DEF ApprovalsInv, ClaimInv
  <2>10. ClaimInv'
    BY <1>5, <2>5, <2>6, <2>7, <2>8, <2>9 DEF ApprovalsInv, ClaimInv, Undecided
  <2>11. \E c \in cards : c.rid = r /\ ActionString(c.item) = ActionString(p)
    BY <1>1, <1>2 DEF ApprovalsInv, ReadInv
  <2>12. ReadInv'
    BY <1>4, <1>5, <1>6, <1>7, <1>10, <2>1, <2>2, <2>11 DEF ApprovalsInv, ReadInv
  <2>13. WireInv'
    BY <1>5, <1>10 DEF ApprovalsInv, WireInv, AcceptedAsSigned
  <2>14. QED
    BY <1>8, <2>4, <2>10, <2>12, <2>13 DEF ApprovalsInv
<1>11. QED
  BY <1>5, <1>9, <1>10

LEMMA RecordStep == ASSUME ApprovalsInv, NEW t \in Thread, Record(t) PROVE ApprovalsInv'
<1> DEFINE r == thread[t].rid
           rejects == thread[t].op = "reject"
           outcome == IF rejects THEN "rejected" ELSE "signed"
           d == Decision(thread[t].item, outcome, thread[t].steer)
<1>1. /\ thread[t] # Idle /\ thread[t].at = "record" /\ Past(t) /\ r \in Rid
      /\ thread[t].op \in {"approve", "reject"} /\ thread[t].item \in Proposals
      /\ thread[t].steer \in Envelopes \cup {None}
  BY AtIsRequest DEF ApprovalsInv, Record, DecideSteps, Past
<1>2. /\ decided' = [decided EXCEPT ![r] = d]
      /\ answered' = IF rejects THEN answered \cup {r} ELSE answered
      /\ Answer(t)
      /\ UNCHANGED <<clock, pending, steerNonce, steerLost, wire, seenNonces, accepted, cards, signed>>
  BY DEF Record, verifier
<1>3. /\ d \in Decisions /\ d # None /\ d.outcome = outcome /\ d.item = thread[t].item
      /\ d.steer = thread[t].steer
  <2>1. d \in Decisions
    BY <1>1 DEF Decision, Decisions
  <2>2. QED
    BY <2>1, ApprovalsAssumption DEF Decision
<1>4. thread' \in [Thread -> Decidings \cup {Idle}] /\ Others(t) /\ thread'[t] = Idle
  BY <1>2, AnswerFrees DEF ApprovalsInv
<1>5. /\ decided[r] # None
      /\ rejects => Undecided(r)
      /\ ~rejects => [rid |-> r, item |-> thread[t].item, steer |-> thread[t].steer] \in signed
  BY <1>1 DEF ApprovalsInv, ClaimInv
<1>6. decided'[r] = d /\ \A q \in Rid \ {r} : decided'[q] = decided[q]
  BY <1>1, <1>2 DEF ApprovalsInv, ItemsInv
<1>7. \A u \in Thread \ {t} : /\ thread'[u] = thread[u] /\ (Past(u)' <=> Past(u))
                              /\ Past(u) => thread[u].rid # r /\ thread[u].rid \in Rid
  <2>1. \A u \in Thread : Past(u) => thread[u].rid \in Rid
    BY DEF ApprovalsInv, ItemsInv, Past, Decidings
  <2>2. \A u \in Thread \ {t} : thread'[u] = thread[u] /\ (Past(u)' <=> Past(u))
    BY <1>4 DEF Others, Past
  <2>3. \A u \in Thread \ {t} : Past(u) => thread[u].rid # r
    BY <1>1 DEF ApprovalsInv, ClaimInv
  <2>4. QED
    BY <2>1, <2>2, <2>3
<1>8. ~Past(t)'
  BY <1>4 DEF Past
<1>9. ItemsInv'
  BY <1>1, <1>2, <1>3, <1>4 DEF ApprovalsInv, ItemsInv
<1> HIDE DEF d, r
<1>10. ClaimInv'
  <2>1. \A q \in Rid : decided'[q] # None => pending'[q] = None
    BY <1>2, <1>5, <1>6 DEF ApprovalsInv, ClaimInv
  <2>2. \A q \in Rid : decided'[q] = None => Undecided(q)'
    BY <1>2, <1>3, <1>6 DEF ApprovalsInv, ClaimInv, Undecided
  <2>3. \A u, v \in Thread : Past(u)' /\ Past(v)' /\ thread'[u].rid = thread'[v].rid => u = v
    BY <1>7, <1>8 DEF ApprovalsInv, ClaimInv
  <2>4. ASSUME NEW u \in Thread, Past(u)'
        PROVE  /\ decided'[thread'[u].rid] # None /\ decided'[thread'[u].rid].outcome = "claimed"
               /\ thread'[u].rid \notin answered'
               /\ thread'[u].op = "reject" \/ thread'[u].at = "sign" => Undecided(thread'[u].rid)
               /\ thread'[u].op = "reject" => thread'[u].at = "record"
               /\ thread'[u].op = "approve" /\ thread'[u].at # "sign" =>
                    [rid |-> thread'[u].rid, item |-> thread'[u].item, steer |-> thread'[u].steer]
                      \in signed
    <3>1. Past(u) /\ thread'[u] = thread[u] /\ thread[u].rid # r /\ thread[u].rid \in Rid
      BY <1>7, <1>8, <2>4
    <3>2. QED
      BY <1>2, <1>6, <3>1 DEF ApprovalsInv, ClaimInv
  <2>5. OneDecision'
    BY <1>2, <1>5 DEF ApprovalsInv, ClaimInv, OneDecision, Undecided
  <2>6. Accounted'
    <3> SUFFICES ASSUME NEW q \in Rid
                 PROVE  /\ (\E c \in cards : c.rid = q) => pending[q] # None \/ decided'[q] # None
                        /\ decided'[q] # None =>
                             /\ decided'[q].outcome = "signed" =>
                                  [rid |-> q, item |-> decided'[q].item, steer |-> decided'[q].steer]
                                    \in signed
                             /\ decided'[q].outcome = "rejected" => \A x \in signed : x.rid # q
      BY <1>2 DEF Accounted
    <3>1. CASE q = r
      BY <1>3, <1>5, <1>6, <3>1 DEF Undecided
    <3>2. CASE q # r
      BY <1>6, <3>2 DEF ApprovalsInv, ClaimInv, Accounted
    <3>3. QED
      BY <3>1, <3>2
  <2>7. \A u \in Thread : Past(u)' => thread'[u].rid # r
    BY <1>7, <1>8
  <2>8. QED
    BY <1>2, <2>1, <2>2, <2>3, <2>4, <2>5, <2>6, <2>7 DEF ClaimInv, Undecided
<1>11. ReadInv'
  BY <1>2, <1>4, <1>7 DEF ApprovalsInv, ReadInv
<1>12. WireInv' /\ SteerNonceInv'
  BY <1>2 DEF ApprovalsInv, WireInv, AcceptedAsSigned, SteerNonceInv, NoncesNeverReused
<1>13. QED
  BY <1>9, <1>10, <1>11, <1>12 DEF ApprovalsInv

\* What changes beside the threads: files, cards, the verifier, the clock.
LEMMA WorldStep ==
  ASSUME ApprovalsInv, UNCHANGED <<thread, decided, wire, signed, answered>>, clock' \in Nat,
         pending' \in [Rid -> Proposals \cup {None}], cards \subseteq cards',
         \A c \in cards' : c.rid \in Rid /\ Displayable(c.item),
         \A r \in Rid : decided[r] # None => pending'[r] = None,
         \A c \in cards' : pending'[c.rid] # None \/ decided[c.rid] # None,
         steerNonce' \in Nat \cup {None}, SteerNonceInv', WireInv'
  PROVE  ApprovalsInv'
<1>1. ItemsInv'
  BY DEF ApprovalsInv, ItemsInv
<1>2. Accounted' /\ OneDecision'
  BY DEF ApprovalsInv, ClaimInv, Accounted, OneDecision
<1>3. ClaimInv'
  BY <1>2 DEF ApprovalsInv, ClaimInv, Undecided, Past
<1>4. ReadInv'
  BY DEF ApprovalsInv, ReadInv
<1>5. QED
  BY <1>1, <1>3, <1>4 DEF ApprovalsInv

LEMMA ProposeStep == ASSUME ApprovalsInv, NEW r \in Rid, NEW p \in Filed[r], Propose(r, p) PROVE ApprovalsInv'
<1>1. p \in Proposals /\ p # None
  BY ApprovalsAssumption DEF Proposals
<1>2. /\ UNCHANGED <<desk, decided, steerNonce, steerLost, wire, verifier, cards, signed, answered>>
      /\ decided[r] = None /\ pending' = [pending EXCEPT ![r] = p]
  BY DEF Propose
<1>3. pending' \in [Rid -> Proposals \cup {None}]
  BY <1>1, <1>2 DEF ApprovalsInv, ItemsInv
<1>4. \A q \in Rid : decided[q] # None => pending'[q] = None
  BY <1>2 DEF ApprovalsInv, ItemsInv, ClaimInv
<1>5. \A c \in cards : /\ c.rid \in Rid /\ Displayable(c.item)
                       /\ pending'[c.rid] # None \/ decided[c.rid] # None
  BY <1>1, <1>2 DEF ApprovalsInv, ItemsInv, ReadInv, ClaimInv, Accounted
<1>6. SteerNonceInv' /\ WireInv'
  BY <1>2 DEF ApprovalsInv, WireInv, AcceptedAsSigned, SteerNonceInv, NoncesNeverReused, verifier
<1>7. QED
  BY <1>2, <1>3, <1>4, <1>5, <1>6, WorldStep DEF desk, ApprovalsInv, ItemsInv

LEMMA ShowCardsStep == ApprovalsInv /\ ShowCards => ApprovalsInv'
<1> SUFFICES ASSUME ApprovalsInv, ShowCards PROVE ApprovalsInv'
  OBVIOUS
<1>1. /\ cards \subseteq cards'
      /\ \A c \in cards' : c \in cards \/ (c.rid \in Rid /\ pending[c.rid] # None /\ Displayable(c.item))
      /\ UNCHANGED <<desk, files, wire, verifier, signed, answered>>
  BY DEF ShowCards, Viewable
<1>2. \A c \in cards' : c.rid \in Rid /\ Displayable(c.item)
  BY <1>1 DEF ApprovalsInv, ItemsInv, ReadInv
<1>3. \A c \in cards' : pending[c.rid] # None \/ decided[c.rid] # None
  BY <1>1 DEF ApprovalsInv, ItemsInv, ClaimInv, Accounted
<1>4. SteerNonceInv' /\ WireInv'
  BY <1>1 DEF ApprovalsInv, WireInv, AcceptedAsSigned, SteerNonceInv, NoncesNeverReused, verifier, files
<1>5. \A r \in Rid : decided[r] # None => pending[r] = None
  BY DEF ApprovalsInv, ClaimInv
<1>6. QED
  BY <1>1, <1>2, <1>3, <1>4, <1>5, WorldStep DEF desk, files, ApprovalsInv, ItemsInv

\* Of cards and requests nothing changes.
LEMMA StillStep ==
  ASSUME ApprovalsInv, UNCHANGED <<thread, pending, decided, wire, cards, signed, answered>>, clock' \in Nat,
         steerNonce' \in Nat \cup {None}, SteerNonceInv', WireInv'
  PROVE  ApprovalsInv'
<1>1. \A c \in cards : /\ c.rid \in Rid /\ Displayable(c.item)
                       /\ pending[c.rid] # None \/ decided[c.rid] # None
  BY DEF ApprovalsInv, ItemsInv, ReadInv, ClaimInv, Accounted
<1>2. \A r \in Rid : decided[r] # None => pending[r] = None
  BY DEF ApprovalsInv, ClaimInv
<1>3. QED
  BY <1>1, <1>2, WorldStep DEF ApprovalsInv, ItemsInv

LEMMA PresentStep ==
  ASSUME ApprovalsInv, NEW s \in wire, NEW p, NEW destination, Present(s, p, destination)
  PROVE  ApprovalsInv'
<1> DEFINE a == [steer |-> s, action |-> ActionString(p), klass |-> GrantClass(p, FALSE),
                 dest |-> destination, nth |-> Cardinality(accepted) + 1]
<1>1. /\ s.channel = destination /\ s.nonce \notin seenNonces /\ s.action = ActionString(p)
      /\ seenNonces' = seenNonces \cup {s.nonce} /\ accepted' = accepted \cup {a}
      /\ UNCHANGED <<desk, files, wire, cards, signed, answered>>
  BY DEF Present, VerifySteer
<1>2. /\ a.steer = s /\ a.action = ActionString(p) /\ a.klass = GrantClass(p, FALSE)
      /\ a.dest = destination
  OBVIOUS
<1> HIDE DEF a
<1>3. PICK x \in signed : x.steer = s
  BY DEF ApprovalsInv, WireInv
<1>4. GrantClass(x.item, FALSE) = a.klass
  <2>1. ActionString(x.item) = ActionString(p)
    BY <1>1, <1>3 DEF ApprovalsInv, ReadInv
  <2>2. QED
    BY <1>2, <2>1, ClassIsSigned
<1>5. \A b \in accepted : b.steer # s
  BY <1>1 DEF ApprovalsInv, WireInv
<1>6. \A b \in accepted' : \E y \in signed :
        /\ y.steer = b.steer /\ y.steer.action = b.action /\ y.steer.channel = b.dest
        /\ GrantClass(y.item, FALSE) = b.klass
  <2>1. \A b \in accepted : \E y \in signed :
          /\ y.steer = b.steer /\ y.steer.action = b.action /\ y.steer.channel = b.dest
          /\ GrantClass(y.item, FALSE) = b.klass
    BY DEF ApprovalsInv, WireInv, AcceptedAsSigned
  <2>2. x.steer = a.steer /\ x.steer.action = a.action /\ x.steer.channel = a.dest
    BY <1>1, <1>2, <1>3
  <2>3. QED
    BY <1>1, <1>4, <2>1, <2>2
<1>7. \A b, c \in accepted' : b.steer = c.steer => b = c
  BY <1>1, <1>2, <1>5 DEF ApprovalsInv, WireInv, AcceptedAsSigned
<1>8. WireInv'
  BY <1>1, <1>2, <1>6, <1>7 DEF ApprovalsInv, WireInv, AcceptedAsSigned
<1>9. SteerNonceInv'
  BY <1>1 DEF ApprovalsInv, SteerNonceInv, NoncesNeverReused, files
<1>10. QED
  BY <1>1, <1>8, <1>9, StillStep DEF desk, files, ApprovalsInv, ItemsInv

LEMMA LoseNonceStep == ApprovalsInv /\ LoseNonce => ApprovalsInv'
<1> SUFFICES ASSUME ApprovalsInv, LoseNonce PROVE ApprovalsInv'
  OBVIOUS
<1>1. SteerNonceInv' /\ WireInv'
  BY DEF LoseNonce, verifier, ApprovalsInv, WireInv, AcceptedAsSigned, SteerNonceInv
<1>2. QED
  BY <1>1, StillStep DEF LoseNonce, desk, ApprovalsInv, ItemsInv

LEMMA DieStep == ApprovalsInv /\ Die /\ UNCHANGED approvals => ApprovalsInv'
<1> SUFFICES ASSUME ApprovalsInv, Die, UNCHANGED approvals PROVE ApprovalsInv'
  OBVIOUS
<1> USE DEF approvals, files, verifier
<1>1. thread' \in [Thread -> {Idle}] /\ UNCHANGED clock /\ \A t \in Thread : thread'[t] = Idle
  BY DEF Die
<1>2. ItemsInv'
  BY <1>1 DEF ApprovalsInv, ItemsInv
<1>3. \A t \in Thread : ~Past(t)'
  BY <1>1 DEF Past
<1>4. ClaimInv'
  BY <1>3 DEF ApprovalsInv, ClaimInv, OneDecision, Accounted, Undecided
<1>5. ReadInv' /\ WireInv' /\ SteerNonceInv'
  BY <1>1 DEF ApprovalsInv, ReadInv, WireInv, AcceptedAsSigned, SteerNonceInv, NoncesNeverReused
<1>6. QED
  BY <1>2, <1>4, <1>5 DEF ApprovalsInv

LEMMA ApprovalsInvInit == DeskInit /\ ApprovalsInit => ApprovalsInv
<1> SUFFICES ASSUME DeskInit, ApprovalsInit PROVE ApprovalsInv
  OBVIOUS
<1>1. \A t \in Thread : thread[t] = Idle /\ ~Past(t)
  BY DEF DeskInit, Past
<1>2. ItemsInv
  BY DEF DeskInit, ApprovalsInit, ItemsInv
<1>3. ClaimInv
  BY <1>1 DEF ApprovalsInit, ClaimInv, OneDecision, Accounted, Undecided
<1>4. ReadInv /\ WireInv /\ SteerNonceInv
  BY <1>1 DEF ApprovalsInit, ReadInv, WireInv, AcceptedAsSigned, SteerNonceInv, NoncesNeverReused
<1>5. QED
  BY <1>2, <1>3, <1>4 DEF ApprovalsInv

LEMMA ApprovalsInvStep == ApprovalsInv /\ [ApprovalsNext]_approvalVars => ApprovalsInv'
<1> SUFFICES ASSUME ApprovalsInv, [ApprovalsNext]_approvalVars PROVE ApprovalsInv'
  OBVIOUS
<1>1. CASE (Tick \/ Rewind \/ UNCHANGED desk) /\ UNCHANGED approvals
  <2>1. SteerNonceInv' /\ WireInv'
    BY <1>1 DEF approvals, files, verifier, ApprovalsInv, WireInv, AcceptedAsSigned, SteerNonceInv, NoncesNeverReused
  <2>2. clock' \in Nat /\ UNCHANGED thread
    BY <1>1 DEF Tick, Rewind, desk, ApprovalsInv, ItemsInv
  <2>3. QED
    BY <1>1, <2>1, <2>2, StillStep DEF approvals, files, ApprovalsInv, ItemsInv
<1>2. QED
  BY <1>1, ProposeStep, ShowCardsStep, ApproveStep, RejectStep, ClaimStep, ClaimLostStep, SignStep,
     RecordStep, DeliverStep, PresentStep, LoseNonceStep, DieStep
     DEF ApprovalsNext, approvalVars
-----------------------------------------------------------------------------
(* What follows.                                                           *)

\* A request is signed at most once, and never if the human was told it is
\* rejected, however approvals and rejections race and wherever the process dies.
THEOREM DecidedOnce == ApprovalsSpec => []OneDecision
<1>1. ApprovalsInv => OneDecision
  BY DEF ApprovalsInv, ClaimInv
<1>2. QED
  BY <1>1, ApprovalsInvInit, ApprovalsInvStep, PTL DEF ApprovalsSpec

\* A request a card was shown of is never lost, and its record tells the truth.
THEOREM EveryRequestAccounted == ApprovalsSpec => []Accounted
<1>1. ApprovalsInv => Accounted
  BY DEF ApprovalsInv, ClaimInv
<1>2. QED
  BY <1>1, ApprovalsInvInit, ApprovalsInvStep, PTL DEF ApprovalsSpec

\* Every signature is over an action whose card the human saw for that request,
\* and the card showed the bytes that hash to what is signed.
THEOREM OnlyReadIsSigned == ApprovalsSpec => []SignedWasRead
<1>1. ApprovalsInv => SignedWasRead
  <2> SUFFICES ASSUME ApprovalsInv, NEW x \in signed
               PROVE  \E c \in cards :
                        /\ c.rid = x.rid
                        /\ ActionString(c.item) = x.steer.action
                        /\ \A shown \in Shown(c.item) :
                             \/ Digest(shown) = x.steer.action.hash
                             \/ c.item.verb = "RESULT" /\ c.item.hash # Nil
    BY DEF SignedWasRead
  <2>1. PICK c \in cards : c.rid = x.rid /\ ActionString(c.item) = x.steer.action
    BY DEF ApprovalsInv, ReadInv
  <2>2. Displayable(c.item)
    BY DEF ApprovalsInv, ReadInv
  <2>3. \A shown \in Shown(c.item) :
          Digest(shown) = ActionString(c.item).hash \/ (c.item.verb = "RESULT" /\ c.item.hash # Nil)
    BY <2>2, CardShowsHash
  <2>4. QED
    BY <2>1, <2>3
<1>2. QED
  BY <1>1, ApprovalsInvInit, ApprovalsInvStep, PTL DEF ApprovalsSpec

\* What verifies is one approval, for the action, class and channel that were
\* signed, and it verifies once.
THEOREM AcceptedOnlyAsSigned == ApprovalsSpec => []AcceptedAsSigned
<1>1. ApprovalsInv => AcceptedAsSigned
  BY DEF ApprovalsInv, WireInv
<1>2. QED
  BY <1>1, ApprovalsInvInit, ApprovalsInvStep, PTL DEF ApprovalsSpec

\* While its file lives, no nonce signs two approvals.
THEOREM ApprovalNoncesSignOnce == ApprovalsSpec => []NoncesNeverReused
<1>1. ApprovalsInv => NoncesNeverReused
  BY DEF ApprovalsInv, SteerNonceInv, NoncesNeverReused
<1>2. QED
  BY <1>1, ApprovalsInvInit, ApprovalsInvStep, PTL DEF ApprovalsSpec
-----------------------------------------------------------------------------
(* The bounds of the approvals.                                            *)

\* The requests that have drawn their nonce, or never will: each is claimed once,
\* so it draws at most one.
Drawn == {r \in Rid : decided[r] # None /\ \A t \in Thread : At(t, "sign") => thread[t].rid # r}

LEMMA DrawnFinite ==
  /\ IsFiniteSet(Drawn) /\ Cardinality(Drawn) \in Nat
  /\ Cardinality(Drawn) <= Cardinality(Rid) /\ Cardinality(Rid) \in Nat
<1>1. Drawn \subseteq Rid /\ IsFiniteSet(Rid)
  BY ApprovalsAssumption DEF Drawn
<1>2. IsFiniteSet(Drawn) /\ Cardinality(Drawn) <= Cardinality(Rid)
  BY <1>1, FS_Subset
<1>3. QED
  BY <1>1, <1>2, FS_CardinalityType

LEMMA DrawnFinitePrimed ==
  /\ IsFiniteSet(Drawn') /\ Cardinality(Drawn') \in Nat
  /\ Cardinality(Drawn') <= Cardinality(Rid)
<1>1. Drawn' \subseteq Rid /\ IsFiniteSet(Rid)
  BY ApprovalsAssumption DEF Drawn
<1>2. IsFiniteSet(Drawn') /\ Cardinality(Drawn') <= Cardinality(Rid)
  BY <1>1, FS_Subset
<1>3. QED
  BY <1>1, <1>2, FS_CardinalityType

\* What an approval adds to its types: what it signs has a name to be checked
\* against, a channel, and a nonce that the requests which drew one account for.
ItemBounds(e) ==
  /\ e.op = "approve" => Bindable(e.item)
  /\ e.steer \in Steers \cup {None}

SteerBounds ==
  /\ clock \in 1 .. MaxTime
  /\ steerNonce # None => 1 <= steerNonce /\ steerNonce <= MaxTime + Cardinality(Drawn)
  /\ \A t \in Thread : thread[t] # Idle => ItemBounds(thread[t])
  /\ \A r \in Rid : decided[r] # None => decided[r].steer \in Steers \cup {None}
  /\ \A x \in signed : x.steer \in Steers

LEMMA BoundsGiveTypes == ApprovalsInv /\ SteerBounds => ApprovalsTypeOK
<1> SUFFICES ASSUME ApprovalsInv, SteerBounds PROVE ApprovalsTypeOK
  OBVIOUS
<1>1. ASSUME NEW t \in Thread, thread[t] # Idle
      PROVE  /\ thread[t].op \in {"approve", "reject"}
             /\ thread[t].at \in {"claim", "sign", "deliver", "record"}
             /\ thread[t].rid \in Rid
             /\ thread[t].item \in Proposals
             /\ thread[t].steer \in Steers \cup {None}
  BY <1>1 DEF ApprovalsInv, ItemsInv, Decidings, DecideSteps, SteerBounds, ItemBounds
<1>2. wire \subseteq Steers
  BY DEF ApprovalsInv, WireInv, SteerBounds
<1>3. steerNonce \in 1 .. MaxTime + Cardinality(Rid) \cup {None}
  <2>1. steerNonce \in Nat \cup {None} /\ MaxTime \in Nat
    BY DeskAssumption DEF ApprovalsInv, ItemsInv
  <2>2. QED
    BY <2>1, DrawnFinite DEF SteerBounds
<1>4. QED
  BY <1>1, <1>2, <1>3 DEF ApprovalsTypeOK, ApprovalsInv, ItemsInv, SteerBounds, Items

LEMMA SteerBoundsInit == DeskInit /\ ApprovalsInit => SteerBounds
BY DeskAssumption DEF DeskInit, ApprovalsInit, SteerBounds

\* Nothing is drawn or signed: one thread moves, or none.
LEMMA NothingDrawn ==
  ASSUME ApprovalsInv, SteerBounds, clock' \in 1 .. MaxTime, steerNonce' \in {None, steerNonce}, UNCHANGED signed,
         \A t \in Thread : thread'[t] # Idle => ItemBounds(thread'[t]),
         \A r \in Rid : decided[r] # None => decided'[r] # None,
         \A r \in Rid : decided'[r] # None => decided'[r].steer \in Steers \cup {None},
         \A t \in Thread : At(t, "sign")' =>
           \/ At(t, "sign") /\ thread'[t].rid = thread[t].rid
           \/ decided[thread'[t].rid] = None
  PROVE  SteerBounds'
<1>1. Drawn \subseteq Drawn'
  BY DEF Drawn
<1>2. Cardinality(Drawn) <= Cardinality(Drawn')
  BY <1>1, DrawnFinitePrimed, FS_Subset
<1>3. ASSUME steerNonce' # None
      PROVE  1 <= steerNonce' /\ steerNonce' <= MaxTime + Cardinality(Drawn')
  <2>1. steerNonce' = steerNonce /\ steerNonce # None
    BY <1>3
  <2>2. steerNonce \in Nat /\ MaxTime \in Nat
    BY <2>1, DeskAssumption DEF ApprovalsInv, ItemsInv
  <2>3. QED
    BY <1>2, <2>1, <2>2, DrawnFinite, DrawnFinitePrimed DEF SteerBounds
<1>4. QED
  BY <1>3 DEF SteerBounds

\* The thread that draws: its request had drawn none.
LEMMA SignDraws ==
  ASSUME ApprovalsInv, SteerBounds, NEW t \in Thread, Sign(t)
  PROVE  SteerBounds'
<1> DEFINE p == thread[t].item
           r == thread[t].rid
           n == NextNonce(steerNonce)
           s == BuildSteer(p, n, clock + Life)
           e == [thread[t] EXCEPT !.at = "deliver", !.steer = s]
<1>1. /\ thread[t] # Idle /\ thread[t].at = "sign" /\ thread[t] \in Decidings
      /\ r \in Rid /\ p \in Proposals /\ Past(t)
  BY AtIsRequest DEF ApprovalsInv, Sign, DecideSteps, Past
<1>2. thread[t].op = "approve" /\ decided[r] # None /\ Bindable(p)
  BY <1>1 DEF ApprovalsInv, ClaimInv, SteerBounds, ItemBounds, Decidings
<1>3. /\ steerNonce' = n /\ UNCHANGED <<clock, decided>>
      /\ \/ Answer(t) /\ UNCHANGED signed
         \/ /\ p.dest # Nil /\ thread' = [thread EXCEPT ![t] = e]
            /\ signed' = signed \cup {[rid |-> r, item |-> p, steer |-> s]}
  BY DEF Sign
<1>4. clock \in 1 .. MaxTime /\ MaxTime \in Nat /\ Life \in Nat
  BY DeskAssumption, ApprovalsAssumption DEF SteerBounds
<1>5. Cardinality(Drawn) + 1 <= Cardinality(Drawn')
  <2>1. r \notin Drawn
    BY <1>1 DEF Drawn, At
  <2>2. thread' \in [Thread -> Decidings \cup {Idle}] /\ Others(t)
        /\ (thread'[t] = Idle \/ thread'[t].at = "deliver")
    BY <1>1, <1>3, AnswerFrees, SignStep DEF ApprovalsInv, ItemsInv, Others, Decidings
  <2>3. \A u \in Thread \ {t} : At(u, "sign") => thread[u].rid # r
    BY <1>1 DEF ApprovalsInv, ClaimInv, At, Past
  <2>4. ~At(t, "sign")'
    BY <2>2 DEF At
  <2>5. \A u \in Thread : At(u, "sign")' => u # t /\ At(u, "sign") /\ thread'[u].rid = thread[u].rid
    BY <2>2, <2>4 DEF At, Others
  <2>6. Drawn \cup {r} \subseteq Drawn'
    <3>1. Drawn \subseteq Drawn'
      BY <1>3, <2>5 DEF Drawn
    <3>2. r \in Drawn'
      BY <1>1, <1>2, <1>3, <2>3, <2>5 DEF Drawn
    <3>3. QED
      BY <3>1, <3>2
  <2>7. Cardinality(Drawn \cup {r}) = Cardinality(Drawn) + 1
    BY <2>1, DrawnFinite, FS_AddElement
  <2>8. Cardinality(Drawn \cup {r}) <= Cardinality(Drawn')
    BY <2>6, DrawnFinitePrimed, FS_Subset
  <2>9. QED
    BY <2>7, <2>8
<1>6. n \in Nat /\ 1 <= n /\ n <= MaxTime + Cardinality(Drawn')
  <2>1. steerNonce \in Nat \cup {None} /\ clock \in Nat
    BY <1>4 DEF ApprovalsInv, ItemsInv
  <2>2. CASE steerNonce = None
    BY <1>4, <1>5, <2>2, DrawnFinite, DrawnFinitePrimed DEF NextNonce
  <2>3. CASE steerNonce # None
    <3>1. steerNonce \in Nat /\ 1 <= steerNonce /\ steerNonce <= MaxTime + Cardinality(Drawn)
      BY <2>1, <2>3 DEF SteerBounds
    <3>2. n = IF steerNonce + 1 > clock THEN steerNonce + 1 ELSE clock
      BY <2>3 DEF NextNonce
    <3> HIDE DEF n
    <3>3. QED
      BY <1>4, <1>5, <3>1, <3>2, DrawnFinite, DrawnFinitePrimed
  <2>4. QED
    BY <2>2, <2>3
<1>7. ASSUME p.dest # Nil
      PROVE  s \in Steers
  <2>1. n \in 1 .. MaxTime + Cardinality(Rid)
    BY <1>4, <1>6, DrawnFinite, DrawnFinitePrimed
  <2>2. clock + Life \in Life + 1 .. Life + MaxTime
    BY <1>4
  <2> HIDE DEF n
  <2>3. QED
    BY <1>1, <1>2, <1>7, <2>1, <2>2 DEF BuildSteer, Steers
<1> HIDE DEF n, s
<1>8. \A u \in Thread : thread'[u] # Idle => ItemBounds(thread'[u])
  <2>1. CASE Answer(t)
    BY <2>1 DEF Answer, ApprovalsInv, ItemsInv, SteerBounds
  <2>2. CASE p.dest # Nil /\ thread' = [thread EXCEPT ![t] = e]
    <3>1. e.op = thread[t].op /\ e.item = p /\ e.steer = s
      BY <1>1 DEF Decidings
    <3>2. ItemBounds(e)
      BY <1>2, <1>7, <2>2, <3>1 DEF ItemBounds
    <3> HIDE DEF e
    <3>3. QED
      BY <2>2, <3>2 DEF ApprovalsInv, ItemsInv, SteerBounds
  <2>3. QED
    BY <1>3, <2>1, <2>2
<1>9. \A x \in signed' : x.steer \in Steers
  BY <1>3, <1>7 DEF SteerBounds
<1>10. QED
  BY <1>3, <1>4, <1>6, <1>8, <1>9 DEF SteerBounds

\* A request that is made, or goes on, is within the bounds.
LEMMA RequestBounds ==
  ASSUME ApprovalsInv, SteerBounds, NEW t \in Thread, NEW e, thread' = [thread EXCEPT ![t] = e],
         e # Idle => ItemBounds(e)
  PROVE  \A u \in Thread : thread'[u] # Idle => ItemBounds(thread'[u])
BY DEF ApprovalsInv, ItemsInv, SteerBounds

LEMMA GotoBounds ==
  ASSUME ApprovalsInv, SteerBounds, NEW t \in Thread, thread[t] # Idle, NEW step \in DecideSteps,
         Goto(t, step)
  PROVE  \A u \in Thread : thread'[u] # Idle => ItemBounds(thread'[u])
<1>1. thread[t] \in Decidings /\ ItemBounds(thread[t])
  BY DEF ApprovalsInv, ItemsInv, SteerBounds
<1>2. ItemBounds([thread[t] EXCEPT !.at = step])
  BY <1>1 DEF ItemBounds, Decidings
<1>3. QED
  BY <1>2, RequestBounds DEF Goto

\* The step to a place other than "sign" draws nothing.
LEMMA LeaveBounds ==
  ASSUME ApprovalsInv, SteerBounds, NEW t \in Thread, thread[t] # Idle,
         Answer(t) \/ Goto(t, "record"), UNCHANGED <<clock, steerNonce, signed>>,
         \A r \in Rid : decided[r] # None => decided'[r] # None,
         \A r \in Rid : decided'[r] # None => decided'[r].steer \in Steers \cup {None}
  PROVE  SteerBounds'
<1>1. \A u \in Thread : thread'[u] # Idle => ItemBounds(thread'[u])
  BY GotoBounds, RequestBounds DEF Answer, DecideSteps
<1>2. \A u \in Thread : At(u, "sign")' => At(u, "sign") /\ thread'[u].rid = thread[u].rid
  BY AnswerFrees, GotoKeeps DEF ApprovalsInv, DecideSteps, Others, At
<1>3. QED
  BY <1>1, <1>2, NothingDrawn DEF SteerBounds

LEMMA AskBounds ==
  ASSUME ApprovalsInv, SteerBounds, NEW t \in Thread, NEW op \in {"approve", "reject"}, NEW r \in Rid,
         pending[r] # None, op = "approve" => Bindable(pending[r]),
         thread' = [thread EXCEPT ![t] = Request(op, r)], UNCHANGED <<clock, approvals>>
  PROVE  SteerBounds'
<1>1. ItemBounds(Request(op, r)) /\ Request(op, r).at = "claim"
  BY DEF ItemBounds, Request
<1>2. \A u \in Thread : thread'[u] # Idle => ItemBounds(thread'[u])
  BY <1>1, RequestBounds
<1>3. \A u \in Thread : At(u, "sign")' => At(u, "sign") /\ thread'[u].rid = thread[u].rid
  BY <1>1 DEF At, ApprovalsInv, ItemsInv
<1>4. QED
  BY <1>2, <1>3, NothingDrawn DEF SteerBounds, approvals, files

LEMMA ClaimBounds ==
  ASSUME ApprovalsInv, SteerBounds, NEW t \in Thread, Claim(t)
  PROVE  SteerBounds'
<1> DEFINE r == thread[t].rid
<1>1. /\ thread[t] # Idle /\ thread[t] \in Decidings /\ r \in Rid /\ pending[r] # None
      /\ decided' = [decided EXCEPT ![r] = Decision(pending[r], "claimed", None)]
      /\ Goto(t, "sign") \/ Goto(t, "record")
      /\ UNCHANGED <<clock, steerNonce, signed>>
  BY AtIsRequest DEF Claim, ApprovalsInv, DecideSteps
<1>2. decided[r] = None
  BY <1>1 DEF ApprovalsInv, ClaimInv
<1>3. ApprovalsInv'
  BY ClaimStep
<1>4. Decision(pending[r], "claimed", None).steer = None
  BY DEF Decision
<1>5. \A q \in Rid : /\ decided[q] # None => decided'[q] # None
                     /\ decided'[q] # None => decided'[q].steer \in Steers \cup {None}
  <2>1. \A q \in Rid \ {r} : decided'[q] = decided[q]
    BY <1>1 DEF ApprovalsInv, ItemsInv
  <2>2. decided'[r].steer = None
    BY <1>1, <1>4 DEF ApprovalsInv, ItemsInv
  <2>3. QED
    BY <1>2, <2>1, <2>2 DEF SteerBounds
<1>6. \A u \in Thread : thread'[u] # Idle => ItemBounds(thread'[u])
  BY <1>1, GotoBounds DEF DecideSteps
<1>7. \A u \in Thread : At(u, "sign")' =>
         \/ At(u, "sign") /\ thread'[u].rid = thread[u].rid
         \/ decided[thread'[u].rid] = None
  BY <1>1, <1>2, GotoKeeps DEF ApprovalsInv, DecideSteps, Others, At
<1>8. QED
  BY <1>1, <1>5, <1>6, <1>7, NothingDrawn DEF SteerBounds

LEMMA RecordBounds ==
  ASSUME ApprovalsInv, SteerBounds, NEW t \in Thread, Record(t)
  PROVE  SteerBounds'
<1>1. /\ thread[t] # Idle /\ thread[t].rid \in Rid /\ ItemBounds(thread[t])
      /\ thread[t].item \in Proposals /\ thread[t].steer \in Envelopes \cup {None}
  BY AtIsRequest DEF Record, ApprovalsInv, DecideSteps, SteerBounds
<1>2. PICK outcome \in {"rejected", "signed"} :
         decided' = [decided EXCEPT ![thread[t].rid] = Decision(thread[t].item, outcome, thread[t].steer)]
  BY DEF Record
<1>3. Decision(thread[t].item, outcome, thread[t].steer) # None
  BY <1>1, ApprovalsAssumption DEF Decision, Decisions
<1>4. Decision(thread[t].item, outcome, thread[t].steer).steer \in Steers \cup {None}
  BY <1>1 DEF Decision, ItemBounds
<1>5. \A q \in Rid : /\ decided[q] # None => decided'[q] # None
                     /\ decided'[q] # None => decided'[q].steer \in Steers \cup {None}
  BY <1>1, <1>2, <1>3, <1>4 DEF ApprovalsInv, ItemsInv, SteerBounds
<1>6. QED
  BY <1>1, <1>5, LeaveBounds DEF Record

LEMMA SteerBoundsStep == ApprovalsInv /\ SteerBounds /\ [ApprovalsNext]_approvalVars => SteerBounds'
<1> SUFFICES ASSUME ApprovalsInv, SteerBounds, [ApprovalsNext]_approvalVars PROVE SteerBounds'
  OBVIOUS
<1>1. ASSUME UNCHANGED <<thread, decided, signed>>, clock' \in 1 .. MaxTime,
             steerNonce' \in {None, steerNonce}
      PROVE  SteerBounds'
  BY <1>1, NothingDrawn DEF SteerBounds, At
<1>2. ASSUME NEW r \in Rid, NEW p \in Filed[r], Propose(r, p)
      PROVE  SteerBounds'
  BY <1>1, <1>2 DEF Propose, desk, SteerBounds
<1>3. CASE ShowCards \/ LoseNonce \/ \E s \in wire : \E p, d : Present(s, p, d)
  BY <1>1, <1>3 DEF ShowCards, LoseNonce, Present, desk, files, SteerBounds
<1>4. CASE (Tick \/ Rewind \/ UNCHANGED desk) /\ UNCHANGED approvals
  <2>1. clock' \in 1 .. MaxTime /\ UNCHANGED thread
    BY <1>4, DeskAssumption DEF Tick, Rewind, desk, SteerBounds
  <2>2. QED
    BY <1>1, <1>4, <2>1 DEF approvals, files
<1>5. CASE Die /\ UNCHANGED approvals
  <2>1. \A t \in Thread : thread'[t] = Idle
    BY <1>5 DEF Die
  <2>2. QED
    BY <1>5, <2>1, NothingDrawn DEF Die, SteerBounds, At, approvals, files
<1>6. ASSUME NEW t \in Thread, NEW c \in cards, Approve(t, c)
      PROVE  SteerBounds'
  <2>1. c.rid \in Rid
    BY DEF ApprovalsInv, ItemsInv
  <2>2. QED
    BY <1>6, <2>1, AskBounds DEF Approve, Viewable
<1>7. ASSUME NEW t \in Thread, NEW r \in Rid, Reject(t, r)
      PROVE  SteerBounds'
  BY <1>7, AskBounds DEF Reject
<1>8. ASSUME NEW t \in Thread, ClaimLost(t)
      PROVE  SteerBounds'
  BY <1>8, LeaveBounds DEF ClaimLost, At, approvals, files, SteerBounds
<1>9. ASSUME NEW t \in Thread, NEW arrives \in BOOLEAN, NEW raises \in BOOLEAN,
             Deliver(t, arrives, raises)
      PROVE  SteerBounds'
  BY <1>9, LeaveBounds DEF Deliver, At, files, SteerBounds
<1>10. QED
  BY <1>2, <1>3, <1>4, <1>5, <1>6, <1>7, <1>8, <1>9, ClaimBounds, SignDraws, RecordBounds
     DEF ApprovalsNext, approvalVars

\* Every file, request and steer of the approvals has its shape, and a nonce is
\* above the clock by no more than the requests that were decided.
THEOREM ApprovalsTypeCorrect == ApprovalsSpec => []ApprovalsTypeOK
<1>1. ApprovalsInv /\ SteerBounds /\ [ApprovalsNext]_approvalVars => (ApprovalsInv /\ SteerBounds)'
  BY ApprovalsInvStep, SteerBoundsStep
<1>2. QED
  BY <1>1, ApprovalsInvInit, SteerBoundsInit, BoundsGiveTypes, PTL DEF ApprovalsSpec
-----------------------------------------------------------------------------
(* What the human posts.                                                   *)

Post ==
  [op : {"say", "job"}, at : {"draw", "send", "confirm", "tell"}, room : Room, text : Line,
   held : {"passphrase", "open", "shut"}, nonce : Nat]
Signed ==
  [op : {"say", "job"}, room : Room, text : Line, held : {"passphrase", "open", "shut"},
   nonce : Nat, nth : Int]
Listed == [room : Room, text : Line, op : {"say", "job"}, nonce : Nat \cup {None}]

LinesInv ==
  /\ clock \in Nat
  /\ thread \in [Thread -> Post \cup {Idle}]
  /\ sayNonce \in Nat \cup {None}
  /\ high \in [Room -> Nat]
  /\ landed \subseteq Listed

LEMMA LinesInit == DeskInit /\ PostingInit => LinesInv
BY DEF DeskInit, PostingInit, LinesInv

LEMMA LinesStep == LinesInv /\ [PostingNext]_postingVars => LinesInv'
<1> SUFFICES ASSUME LinesInv, [PostingNext]_postingVars PROVE LinesInv'
  OBVIOUS
<1> USE DEF LinesInv, postingVars, desk, posting, chat, service
<1>1. CASE UnlockChat \/ LockChat \/ ChatStatus
  BY <1>1, PostingAssumption DEF UnlockChat, LockChat, ChatStatus, WipeExpired, ChatOpen
<1>2. ASSUME NEW t \in Thread, NEW text \in Line, NEW room \in Room,
             SayWithPassphrase(t, room, text) \/ PostJob(t, text)
      PROVE  LinesInv'
  <2>1. Posts("say", room, text, "passphrase") \in Post
    BY DEF Posts, Post
  <2>2. Posts("job", Board, text, "passphrase") \in Post
    BY PostingAssumption DEF Posts, Post
  <2>3. QED
    BY <1>2, <2>1, <2>2 DEF SayWithPassphrase, PostJob
<1>3. ASSUME NEW t \in Thread, NEW text \in Line, NEW room \in Room, SayUnlocked(t, room, text)
      PROVE  LinesInv'
  <2>1. Posts("say", room, text, "open") \in Post /\ Posts("say", room, text, "shut") \in Post
    BY DEF Posts, Post
  <2>2. thread' \in [Thread -> Post \cup {Idle}]
    BY <1>3, <2>1 DEF SayUnlocked
  <2>3. QED
    BY <1>3, <2>2 DEF SayUnlocked, WipeExpired, ChatOpen
<1>4. ASSUME NEW t \in Thread, SignLine(t)
      PROVE  LinesInv'
  <2>1. NextNonce(sayNonce) \in Nat
    BY NonceRises
  <2>2. [thread[t] EXCEPT !.at = "send", !.nonce = NextNonce(sayNonce)] \in Post
    BY <1>4, <2>1 DEF SignLine, At, Post
  <2>3. QED
    BY <1>4, <2>1, <2>2 DEF SignLine
<1>5. ASSUME NEW t \in Thread, NEW step \in {"confirm", "tell"}, thread[t] # Idle,
             Goto(t, step) \/ Answer(t)
      PROVE  thread' \in [Thread -> Post \cup {Idle}]
  <2>1. [thread[t] EXCEPT !.at = step] \in Post
    BY <1>5 DEF Post
  <2>2. QED
    BY <1>5, <2>1 DEF Goto, Answer
<1>6. ASSUME NEW t \in Thread, NEW arrives \in BOOLEAN, NEW keeps \in BOOLEAN, NEW lost \in BOOLEAN,
             Send(t, arrives, keeps, lost)
      PROVE  LinesInv'
  <2>1. thread[t] \in Post
    BY <1>6 DEF Send, At
  <2>2. Message(t) \in Listed
    BY <2>1 DEF Message, Listed, Post
  <2>3. thread' \in [Thread -> Post \cup {Idle}]
    BY <1>5, <1>6 DEF Send, SayAnswered, JobAnswered, At
  <2>4. high' \in [Room -> Nat]
    BY <1>6, <2>1 DEF Send, Post
  <2>5. landed' \subseteq Listed
    BY <1>6, <2>2 DEF Send
  <2>6. QED
    BY <1>6, <2>3, <2>4, <2>5 DEF Send
<1>7. ASSUME NEW t \in Thread, NEW seen \in {landed, {}}, Confirm(t, seen)
      PROVE  LinesInv'
  BY <1>5, <1>7 DEF Confirm, At
<1>8. ASSUME NEW t \in Thread, Tell(t)
      PROVE  LinesInv'
  BY <1>8 DEF Tell, Answer
<1>9. CASE LoseSayNonce \/ DieAll
  BY <1>9 DEF LoseSayNonce, DieAll, Die
<1>10. CASE (Tick \/ Rewind) /\ UNCHANGED posting
  BY <1>10 DEF Tick, Rewind
<1>11. CASE UNCHANGED postingVars
  BY <1>11
<1> HIDE DEF LinesInv
<1>12. QED
  BY <1>1, <1>2, <1>3, <1>4, <1>6, <1>7, <1>8, <1>9, <1>10, <1>11, PostingAssumption DEF PostingNext

\* Only SignLine signs.
LEMMA OtherSignSteps ==
  [PostingNext]_postingVars => (\E t \in Thread : SignLine(t)) \/ UNCHANGED signedLines
BY DEF PostingNext, postingVars, posting, chat, service, UnlockChat, LockChat, ChatStatus,
       SayWithPassphrase, SayUnlocked, PostJob, Send, Confirm, Tell, LoseSayNonce, DieAll
-----------------------------------------------------------------------------
(* Nonces.                                                                 *)

\* While its file lives, the counter is above every nonce used.
SayNonceInv ==
  ~sayLost =>
    /\ \A x \in signedLines : x.nonce \in Nat /\ sayNonce \in Nat /\ x.nonce <= sayNonce
    /\ OneNonceOneLine

LEMMA SayNonceStep == LinesInv /\ SayNonceInv /\ [PostingNext]_postingVars => SayNonceInv'
<1> SUFFICES ASSUME LinesInv, SayNonceInv, [PostingNext]_postingVars, ~sayLost' PROVE SayNonceInv'
  BY DEF SayNonceInv
<1>1. ASSUME NEW t \in Thread, SignLine(t)
      PROVE  SayNonceInv'
  <2> DEFINE n == NextNonce(sayNonce)
  <2>1. ~sayLost /\ sayNonce' = n
    BY <1>1 DEF SignLine
  <2>2. n \in Nat /\ (sayNonce \in Nat => n > sayNonce)
    BY NonceRises DEF LinesInv
  <2> DEFINE line == [room |-> thread[t].room, text |-> thread[t].text, nonce |-> n,
                      held |-> thread[t].held, op |-> thread[t].op,
                      nth |-> Cardinality(signedLines) + 1]
  <2>3. signedLines' = signedLines \cup {line} /\ line.nonce = n
    BY <1>1 DEF SignLine
  <2>4. \A x \in signedLines : x.nonce \in Nat /\ x.nonce < n
    BY <2>1, <2>2 DEF SayNonceInv
  <2> HIDE DEF n, line
  <2>5. \A x \in signedLines' : x.nonce \in Nat /\ x.nonce <= n
    BY <2>2, <2>3, <2>4
  <2>6. \A x, y \in signedLines' : x.nonce = y.nonce => x = y
    BY <2>1, <2>2, <2>3, <2>4 DEF SayNonceInv, OneNonceOneLine
  <2>7. QED
    BY <2>1, <2>2, <2>5, <2>6 DEF SayNonceInv, OneNonceOneLine
<1>2. CASE UNCHANGED <<signedLines, sayNonce, sayLost>>
  BY <1>2 DEF SayNonceInv, OneNonceOneLine
<1>3. ~LoseSayNonce
  BY DEF LoseSayNonce
<1>4. QED
  BY <1>1, <1>2, <1>3
     DEF PostingNext, postingVars, posting, chat, service, UnlockChat, LockChat, ChatStatus,
         SayWithPassphrase, SayUnlocked, PostJob, Send, Confirm, Tell, DieAll

\* No nonce signs two lines while the nonce file lives.
THEOREM NoncesSignOnce == PostingSpec => []OneNonceOneLine
<1>1. DeskInit /\ PostingInit => SayNonceInv
  BY DEF PostingInit, SayNonceInv, OneNonceOneLine
<1>2. SayNonceInv => OneNonceOneLine
  BY DEF SayNonceInv, OneNonceOneLine
<1>3. QED
  BY <1>1, <1>2, LinesInit, LinesStep, SayNonceStep, PTL DEF PostingSpec
-----------------------------------------------------------------------------
(* The held key.                                                           *)

\* A key that is held expires when the human was told it would, and a line that
\* was begun without the passphrase was begun before that.
HeldInv ==
  /\ chatKey => chatUntil = promised
  /\ \A t \in Thread : thread[t] # Idle /\ thread[t].held # "passphrase" =>
       thread[t].held = "open" /\ thread[t].op = "say"
  /\ HeldKeyWithinWindow

LEMMA HeldStep == LinesInv /\ HeldInv /\ [PostingNext]_postingVars => HeldInv'
<1> SUFFICES ASSUME LinesInv, HeldInv, [PostingNext]_postingVars PROVE HeldInv'
  OBVIOUS
<1> USE DEF HeldInv, HeldKeyWithinWindow
<1>1. CASE UnlockChat \/ LockChat
  BY <1>1 DEF UnlockChat, LockChat, desk
<1>2. CASE ChatStatus
  BY <1>2 DEF ChatStatus, WipeExpired, ChatOpen, desk
<1>3. ASSUME NEW t \in Thread, NEW text \in Line, NEW room \in Room,
             SayWithPassphrase(t, room, text) \/ PostJob(t, text)
      PROVE  HeldInv'
  <2>1. thread'[t].held = "passphrase" /\ \A u \in Thread \ {t} : thread'[u] = thread[u]
    BY <1>3 DEF SayWithPassphrase, PostJob, Posts, LinesInv
  <2>2. QED
    BY <1>3, <2>1 DEF SayWithPassphrase, PostJob, posting, chat
<1>4. ASSUME NEW t \in Thread, NEW text \in Line, NEW room \in Room, SayUnlocked(t, room, text)
      PROVE  HeldInv'
  <2>1. UNCHANGED <<promised, signedLines>> /\ (chatKey' => chatUntil' = promised)
    BY <1>4 DEF SayUnlocked, WipeExpired, ChatOpen
  <2>2. CASE ChatOpen
    <3>1. clock < promised
      BY <2>2 DEF ChatOpen
    <3>2. thread' = [thread EXCEPT ![t] = Posts("say", room, text, "open")]
      BY <1>4, <2>2, <3>1 DEF SayUnlocked
    <3>3. /\ thread'[t].held = "open" /\ thread'[t].op = "say"
          /\ \A u \in Thread \ {t} : thread'[u] = thread[u]
      BY <3>2 DEF Posts, LinesInv
    <3>4. QED
      BY <2>1, <3>3
  <2>3. CASE ~ChatOpen
    BY <1>4, <2>1, <2>3 DEF SayUnlocked
  <2>4. QED
    BY <2>2, <2>3
<1>5. ASSUME NEW t \in Thread, SignLine(t)
      PROVE  HeldInv'
  <2>1. PICK line : /\ signedLines' = signedLines \cup {line}
                    /\ line.held = thread[t].held /\ line.op = thread[t].op
    BY <1>5 DEF SignLine
  <2>2. thread[t] \in Post /\ thread[t] # Idle
    BY <1>5 DEF SignLine, At, LinesInv
  <2>3. /\ thread'[t].held = thread[t].held /\ thread'[t].op = thread[t].op
        /\ \A u \in Thread \ {t} : thread'[u] = thread[u]
    BY <1>5, <2>2 DEF SignLine, LinesInv, Post
  <2>4. QED
    BY <1>5, <2>1, <2>2, <2>3 DEF SignLine, chat
<1>6. ASSUME NEW t \in Thread, NEW step, At(t, step), Goto(t, "confirm") \/ Goto(t, "tell") \/ Answer(t),
             UNCHANGED <<chat, signedLines>>
      PROVE  HeldInv'
  <2>1. thread[t] \in Post /\ thread[t] # Idle
    BY <1>6 DEF At, LinesInv
  <2>2. ASSUME NEW to, Goto(t, to)
        PROVE  thread'[t].held = thread[t].held /\ thread'[t].op = thread[t].op
    BY <2>1, <2>2 DEF Goto, LinesInv, Post
  <2>3. \A u \in Thread \ {t} : thread'[u] = thread[u]
    BY <1>6 DEF Goto, Answer, LinesInv
  <2>4. Answer(t) => thread'[t] = Idle
    BY DEF Answer, LinesInv
  <2>5. QED
    BY <1>6, <2>1, <2>2, <2>3, <2>4 DEF chat
<1>7. ASSUME NEW t \in Thread,
             \/ \E arrives, keeps, lost \in BOOLEAN : Send(t, arrives, keeps, lost)
             \/ \E seen \in {landed, {}} : Confirm(t, seen)
             \/ Tell(t)
      PROVE  HeldInv'
  BY <1>6, <1>7 DEF Send, SayAnswered, JobAnswered, Confirm, Tell, posting
<1>8. CASE LoseSayNonce \/ DieAll \/ ((Tick \/ Rewind) /\ UNCHANGED posting)
  BY <1>8 DEF LoseSayNonce, DieAll, Die, Tick, Rewind, posting, chat, desk
<1>9. CASE UNCHANGED postingVars
  BY <1>9 DEF postingVars, posting, chat, desk
<1> HIDE DEF HeldInv
<1>10. QED
  BY <1>1, <1>2, <1>3, <1>4, <1>5, <1>7, <1>8, <1>9, PostingAssumption DEF PostingNext

\* A line signed without the passphrase was asked for within the window, by a
\* human whose last word was to unlock; no job is ever signed so.
THEOREM HeldKeyInTime == PostingSpec => []HeldKeyWithinWindow
<1>1. DeskInit /\ PostingInit => HeldInv
  BY DEF DeskInit, PostingInit, HeldInv, HeldKeyWithinWindow
<1>2. HeldInv => HeldKeyWithinWindow
  BY DEF HeldInv
<1>3. QED
  BY <1>1, <1>2, LinesInit, LinesStep, HeldStep, PTL DEF PostingSpec
-----------------------------------------------------------------------------
(* Honest answers.                                                         *)

\* A listed message bears the words of thread t.
Bears(m, t) ==
  /\ m.room = thread[t].room /\ m.op = thread[t].op /\ m.text = thread[t].text
  /\ m.nonce \in {None, thread[t].nonce}

\* The service used every listed nonce, and takes none twice in a room: so the
\* nonce of a line it took is listed with that line's own words only, although a
\* lost nonce file may have signed other words with it.
LandInv ==
  /\ \A m \in landed : m.nonce # None => m.nonce <= high[m.room]
  /\ \A t \in Thread : At(t, "confirm") =>
       /\ thread[t].op = "say" /\ thread[t].nonce <= high[thread[t].room]
       /\ \A m \in landed : m.room = thread[t].room /\ m.nonce = thread[t].nonce => Bears(m, t)
  /\ \A t \in Thread : At(t, "tell") => \E m \in landed : Bears(m, t)
  /\ ToldIsLanded

\* A thread that did not move sees more lines land, with nonces above its own.
LEMMA LandFrame ==
  ASSUME LinesInv, LandInv, NEW u \in Thread, thread'[u] = thread[u], landed \subseteq landed',
         \A r \in Room : high'[r] >= high[r], high' \in [Room -> Nat], landed' \subseteq Listed,
         \A m \in landed' \ landed : m.nonce # None => m.nonce > high[m.room]
  PROVE  /\ At(u, "confirm")' =>
              /\ thread[u].op = "say" /\ thread[u].nonce <= high'[thread[u].room]
              /\ \A m \in landed' : m.room = thread[u].room /\ m.nonce = thread[u].nonce =>
                   Bears(m, u)'
         /\ At(u, "tell")' => \E m \in landed' : Bears(m, u)'
<1>1. CASE At(u, "confirm")
  <2>1. thread[u] \in Post
    BY <1>1 DEF At, LinesInv
  <2>2. thread[u].nonce \in Nat /\ thread[u].room \in Room
    BY <2>1 DEF Post
  <2>3. /\ thread[u].op = "say" /\ thread[u].nonce <= high[thread[u].room]
        /\ \A m \in landed : m.room = thread[u].room /\ m.nonce = thread[u].nonce => Bears(m, u)
    BY <1>1 DEF LandInv
  <2>4. high[thread[u].room] \in Nat /\ high'[thread[u].room] \in Nat
    BY <2>2 DEF LinesInv
  <2>5. ASSUME NEW m \in landed' \ landed, m.room = thread[u].room, m.nonce = thread[u].nonce
        PROVE  FALSE
    <3>1. m.nonce # None
      BY <2>2, <2>5, DeskAssumption
    <3>2. m.nonce > high[m.room]
      BY <3>1
    <3>3. QED
      BY <2>2, <2>3, <2>4, <2>5, <3>2
  <2>6. thread[u].nonce <= high'[thread[u].room]
    BY <2>2, <2>3, <2>4
  <2>7. QED
    BY <1>1, <2>3, <2>5, <2>6 DEF Bears, At
<1>2. CASE ~At(u, "confirm")
  BY <1>2 DEF LandInv, Bears, At
<1>3. QED
  BY <1>1, <1>2

\* A step of another kind than Send: nothing lands, and no thread but t moves.
LEMMA LandStill ==
  ASSUME LinesInv, LandInv, NEW t \in Thread, UNCHANGED service,
         \A u \in Thread \ {t} : thread'[u] = thread[u],
         ~At(t, "confirm")', At(t, "tell")' => \E m \in landed' : Bears(m, t)',
         ToldIsLanded'
  PROVE  LandInv'
<1>1. high' = high /\ landed' = landed /\ \A r \in Room : high[r] \in Nat
  BY DEF service, LinesInv
<1>2. \A m \in landed' : m.nonce # None => m.nonce <= high'[m.room]
  BY <1>1 DEF LandInv
<1>3. ASSUME NEW u \in Thread \ {t}
      PROVE  /\ At(u, "confirm")' =>
                  /\ thread'[u].op = "say" /\ thread'[u].nonce <= high'[thread'[u].room]
                  /\ \A m \in landed' : m.room = thread'[u].room /\ m.nonce = thread'[u].nonce =>
                       Bears(m, u)'
             /\ At(u, "tell")' => \E m \in landed' : Bears(m, u)'
  BY <1>1, thread'[u] = thread[u] DEF LandInv, Bears, At
<1>4. QED
  BY <1>2, <1>3 DEF LandInv

LEMMA LandStep == LinesInv /\ LandInv /\ [PostingNext]_postingVars => LandInv'
<1> SUFFICES ASSUME LinesInv, LandInv, [PostingNext]_postingVars PROVE LandInv'
  OBVIOUS
<1>1. CASE UNCHANGED <<thread, service, told>>
  BY <1>1 DEF LandInv, Bears, At, ToldIsLanded, service
<1>2. ASSUME NEW t \in Thread, UNCHANGED <<service, told>>,
             \A u \in Thread \ {t} : thread'[u] = thread[u], ~At(t, "confirm")', ~At(t, "tell")'
      PROVE  LandInv'
  BY <1>2, LandStill DEF LandInv, ToldIsLanded, service
<1>3. ASSUME NEW t \in Thread, NEW text \in Line, NEW room \in Room,
             SayWithPassphrase(t, room, text) \/ PostJob(t, text)
      PROVE  LandInv'
  <2>1. thread'[t].at = "draw" /\ \A u \in Thread \ {t} : thread'[u] = thread[u]
    BY <1>3 DEF SayWithPassphrase, PostJob, Posts, LinesInv
  <2>2. QED
    BY <1>2, <1>3, <2>1 DEF SayWithPassphrase, PostJob, posting, At
<1>4. ASSUME NEW t \in Thread, NEW text \in Line, NEW room \in Room, SayUnlocked(t, room, text)
      PROVE  LandInv'
  <2>1. CASE ChatOpen
    <3>1. thread'[t].at = "draw" /\ \A u \in Thread \ {t} : thread'[u] = thread[u]
      BY <1>4, <2>1 DEF SayUnlocked, Posts, LinesInv
    <3>2. QED
      BY <1>2, <1>4, <3>1 DEF SayUnlocked, At
  <2>2. CASE ~ChatOpen
    BY <1>1, <1>4, <2>2 DEF SayUnlocked
  <2>3. QED
    BY <2>1, <2>2
<1>5. ASSUME NEW t \in Thread, SignLine(t)
      PROVE  LandInv'
  <2>1. thread[t] \in Post
    BY <1>5 DEF SignLine, At, LinesInv
  <2>2. thread'[t].at = "send" /\ \A u \in Thread \ {t} : thread'[u] = thread[u]
    BY <1>5, <2>1 DEF SignLine, LinesInv, Post
  <2>3. QED
    BY <1>2, <1>5, <2>2 DEF SignLine, At
<1>6. ASSUME NEW t \in Thread, Answer(t)
      PROVE  thread'[t] = Idle /\ \A u \in Thread \ {t} : thread'[u] = thread[u]
  BY <1>6 DEF Answer, LinesInv
<1>7. ASSUME NEW t \in Thread, NEW to \in {"confirm", "tell"}, Goto(t, to), thread[t] # Idle
      PROVE  /\ thread'[t] = [thread[t] EXCEPT !.at = to] /\ thread'[t].at = to
             /\ thread'[t].op = thread[t].op /\ thread'[t].room = thread[t].room
             /\ thread'[t].text = thread[t].text /\ thread'[t].nonce = thread[t].nonce
             /\ \A u \in Thread \ {t} : thread'[u] = thread[u]
  <2>1. thread[t] \in Post
    BY <1>7 DEF LinesInv
  <2>2. QED
    BY <1>7, <2>1 DEF Goto, LinesInv, Post
<1>8. ASSUME NEW t \in Thread, NEW arrives \in BOOLEAN, NEW keeps \in BOOLEAN, NEW lost \in BOOLEAN,
             Send(t, arrives, keeps, lost)
      PROVE  LandInv'
  <2>1. thread[t] # Idle /\ thread[t] \in Post /\ thread[t].room \in Room
           /\ thread[t].nonce \in Nat /\ high[thread[t].room] \in Nat
           /\ UNCHANGED told
    BY <1>8 DEF Send, At, LinesInv, Post
  <2>2. Message(t) \in Listed /\ Bears(Message(t), t) /\ Message(t).room = thread[t].room
           /\ Message(t).nonce \in {None, thread[t].nonce}
    BY <2>1, DeskAssumption DEF Message, Listed, Bears, Post
  <2>3. landed \subseteq landed' /\ landed' \subseteq landed \cup {Message(t)}
    BY <1>8 DEF Send
  <2>4. landed' \subseteq Listed /\ high' \in [Room -> Nat]
    BY LinesStep DEF LinesInv
  <2>5. \A r \in Room : high'[r] >= high[r]
    BY <1>8, <2>1 DEF Send, Takes, LinesInv
  <2>6. landed' # landed => Takes(t) /\ high'[thread[t].room] = thread[t].nonce
    BY <1>8, <2>1 DEF Send, LinesInv
  <2>7. \A m \in landed' \ landed : m.nonce # None => m.nonce > high[m.room]
    BY <2>1, <2>2, <2>3, <2>6 DEF Takes
  <2>8. \A m \in landed' : m.nonce # None => m.nonce <= high'[m.room]
    <3>1. ASSUME NEW m \in landed, m.nonce # None
          PROVE  m.nonce <= high'[m.room]
      <4>1. m.nonce \in Nat /\ m.room \in Room /\ m.nonce <= high[m.room]
        BY <3>1 DEF LandInv, LinesInv, Listed
      <4>2. high[m.room] \in Nat /\ high'[m.room] \in Nat /\ high'[m.room] >= high[m.room]
        BY <2>4, <2>5, <4>1 DEF LinesInv
      <4>3. QED
        BY <4>1, <4>2
    <3>2. QED
      BY <2>1, <2>2, <2>3, <2>6, <3>1
  <2>9. ToldIsLanded'
    BY <2>1, <2>3 DEF LandInv, ToldIsLanded
  <2>10. \A u \in Thread \ {t} : thread'[u] = thread[u]
    BY <1>6, <1>7, <1>8, <2>1 DEF Send, SayAnswered, JobAnswered
  <2>11. ASSUME At(t, "confirm")'
         PROVE  /\ thread'[t].op = "say" /\ thread'[t].nonce <= high'[thread'[t].room]
                /\ \A m \in landed' : m.room = thread'[t].room /\ m.nonce = thread'[t].nonce =>
                     Bears(m, t)'
    <3>1. thread[t].op # "job" /\ Goto(t, "confirm") /\ Takes(t)
             /\ high'[thread[t].room] = thread[t].nonce
      <4>1. ~Answer(t)
        BY <1>6, <2>11 DEF At
      <4>2. ~Goto(t, "tell")
        BY <1>7, <2>1, <2>11 DEF At
      <4>3. QED
        BY <1>8, <2>1, <4>1, <4>2 DEF Send, SayAnswered, JobAnswered, LinesInv
    <3>2. \A m \in landed : ~(m.room = thread[t].room /\ m.nonce = thread[t].nonce)
      <4> SUFFICES ASSUME NEW m \in landed, m.room = thread[t].room, m.nonce = thread[t].nonce
                   PROVE  FALSE
        OBVIOUS
      <4>1. m.nonce <= high[thread[t].room]
        BY <2>1, DeskAssumption DEF LandInv
      <4>2. QED
        BY <2>1, <3>1, <4>1 DEF Takes
    <3>3. thread[t].op = "say"
      BY <2>1, <3>1 DEF Post
    <3>4. /\ thread'[t].op = thread[t].op /\ thread'[t].room = thread[t].room
          /\ thread'[t].text = thread[t].text /\ thread'[t].nonce = thread[t].nonce
      BY <1>7, <2>1, <3>1
    <3>5. ASSUME NEW m \in landed', m.room = thread[t].room, m.nonce = thread[t].nonce
          PROVE  Bears(m, t)'
      <4>1. m = Message(t)
        BY <2>3, <3>2, <3>5
      <4>2. QED
        BY <2>2, <3>4, <4>1 DEF Bears
    <3>6. QED
      BY <2>1, <3>1, <3>3, <3>4, <3>5
  <2>12. ASSUME At(t, "tell")'
         PROVE  \E m \in landed' : Bears(m, t)'
    <3>1. Goto(t, "tell") /\ Message(t) \in landed'
      <4>1. ~Answer(t)
        BY <1>6, <2>12 DEF At
      <4>2. ~Goto(t, "confirm")
        BY <1>7, <2>1, <2>12 DEF At
      <4>3. QED
        BY <1>8, <4>1, <4>2 DEF Send, SayAnswered, JobAnswered
    <3>2. QED
      BY <1>7, <2>1, <2>2, <3>1 DEF Bears
  <2>13. ASSUME NEW u \in Thread \ {t}
         PROVE  /\ At(u, "confirm")' =>
                     /\ thread'[u].op = "say" /\ thread'[u].nonce <= high'[thread'[u].room]
                     /\ \A m \in landed' : m.room = thread'[u].room /\ m.nonce = thread'[u].nonce =>
                          Bears(m, u)'
                /\ At(u, "tell")' => \E m \in landed' : Bears(m, u)'
    <3>1. thread'[u] = thread[u]
      BY <2>10
    <3>2. QED
      BY <2>3, <2>4, <2>5, <2>7, <3>1, LandFrame
  <2>14. QED
    BY <2>8, <2>9, <2>11, <2>12, <2>13 DEF LandInv
<1>9. ASSUME NEW t \in Thread, NEW seen \in {landed, {}}, Confirm(t, seen)
      PROVE  LandInv'
  <2>1. thread[t] \in Post /\ thread[t] # Idle /\ At(t, "confirm")
    BY <1>9 DEF Confirm, At, LinesInv
  <2>2. CASE Answer(t)
    BY <1>2, <1>6, <1>9, <2>2 DEF Confirm, posting, At
  <2>3. ASSUME NEW m \in seen, Matches(m, t), Goto(t, "tell")
        PROVE  LandInv'
    <3>1. Bears(m, t)
      BY <2>1, <2>3, DeskAssumption DEF Matches, LandInv, Bears
    <3>2. m \in landed' /\ Bears(m, t)'
      BY <1>7, <1>9, <2>1, <2>3, <3>1 DEF Bears, Confirm, posting, service
    <3>3. ToldIsLanded' /\ UNCHANGED service
      BY <1>9 DEF Confirm, posting, service, LandInv, ToldIsLanded
    <3>4. ~At(t, "confirm")' /\ \A u \in Thread \ {t} : thread'[u] = thread[u]
      BY <1>7, <2>1, <2>3 DEF At
    <3>5. QED
      BY <3>2, <3>3, <3>4, LandStill
  <2>4. QED
    BY <1>9, <2>2, <2>3 DEF Confirm
<1>10. ASSUME NEW t \in Thread, Tell(t)
       PROVE  LandInv'
  <2>1. \E m \in landed : Bears(m, t)
    BY <1>10 DEF Tell, LandInv
  <2>2. ToldIsLanded' /\ UNCHANGED service
    BY <1>10, <2>1 DEF Tell, Bears, LandInv, ToldIsLanded, service
  <2>3. QED
    BY <1>6, <1>10, <2>2, LandStill DEF Tell, At
<1>11. CASE DieAll
  BY <1>11 DEF DieAll, Die, LandInv, At, ToldIsLanded, service
<1>12. CASE \/ UnlockChat \/ LockChat \/ ChatStatus \/ LoseSayNonce
            \/ (Tick \/ Rewind) /\ UNCHANGED posting
            \/ UNCHANGED postingVars
  BY <1>1, <1>12 DEF UnlockChat, LockChat, ChatStatus, LoseSayNonce, Tick, Rewind, postingVars,
                     posting, desk
<1>13. QED
  BY <1>3, <1>4, <1>5, <1>8, <1>9, <1>10, <1>11, <1>12, PostingAssumption DEF PostingNext

\* What the human is told is posted is in the room or on the board.
THEOREM ToldHasLanded == PostingSpec => []ToldIsLanded
<1>1. DeskInit /\ PostingInit => LandInv
  BY DEF DeskInit, PostingInit, LandInv, At, ToldIsLanded
<1>2. LandInv => ToldIsLanded
  BY DEF LandInv
<1>3. QED
  BY <1>1, <1>2, LinesInit, LinesStep, LandStep, PTL DEF PostingSpec
-----------------------------------------------------------------------------
(* The bounds of the postings.                                             *)

\* What a request to post adds to its types.
PostBounds(e) ==
  /\ e.room \in Room \ Reserved
  /\ e.op = "job" => e.room = Board
  /\ e.nonce <= MaxTime + MaxLines

\* Lines are numbered as they are signed, so each adds one to their number, and a
\* nonce is above the clock by no more than the lines that drew one.
CountInv ==
  /\ IsFiniteSet(signedLines) /\ IsFiniteSet(Busy)
  /\ Cardinality(signedLines) + Cardinality(Busy) <= MaxLines
  /\ \A x \in signedLines : x.nth \in Nat /\ x.nth <= Cardinality(signedLines)
  /\ sayNonce # None => 1 <= sayNonce /\ sayNonce <= MaxTime + Cardinality(signedLines)

LineBounds ==
  /\ clock \in 1 .. MaxTime
  /\ chatUntil \in 0 .. MaxTime + Window
  /\ \A t \in Thread : thread[t] # Idle => PostBounds(thread[t])
  /\ \A r \in Room : high[r] <= MaxTime + MaxLines
  /\ CountInv

LEMMA CountsAreNumbers ==
  ASSUME CountInv
  PROVE  Cardinality(signedLines) \in Nat /\ Cardinality(Busy) \in Nat
BY FS_CardinalityType DEF CountInv

LEMMA LineBoundsGiveTypes == LinesInv /\ LineBounds => PostingTypeOK
<1> SUFFICES ASSUME LinesInv, LineBounds PROVE PostingTypeOK
  OBVIOUS
<1>1. MaxTime \in Nat /\ MaxLines \in Nat /\ Cardinality(signedLines) \in Nat /\ Cardinality(Busy) \in Nat
  BY DeskAssumption, PostingAssumption, CountsAreNumbers DEF LineBounds
<1>2. Cardinality(signedLines) <= MaxLines
  BY <1>1 DEF LineBounds, CountInv
<1>3. ASSUME NEW t \in Thread, thread[t] # Idle
      PROVE  /\ thread[t].at \in {"draw", "send", "confirm", "tell"}
             /\ thread[t].room \in Room \ Reserved
             /\ thread[t].op = "job" => thread[t].room = Board
             /\ thread[t].nonce \in 0 .. MaxTime + MaxLines
  <2>1. thread[t] \in Post /\ PostBounds(thread[t])
    BY <1>3 DEF LinesInv, LineBounds
  <2>2. thread[t].nonce \in Nat /\ thread[t].nonce <= MaxTime + MaxLines
    BY <2>1 DEF Post, PostBounds
  <2>3. QED
    BY <1>1, <2>1, <2>2 DEF Post, PostBounds
<1>4. sayNonce \in 1 .. MaxTime + MaxLines \cup {None}
  <2>1. sayNonce \in Nat \cup {None}
    BY DEF LinesInv
  <2>2. QED
    BY <1>1, <1>2, <2>1 DEF LineBounds, CountInv
<1>5. high \in [Room -> 0 .. MaxTime + MaxLines]
  <2>1. \A r \in Room : high[r] \in 0 .. MaxTime + MaxLines
    BY <1>1 DEF LinesInv, LineBounds
  <2>2. QED
    BY <2>1 DEF LinesInv
<1>6. QED
  BY <1>2, <1>3, <1>4, <1>5 DEF PostingTypeOK, LineBounds

LEMMA LineBoundsInit == DeskInit /\ PostingInit => LineBounds
<1> SUFFICES ASSUME DeskInit, PostingInit PROVE LineBounds
  OBVIOUS
<1>1. Busy = {} /\ signedLines = {}
  BY DEF DeskInit, PostingInit, Busy, At
<1>2. CountInv
  BY <1>1, FS_EmptySet, PostingAssumption DEF PostingInit, CountInv
<1>3. QED
  BY <1>2, DeskAssumption, PostingAssumption DEF DeskInit, PostingInit, LineBounds

\* No line is signed, and at most thread t begins one, if the bound allows.
LEMMA BeginBounds ==
  ASSUME LinesInv, LineBounds, NEW t \in Thread, UNCHANGED <<clock, signedLines, high>>,
         sayNonce' \in {None, sayNonce}, chatUntil' \in 0 .. MaxTime + Window,
         \A u \in Thread : thread'[u] # Idle => PostBounds(thread'[u]),
         \A u \in Thread \ {t} : thread'[u] = thread[u],
         MayPost \/ ~At(t, "draw")'
  PROVE  LineBounds'
<1>1. /\ IsFiniteSet(Busy) /\ IsFiniteSet(Busy \cup {t})
      /\ Cardinality(Busy) \in Nat /\ Cardinality(signedLines) \in Nat
      /\ Cardinality(Busy \cup {t}) <= Cardinality(Busy) + 1
  <2>1. IsFiniteSet(Busy) /\ Cardinality(Busy) \in Nat /\ Cardinality(signedLines) \in Nat
    BY CountsAreNumbers DEF LineBounds, CountInv
  <2>2. /\ IsFiniteSet(Busy \cup {t})
        /\ Cardinality(Busy \cup {t}) = IF t \in Busy THEN Cardinality(Busy) ELSE Cardinality(Busy) + 1
    BY <2>1, FS_AddElement
  <2>3. QED
    BY <2>1, <2>2
<1>2. Busy' \subseteq Busy \cup {t} /\ (~At(t, "draw")' => Busy' \subseteq Busy)
  BY DEF Busy, At
<1>3. /\ IsFiniteSet(Busy') /\ Cardinality(Busy') \in Nat
      /\ Cardinality(Busy') <= Cardinality(Busy \cup {t})
      /\ ~At(t, "draw")' => Cardinality(Busy') <= Cardinality(Busy)
  BY <1>1, <1>2, FS_Subset, FS_CardinalityType
<1>4. Cardinality(signedLines) + Cardinality(Busy') <= MaxLines
  <2>1. MaxLines \in Nat /\ Cardinality(signedLines) + Cardinality(Busy) <= MaxLines
    BY PostingAssumption DEF LineBounds, CountInv
  <2>2. MayPost => Cardinality(signedLines) + Cardinality(Busy) < MaxLines
    BY DEF MayPost
  <2>3. Cardinality(Busy \cup {t}) \in Nat
    BY <1>1, FS_CardinalityType
  <2>4. QED
    BY <1>1, <1>3, <2>1, <2>2, <2>3
<1>5. CountInv'
  BY <1>3, <1>4 DEF LineBounds, CountInv
<1>6. QED
  BY <1>5 DEF LineBounds

\* The threads that are left hold their requests, as the clock and the service do.
LEMMA StillBounds ==
  ASSUME LinesInv, LineBounds, clock' \in 1 .. MaxTime, UNCHANGED signedLines,
         sayNonce' \in {None, sayNonce}, chatUntil' \in 0 .. MaxTime + Window,
         \A r \in Room : high'[r] <= MaxTime + MaxLines,
         \A u \in Thread : thread'[u] # Idle => PostBounds(thread'[u]),
         \A u \in Thread : At(u, "draw")' => At(u, "draw")
  PROVE  LineBounds'
<1>1. Busy' \subseteq Busy
  BY DEF Busy
<1>2. /\ IsFiniteSet(Busy') /\ Cardinality(Busy') \in Nat
      /\ Cardinality(Busy') <= Cardinality(Busy)
  BY <1>1, FS_Subset, FS_CardinalityType DEF LineBounds, CountInv
<1>3. Cardinality(signedLines) + Cardinality(Busy') <= MaxLines
  <2>1. MaxLines \in Nat /\ Cardinality(signedLines) + Cardinality(Busy) <= MaxLines
    BY PostingAssumption DEF LineBounds, CountInv
  <2>2. QED
    BY <1>2, <2>1, CountsAreNumbers DEF LineBounds
<1>4. CountInv'
  BY <1>2, <1>3 DEF LineBounds, CountInv
<1>5. QED
  BY <1>4 DEF LineBounds

LEMMA SignBounds ==
  ASSUME LinesInv, LineBounds, NEW t \in Thread, SignLine(t)
  PROVE  LineBounds'
<1> DEFINE n == NextNonce(sayNonce)
           k == Cardinality(signedLines)
           line == [room |-> thread[t].room, text |-> thread[t].text, nonce |-> n,
                    held |-> thread[t].held, op |-> thread[t].op, nth |-> k + 1]
           e == [thread[t] EXCEPT !.at = "send", !.nonce = n]
<1>1. /\ thread[t] # Idle /\ thread[t].at = "draw" /\ thread[t] \in Post /\ PostBounds(thread[t])
      /\ sayNonce' = n /\ signedLines' = signedLines \cup {line}
      /\ thread' = [thread EXCEPT ![t] = e] /\ UNCHANGED <<clock, chatUntil, high>>
  BY DEF SignLine, At, LinesInv, LineBounds, chat, service
<1>2. /\ IsFiniteSet(signedLines) /\ IsFiniteSet(Busy) /\ k \in Nat /\ Cardinality(Busy) \in Nat
      /\ MaxTime \in Nat /\ MaxLines \in Nat /\ clock \in 1 .. MaxTime
      /\ k + Cardinality(Busy) <= MaxLines
  BY CountsAreNumbers, DeskAssumption, PostingAssumption DEF LineBounds, CountInv
<1>3. line \notin signedLines /\ line.nth = k + 1
  <2>1. line.nth = k + 1
    OBVIOUS
  <2>2. \A x \in signedLines : x.nth \in Nat /\ x.nth <= k
    BY DEF LineBounds, CountInv
  <2> HIDE DEF line, k
  <2>3. QED
    BY <1>2, <2>1, <2>2
<1>4. e.at = "send" /\ e.room = thread[t].room /\ e.op = thread[t].op /\ e.nonce = n
  BY <1>1 DEF Post
<1> HIDE DEF line
<1>5. IsFiniteSet(signedLines') /\ Cardinality(signedLines') = k + 1
  BY <1>1, <1>2, <1>3, FS_AddElement
<1>6. IsFiniteSet(Busy') /\ Cardinality(Busy') \in Nat /\ Cardinality(Busy') = Cardinality(Busy) - 1
  <2> HIDE DEF e
  <2>1. thread'[t] = e /\ \A u \in Thread \ {t} : thread'[u] = thread[u]
    BY <1>1 DEF LinesInv
  <2>2. ~At(t, "draw")' /\ At(t, "draw")
    BY <1>1, <1>4, <2>1 DEF At
  <2>3. \A u \in Thread \ {t} : At(u, "draw")' <=> At(u, "draw")
    BY <2>1 DEF At
  <2>4. t \in Busy /\ Busy' = Busy \ {t}
    BY <2>2, <2>3 DEF Busy
  <2>5. QED
    BY <1>2, <2>4, FS_RemoveElement, FS_CardinalityType
<1>7. n \in Nat /\ 1 <= n /\ n <= MaxTime + k + 1
  <2>1. sayNonce \in Nat \cup {None}
    BY DEF LinesInv
  <2>2. CASE sayNonce = None
    BY <1>2, <2>2 DEF NextNonce
  <2>3. CASE sayNonce # None
    <3>1. sayNonce \in Nat /\ 1 <= sayNonce /\ sayNonce <= MaxTime + k
      BY <2>1, <2>3 DEF LineBounds, CountInv
    <3>2. n = IF sayNonce + 1 > clock THEN sayNonce + 1 ELSE clock
      BY <2>3 DEF NextNonce
    <3> HIDE DEF n, k
    <3>3. QED
      BY <1>2, <3>1, <3>2
  <2>4. QED
    BY <2>2, <2>3
<1> HIDE DEF n
<1>8. k + 1 <= MaxLines
  BY <1>2, <1>6
<1>9. CountInv'
  <2>1. \A x \in signedLines' : x.nth \in Nat /\ x.nth <= k + 1
    BY <1>1, <1>2, <1>3 DEF LineBounds, CountInv
  <2>2. Cardinality(signedLines') + Cardinality(Busy') <= MaxLines
    BY <1>2, <1>5, <1>6
  <2>3. 1 <= sayNonce' /\ sayNonce' <= MaxTime + Cardinality(signedLines')
    BY <1>1, <1>2, <1>5, <1>7
  <2>4. QED
    BY <1>5, <1>6, <2>1, <2>2, <2>3 DEF CountInv
<1>10. PostBounds(e)
  BY <1>1, <1>2, <1>4, <1>7, <1>8 DEF PostBounds
<1> HIDE DEF e
<1>11. \A u \in Thread : thread'[u] # Idle => PostBounds(thread'[u])
  BY <1>1, <1>10 DEF LinesInv, LineBounds
<1>12. QED
  BY <1>1, <1>9, <1>11 DEF LineBounds

LEMMA LineBoundsStep == LinesInv /\ LineBounds /\ [PostingNext]_postingVars => LineBounds'
<1> SUFFICES ASSUME LinesInv, LineBounds, [PostingNext]_postingVars PROVE LineBounds'
  OBVIOUS
<1>1. /\ MaxTime \in Nat \ {0} /\ Window \in Nat /\ clock \in 1 .. MaxTime /\ MaxLines \in Nat
      /\ 0 \in 0 .. MaxTime + Window /\ clock + Window \in 0 .. MaxTime + Window
      /\ chatUntil \in 0 .. MaxTime + Window
  BY DeskAssumption, PostingAssumption DEF LineBounds
<1>2. ASSUME UNCHANGED <<thread, signedLines, high>>, clock' \in 1 .. MaxTime,
             sayNonce' \in {None, sayNonce}, chatUntil' \in 0 .. MaxTime + Window
      PROVE  LineBounds'
  BY <1>2, StillBounds DEF LineBounds, At
<1>3. CASE UnlockChat \/ LockChat \/ ChatStatus \/ LoseSayNonce
  BY <1>1, <1>2, <1>3 DEF UnlockChat, LockChat, ChatStatus, WipeExpired, LoseSayNonce, desk, service, chat
<1>4. CASE DieAll
  <2>1. /\ \A u \in Thread : thread'[u] = Idle
        /\ UNCHANGED <<clock, signedLines, high, sayNonce>> /\ chatUntil' = 0
    BY <1>4 DEF DieAll, Die, service
  <2>2. QED
    BY <1>1, <2>1, StillBounds DEF At, LineBounds
<1>5. CASE (Tick \/ Rewind \/ UNCHANGED desk) /\ UNCHANGED posting
  <2>1. clock' \in 1 .. MaxTime /\ UNCHANGED thread
    BY <1>1, <1>5 DEF Tick, Rewind, desk
  <2>2. QED
    BY <1>1, <1>2, <1>5, <2>1 DEF posting, chat, service
<1>6. ASSUME NEW t \in Thread, NEW e, thread' = [thread EXCEPT ![t] = e], e # Idle => PostBounds(e)
      PROVE  /\ \A u \in Thread : thread'[u] # Idle => PostBounds(thread'[u])
             /\ \A u \in Thread \ {t} : thread'[u] = thread[u]
  BY <1>6 DEF LinesInv, LineBounds
<1>7. ASSUME NEW t \in Thread, NEW text, NEW room, NEW op \in {"say", "job"}, NEW held,
             thread' = [thread EXCEPT ![t] = Posts(op, room, text, held)], MayPost,
             room \in Room \ Reserved, op = "job" => room = Board,
             UNCHANGED <<clock, signedLines, high, sayNonce>>, chatUntil' \in {0, chatUntil}
      PROVE  LineBounds'
  <2>1. PostBounds(Posts(op, room, text, held))
    BY <1>1, <1>7 DEF PostBounds, Posts
  <2>2. /\ \A u \in Thread : thread'[u] # Idle => PostBounds(thread'[u])
        /\ \A u \in Thread \ {t} : thread'[u] = thread[u]
    BY <1>6, <1>7, <2>1
  <2>3. QED
    BY <1>1, <1>7, <2>2, BeginBounds
<1>8. ASSUME NEW t \in Thread, NEW text \in Line, NEW room \in Room,
             SayWithPassphrase(t, room, text) \/ PostJob(t, text)
      PROVE  LineBounds'
  BY <1>7, <1>8, PostingAssumption DEF SayWithPassphrase, PostJob, MaySpeak, posting, chat, service
<1>9. ASSUME NEW t \in Thread, NEW text \in Line, NEW room \in Room, SayUnlocked(t, room, text)
      PROVE  LineBounds'
  <2>1. CASE ChatOpen
    BY <1>7, <1>9, <2>1 DEF SayUnlocked, WipeExpired, MaySpeak, service
  <2>2. CASE ~ChatOpen
    BY <1>1, <1>2, <1>9, <2>2 DEF SayUnlocked, WipeExpired, service
  <2>3. QED
    BY <2>1, <2>2
<1>10. ASSUME NEW t \in Thread, NEW step \in {"confirm", "tell"}, thread[t] # Idle,
              Answer(t) \/ Goto(t, step), UNCHANGED <<clock, signedLines, sayNonce, chatUntil>>,
              \A r \in Room : high'[r] <= MaxTime + MaxLines
       PROVE  LineBounds'
  <2>1. thread[t] \in Post /\ PostBounds(thread[t])
    BY <1>10 DEF LinesInv, LineBounds
  <2> DEFINE e == [thread[t] EXCEPT !.at = step]
  <2>2. PostBounds(e) /\ e.at = step
    BY <2>1 DEF PostBounds, Post
  <2>3. thread' = [thread EXCEPT ![t] = Idle] \/ thread' = [thread EXCEPT ![t] = e]
    BY <1>10 DEF Answer, Goto
  <2> HIDE DEF e
  <2>4. /\ \A u \in Thread : thread'[u] # Idle => PostBounds(thread'[u])
        /\ \A u \in Thread \ {t} : thread'[u] = thread[u]
    BY <1>6, <2>2, <2>3
  <2>5. \A u \in Thread : At(u, "draw")' => At(u, "draw")
    BY <2>2, <2>3, <2>4 DEF At, LinesInv
  <2>6. QED
    BY <1>1, <1>10, <2>4, <2>5, StillBounds
<1>11. ASSUME NEW t \in Thread, NEW arrives \in BOOLEAN, NEW keeps \in BOOLEAN, NEW lost \in BOOLEAN,
              Send(t, arrives, keeps, lost)
       PROVE  LineBounds'
  <2>1. thread[t] # Idle /\ PostBounds(thread[t])
    BY <1>11 DEF Send, At, LineBounds
  <2>2. \A r \in Room : high'[r] <= MaxTime + MaxLines
    BY <1>11, <2>1 DEF Send, PostBounds, LineBounds, LinesInv
  <2>3. /\ \/ Answer(t) \/ Goto(t, "confirm") \/ Goto(t, "tell")
        /\ UNCHANGED <<clock, signedLines, sayNonce, chatUntil>>
    BY <1>11 DEF Send, JobAnswered, SayAnswered, chat
  <2>4. QED
    BY <1>10, <2>1, <2>2, <2>3
<1>12. ASSUME NEW t \in Thread, Tell(t) \/ \E seen \in {landed, {}} : Confirm(t, seen)
       PROVE  LineBounds'
  <2>1. /\ thread[t] # Idle
        /\ Answer(t) \/ Goto(t, "tell")
        /\ UNCHANGED <<clock, signedLines, sayNonce, chatUntil, high>>
    BY <1>12 DEF Tell, Confirm, At, posting, chat, service
  <2>2. QED
    BY <1>10, <2>1 DEF LineBounds
<1>13. QED
  BY <1>3, <1>4, <1>5, <1>8, <1>9, <1>11, <1>12, SignBounds, PostingAssumption
     DEF PostingNext, postingVars

\* Every request to post, the counter, the held key and the service have their
\* shape; a nonce is above the clock by no more than the lines signed, and the
\* reserved rooms are never posted to.
THEOREM PostingTypeCorrect == PostingSpec => []PostingTypeOK
<1>1. LinesInv /\ LineBounds /\ [PostingNext]_postingVars => (LinesInv /\ LineBounds)'
  BY LinesStep, LineBoundsStep
<1>2. QED
  BY <1>1, LinesInit, LineBoundsInit, LineBoundsGiveTypes, PTL DEF PostingSpec
-----------------------------------------------------------------------------
(* The three parts together: one moves, the others are as they began.      *)

PostingInv == LinesInv /\ SayNonceInv /\ HeldInv /\ LandInv /\ LineBounds

LEMMA PostingInvInit == DeskInit /\ PostingInit => PostingInv
<1> SUFFICES ASSUME DeskInit, PostingInit PROVE PostingInv
  OBVIOUS
<1>1. SayNonceInv
  BY DEF PostingInit, SayNonceInv, OneNonceOneLine
<1>2. HeldInv
  BY DEF DeskInit, PostingInit, HeldInv, HeldKeyWithinWindow
<1>3. LandInv
  BY DEF DeskInit, PostingInit, LandInv, At, ToldIsLanded
<1>4. QED
  BY <1>1, <1>2, <1>3, LinesInit, LineBoundsInit DEF PostingInv

LEMMA PostingInvStep == PostingInv /\ [PostingNext]_postingVars => PostingInv'
BY LinesStep, SayNonceStep, HeldStep, LandStep, LineBoundsStep DEF PostingInv

FocusInv ==
  /\ focus \in Approving \cup {"posting", "deploy"}
  /\ IF focus \in Approving THEN ApprovalsInv /\ SteerBounds ELSE ApprovalsInit
  /\ IF focus = "posting" THEN PostingInv ELSE PostingInit
  /\ IF focus = "deploy" THEN DeployInv /\ SecretInv ELSE DeployInit

LEMMA FocusInit == SpecInit => FocusInv
BY ApprovalsInvInit, SteerBoundsInit, PostingInvInit, FilesInit, KeepInit, CloudInit
   DEF SpecInit, FocusInv, DeployInv, Approving

LEMMA ApprovalsInitStill == ApprovalsInit /\ UNCHANGED approvals => ApprovalsInit'
BY DEF ApprovalsInit, approvals, files, verifier

LEMMA PostingInitStill == PostingInit /\ UNCHANGED posting => PostingInit'
BY DEF PostingInit, posting, chat, service

LEMMA DeployInitStill == DeployInit /\ UNCHANGED deploy => DeployInit'
BY DEF DeployInit, deploy, keystore, secretFile, engine, remote, Rel!Part, Where

LEMMA FocusStep ==
  FocusInv /\ [DeskNext]_<<focus, desk, approvals, posting, deploy>> => FocusInv'
<1> SUFFICES ASSUME FocusInv, [DeskNext]_<<focus, desk, approvals, posting, deploy>>
             PROVE  FocusInv'
  OBVIOUS
<1>1. UNCHANGED focus /\ focus \in Approving \cup {"posting", "deploy"}
  BY DEF DeskNext, FocusInv
<1>2. CASE focus \in Approving
  <2>1. [ApprovalsNext]_approvalVars /\ UNCHANGED <<posting, deploy>>
    BY <1>2 DEF DeskNext, approvalVars, Approving
  <2>2. ApprovalsInv' /\ SteerBounds'
    BY <1>2, <2>1, ApprovalsInvStep, SteerBoundsStep DEF FocusInv, Approving
  <2>3. PostingInit' /\ DeployInit'
    BY <1>2, <2>1, PostingInitStill, DeployInitStill DEF FocusInv, Approving
  <2>4. QED
    BY <1>1, <1>2, <2>2, <2>3 DEF FocusInv, Approving
<1>3. CASE focus = "posting"
  <2>1. [PostingNext]_postingVars /\ UNCHANGED <<approvals, deploy>>
    BY <1>3 DEF DeskNext, postingVars, Approving
  <2>2. PostingInv'
    BY <1>3, <2>1, PostingInvStep DEF FocusInv, Approving
  <2>3. ApprovalsInit' /\ DeployInit'
    BY <1>3, <2>1, ApprovalsInitStill, DeployInitStill DEF FocusInv, Approving
  <2>4. QED
    BY <1>1, <1>3, <2>2, <2>3 DEF FocusInv, Approving
<1>4. CASE focus = "deploy"
  <2>1. [DeployNext]_deployVars /\ UNCHANGED <<approvals, posting>>
    BY <1>4 DEF DeskNext, deployVars, Approving
  <2>2. DeployInv' /\ SecretInv'
    BY <1>4, <2>1, FilesStep, AgentStep, CloudStep, SecretStep DEF FocusInv, DeployInv, Approving
  <2>3. ApprovalsInit' /\ PostingInit'
    BY <1>4, <2>1, ApprovalsInitStill, PostingInitStill DEF FocusInv, Approving
  <2>4. QED
    BY <1>1, <1>4, <2>2, <2>3 DEF FocusInv, Approving
<1>5. QED
  BY <1>1, <1>2, <1>3, <1>4

LEMMA FocusHolds == Spec => []FocusInv
BY FocusInit, FocusStep, PTL DEF Spec

\* The locals of a request have the shape of the part that serves it.
THEOREM DeskTypeCorrect == Spec => []TypeOK
<1>1. FocusInv => TypeOK
  BY BoundsGiveTypes, LineBoundsGiveTypes, FilesGiveTypes DEF FocusInv, TypeOK, PostingInv, DeployInv
<1>2. QED
  BY <1>1, FocusHolds, PTL

\* Neither nonce file ever signs two things with one nonce, whichever part the
\* dashboard serves, while the file lives.
THEOREM EachNonceSignsOnce == Spec => []NoncesUsedOnce
<1>1. FocusInv => NoncesNeverReused
  BY DEF FocusInv, ApprovalsInv, SteerNonceInv, ApprovalsInit, NoncesNeverReused
<1>2. FocusInv => OneNonceOneLine
  BY DEF FocusInv, PostingInv, SayNonceInv, PostingInit, OneNonceOneLine
<1>3. QED
  BY <1>1, <1>2, FocusHolds, PTL DEF NoncesUsedOnce
=============================================================================
