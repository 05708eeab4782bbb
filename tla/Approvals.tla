------------------------------ MODULE Approvals ------------------------------
(***************************************************************************)
(* One-action approvals: the agent's proposals wait in pending/, the human  *)
(* reads a card, approves or rejects, and the dashboard claims the request  *)
(* by renaming its file to decided/, signs one steer, delivers it and       *)
(* writes the outcome (server.py, approve and reject).  The steer is        *)
(* verified where it is used (shared/steer.py, verify_steer).              *)
(***************************************************************************)
EXTENDS Desk, Consent

CONSTANTS
  Rid,          \* request ids, each filed once
  Filed,        \* what the agent may file under each
  Life          \* EXPIRY_SECONDS

Proposals == UNION {Filed[r] : r \in Rid}

\* The envelopes of steers, and what a decided record holds.
Envelopes ==
  [channel : {p.dest : p \in Proposals}, action : {ActionString(p) : p \in Proposals},
   nonce : Nat, expiry : Nat]
Decisions ==
  [item : Proposals, outcome : {"claimed", "signed", "rejected"}, steer : Envelopes \cup {None}]

ASSUME ApprovalsAssumption ==
  /\ Life \in Nat /\ DOMAIN Filed = Rid /\ IsFiniteSet(Rid)
  /\ None \notin Proposals \cup Decisions

VARIABLES
  pending,      \* pending/<rid>.json
  decided,      \* decided/<rid>.json
  steerNonce,   \* steer_nonce
  steerLost,    \* history: steer_nonce was lost or damaged
  wire,         \* steers handed to the writer
  seenNonces,   \* the verifier's replay store
  cards,        \* history: the cards the human was shown
  signed,       \* history: the steers signed, with their request
  answered,     \* history: requests the human was told are rejected
  accepted      \* history: steers that verified, with action, class, destination

files == <<pending, decided, steerNonce, steerLost>>
verifier == <<seenNonces, accepted>>
approvals == <<files, wire, verifier, cards, signed, answered>>
approvalVars == <<desk, approvals>>

Decision(item, outcome, steer) == [item |-> item, outcome |-> outcome, steer |-> steer]

ApprovalsInit ==
  /\ pending = [r \in Rid |-> None]
  /\ decided = [r \in Rid |-> None]
  /\ steerNonce = None
  /\ steerLost = FALSE
  /\ wire = {}
  /\ seenNonces = {}
  /\ cards = {}
  /\ signed = {}
  /\ answered = {}
  /\ accepted = {}

-----------------------------------------------------------------------------
\* _check_destination: an action that names its place must be filed for it.
DestinationAgrees(p) == EmbeddedDestination(p) \in {Nil, p.dest}

\* _card and approve build the same view, and refuse the same proposals.
Viewable(p) == DestinationAgrees(p) /\ Bindable(p) /\ Displayable(p)

\* A proposal is filed, or rewritten while it waits.
Propose(r, p) ==
  /\ decided[r] = None
  /\ pending' = [pending EXCEPT ![r] = p]
  /\ UNCHANGED <<desk, decided, steerNonce, steerLost, wire, verifier, cards, signed, answered>>

\* pending_cards: what cannot be shown in full is listed as broken instead.
ShowCards ==
  LET shown == {[rid |-> r, item |-> pending[r]] :
                  r \in {q \in Rid : pending[q] # None /\ Viewable(pending[q])}} IN
  /\ cards' = cards \cup shown
  /\ UNCHANGED <<desk, files, wire, verifier, signed, answered>>

Request(op, r) ==
  [op |-> op, at |-> "claim", rid |-> r, item |-> pending[r], steer |-> None]

\* Mutant: the commit of the card is not compared.
ApproveUnread(t, c) ==
  /\ thread[t] = Idle
  /\ pending[c.rid] # None
  /\ Viewable(pending[c.rid])
  /\ thread' = [thread EXCEPT ![t] = Request("approve", c.rid)]
  /\ UNCHANGED <<clock, approvals>>

\* The human approves from a card.  Refused without effect: no such request, an
\* item that cannot be bound, a commit that no longer matches, a passphrase
\* that does not open the key.
Approve(t, c) ==
  /\ thread[t] = Idle
  /\ pending[c.rid] # None
  /\ Viewable(pending[c.rid])
  /\ ActionCommit(pending[c.rid]) = ActionCommit(c.item)
  /\ thread' = [thread EXCEPT ![t] = Request("approve", c.rid)]
  /\ UNCHANGED <<clock, approvals>>

Reject(t, r) ==
  /\ thread[t] = Idle
  /\ pending[r] # None
  /\ thread' = [thread EXCEPT ![t] = Request("reject", r)]
  /\ UNCHANGED <<clock, approvals>>

\* Mutant: a rename that fails is not noticed.
ClaimRegardless(t) ==
  /\ At(t, "claim")
  /\ LET r == thread[t].rid IN
     /\ decided' = [decided EXCEPT ![r] = Decision(thread[t].item, "claimed", None)]
     /\ pending' = [pending EXCEPT ![r] = None]
  /\ Goto(t, IF thread[t].op = "approve" THEN "sign" ELSE "record")
  /\ UNCHANGED <<clock, steerNonce, steerLost, wire, verifier, cards, signed, answered>>

\* Mutant: the request is removed from pending/ and put nowhere.
ClaimByDelete(t) ==
  /\ At(t, "claim")
  /\ pending[thread[t].rid] # None
  /\ pending' = [pending EXCEPT ![thread[t].rid] = None]
  /\ Goto(t, IF thread[t].op = "approve" THEN "sign" ELSE "record")
  /\ UNCHANGED <<clock, decided, steerNonce, steerLost, wire, verifier, cards, signed, answered>>

\* os.replace moves the file that is there now; the request keeps what it read.
Claim(t) ==
  /\ At(t, "claim")
  /\ pending[thread[t].rid] # None
  /\ LET r == thread[t].rid IN
     /\ decided' = [decided EXCEPT ![r] = Decision(pending[r], "claimed", None)]
     /\ pending' = [pending EXCEPT ![r] = None]
  /\ Goto(t, IF thread[t].op = "approve" THEN "sign" ELSE "record")
  /\ UNCHANGED <<clock, steerNonce, steerLost, wire, verifier, cards, signed, answered>>

\* The other request was faster: 409.
ClaimLost(t) ==
  /\ At(t, "claim")
  /\ pending[thread[t].rid] = None
  /\ Answer(t)
  /\ UNCHANGED <<clock, approvals>>

\* Nonce, expiry and signature; build_steer raises on an empty channel.
Sign(t) ==
  LET p == thread[t].item
      n == NextNonce(steerNonce)
      s == BuildSteer(p, n, clock + Life) IN
  /\ At(t, "sign")
  /\ steerNonce' = n
  /\ IF p.dest = Nil
     THEN Answer(t) /\ UNCHANGED signed
     ELSE /\ signed' = signed \cup {[rid |-> thread[t].rid, item |-> p, steer |-> s]}
          /\ thread' = [thread EXCEPT ![t].at = "deliver", ![t].steer = s]
  /\ UNCHANGED <<clock, pending, decided, steerLost, wire, verifier, cards, answered>>

\* The injected writer, if there is one; one that raises may or may not have
\* delivered.
Deliver(t, arrives, raises) ==
  /\ At(t, "deliver")
  /\ wire' = IF arrives THEN wire \cup {thread[t].steer} ELSE wire
  /\ IF raises THEN Answer(t) ELSE Goto(t, "record")
  /\ UNCHANGED <<clock, files, verifier, cards, signed, answered>>

\* The decided record is overwritten with the outcome.
Record(t) ==
  /\ At(t, "record")
  /\ LET rejects == thread[t].op = "reject"
         r == thread[t].rid IN
     /\ decided' = [decided EXCEPT ![r] =
          Decision(thread[t].item, IF rejects THEN "rejected" ELSE "signed", thread[t].steer)]
     /\ answered' = IF rejects THEN answered \cup {r} ELSE answered
  /\ Answer(t)
  /\ UNCHANGED <<clock, pending, steerNonce, steerLost, wire, verifier, cards, signed>>

-----------------------------------------------------------------------------
\* A steer is presented for some proposal, about to land at some destination.
Present(s, p, destination) ==
  /\ VerifySteer(s, p, destination, clock, seenNonces)
  /\ seenNonces' = seenNonces \cup {s.nonce}
  /\ accepted' = accepted \cup
       {[steer |-> s, action |-> ActionString(p), klass |-> GrantClass(p, FALSE),
         dest |-> destination, nth |-> Cardinality(accepted) + 1]}
  /\ UNCHANGED <<desk, files, wire, cards, signed, answered>>

\* steer_nonce is deleted or damaged.
LoseNonce ==
  /\ steerNonce # None
  /\ steerNonce' = None
  /\ steerLost' = TRUE
  /\ UNCHANGED <<desk, pending, decided, wire, verifier, cards, signed, answered>>

ApprovalsNext ==
  \/ \E r \in Rid : \E p \in Filed[r] : Propose(r, p)
  \/ ShowCards
  \/ \E t \in Thread :
       \/ \E c \in cards : Approve(t, c)
       \/ \E r \in Rid : Reject(t, r)
       \/ Claim(t) \/ ClaimLost(t) \/ Sign(t) \/ Record(t)
       \/ \E a, b \in BOOLEAN : Deliver(t, a, b)
  \/ \E s \in wire, p \in Proposals, d \in {q.dest : q \in Proposals} : Present(s, p, d)
  \/ LoseNonce
  \/ (Die \/ Tick \/ Rewind) /\ UNCHANGED approvals

ApprovalsSpec == DeskInit /\ ApprovalsInit /\ [][ApprovalsNext]_approvalVars

-----------------------------------------------------------------------------
(* Properties.                                                             *)

Items == Proposals \cup {None}
Steers ==
  [channel : {p.dest : p \in Proposals} \ {Nil},
   action  : {ActionString(p) : p \in {q \in Proposals : Bindable(q)}},
   nonce   : 1 .. MaxTime + Cardinality(Rid),
   expiry  : Life + 1 .. Life + MaxTime]

\* The files, the steers and the requests in progress have the shapes the code
\* gives them; nonces rise by at most one above the clock for each request.
ApprovalsTypeOK ==
  /\ clock \in 1 .. MaxTime
  /\ \A t \in Thread :
       thread[t] # Idle =>
         /\ thread[t].op \in {"approve", "reject"}
         /\ thread[t].at \in {"claim", "sign", "deliver", "record"}
         /\ thread[t].rid \in Rid
         /\ thread[t].item \in Proposals
         /\ thread[t].steer \in Steers \cup {None}
  /\ pending \in [Rid -> Items]
  /\ decided \in [Rid -> Decisions \cup {None}]
  /\ \A r \in Rid : decided[r] # None => decided[r].steer \in Steers \cup {None}
  /\ steerNonce \in 1 .. MaxTime + Cardinality(Rid) \cup {None}
  /\ wire \subseteq Steers
  /\ answered \subseteq Rid

\* However approvals and rejections of one request race, and wherever the
\* process dies, a request is signed at most once, and never when the human was
\* told it is rejected (reject: "so it never signs and never shows again").
OneDecision ==
  \A x, y \in signed : x.rid = y.rid => x = y /\ x.rid \notin answered

\* Every signature is over an action whose card the human saw for that very
\* request, although the proposal may be rewritten at any moment; and the card
\* showed the bytes that hash to the signed hash.  (A RESULT that brings a hash
\* of its own is excepted: bound_content shows its text and compares nothing.)
SignedWasRead ==
  \A x \in signed : \E c \in cards :
    /\ c.rid = x.rid
    /\ ActionString(c.item) = x.steer.action
    /\ \A shown \in Shown(c.item) :
         Digest(shown) = x.steer.action.hash \/ (c.item.verb = "RESULT" /\ c.item.hash # Nil)

\* A request that was filed is never lost: it waits, or its decided record
\* exists, and that record tells of a steer only if that steer was signed and
\* of a rejection only if nothing was.
Accounted ==
  \A r \in Rid :
    /\ (\E c \in cards : c.rid = r) => pending[r] # None \/ decided[r] # None
    /\ decided[r] # None =>
         /\ decided[r].outcome = "signed" =>
              [rid |-> r, item |-> decided[r].item, steer |-> decided[r].steer] \in signed
         /\ decided[r].outcome = "rejected" => \A x \in signed : x.rid # r

\* What verifies is one approval, for the action, its class and the channel it
\* was signed for, and it verifies once, whoever presents it again.
AcceptedAsSigned ==
  /\ \A a \in accepted : \E x \in signed :
       /\ x.steer = a.steer /\ x.steer.action = a.action /\ x.steer.channel = a.dest
       /\ GrantClass(x.item, FALSE) = a.klass
  /\ \A a, b \in accepted : a.steer = b.steer => a = b

\* Two approvals never share a nonce, so that the replay store never refuses a
\* fresh one: neither concurrent approvals nor a clock set back repeat one.  Only
\* the loss of the nonce file can.
NoncesNeverReused ==
  ~steerLost => \A x, y \in signed : x.steer.nonce = y.steer.nonce => x = y
=============================================================================
