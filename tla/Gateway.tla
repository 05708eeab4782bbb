------------------------------ MODULE Gateway ------------------------------
(***************************************************************************)
(* The gateway (agent/src/index.ts, gateway-core.ts, model-proxy.ts): the   *)
(* only holder of the agent's key.  Its RPCs run concurrently, each cut     *)
(* where it awaits: the board, the Governor, a signature, the model, a      *)
(* note.  The Governor is SpendAuthority, extended, which Governor.tla is   *)
(* shown to implement.                                                      *)
(*                                                                         *)
(* The key signs three kinds of thing: a message or note of the agent,      *)
(* reserved first; the activity ring, written while a grant is live; and    *)
(* the health note, written after each model call.                          *)
(***************************************************************************)
EXTENDS SpendAuthority, Sequences

CONSTANTS
  Caller,       \* RPCs in progress
  Idle,         \* no call
  Text,         \* what is signed; for an attestation, the result's hash
  NoText,       \* nothing posted; nothing to sign
  Foreign,      \* a line a stranger wrote
  MaxRing,      \* MAX_ACTIVITY_ENTRIES
  Posts,        \* what the board may come to hold
  MaxAsks,      \* bound: calls of complete
  MaxLines      \* bound: digests handed to noteActivity

Match == "ATTEST:useful:board-match"
NoMatch == "ATTEST:useful:no-board-match"
NotUseful == "ATTEST:not"
Model == "MODEL"
NoClass == "none"

ASSUME GatewayAssumption ==
  /\ MaxRing \in Nat \ {0}
  /\ MaxAsks \in Nat
  /\ MaxLines \in Nat
  /\ Posts \subseteq [text : Text \cup {NoText}, ours : BOOLEAN]
  /\ IsFiniteSet(Caller)
  /\ Nonce \subseteq Nat
  /\ NoScope \notin Scope
  /\ NoText \notin Text
  /\ Foreign \notin Nat
  /\ NoGrant \notin Grants

\* The class of a call; noteActivity has none.
Kind == Class \cup {Match, Model, NoClass}

Line == 1 .. MaxLines
Ring == {r \in Seq(Line) : Len(r) <= MaxRing}

\* The locals of a call, and the step it does next.
Call ==
  [op : {"sign", "complete", "note"},
   at : {"board", "reserve", "key", "invoke", "health", "check", "read", "write"},
   klass : Kind, scope : Scope \cup {NoScope}, nonce : Nonce \cup {0},
   text : Text \cup {NoText}, serial : Nat, line : Line \cup {0}, ring : Ring]

\* What a call met since it began: in force, and posted by others.
Since == [met : SUBSET {"live", "stop", "none"}, posted : SUBSET Text]

\* A message, a note or a kibble line the key signed.
Signature ==
  [serial : Nat, klass : Kind, scope : Scope, nonce : Nonce, text : Text]

VARIABLES
  calls,        \* the calls in progress
  board,        \* the job's result on the kibble board, and whether it is ours
  feed,         \* the activity slot, and whether its envelope verifies
  asked,        \* calls of complete so far
  noted,        \* digests handed to noteActivity
  invoked,      \* history: model invocations
  signatures,   \* history: what the key signed for sign ...
  rings,        \* ... for noteActivity ...
  reports,      \* ... and, by number, for the health note
  since         \* history: what each running call met

authority == <<inForce, barred, ledger>>
counts == <<asked, noted>>
history == <<invoked, signatures, rings, reports>>
gateway == <<calls, board, feed, counts, history, since>>
all == <<authority, gateway>>

TypeOK ==
  /\ calls \in [Caller -> Call \cup {Idle}]
  /\ board \in [text : Text \cup {NoText}, ours : BOOLEAN]
  /\ feed.ours \in BOOLEAN
  /\ feed.ours => feed.lines \in Ring
  /\ asked \in 0 .. MaxAsks
  /\ noted \in 0 .. MaxLines
  /\ invoked \in Nat
  /\ signatures \subseteq Signature
  /\ rings \subseteq Ring
  /\ reports \in Nat
  /\ since \in [Caller -> Since]

-----------------------------------------------------------------------------
\* hasLiveGrant: a grant is in force, and it is no STOP.
Live(g) == g # NoGrant /\ g.id \notin barred /\ DOMAIN g.allow # {}

Status(g) == IF Live(g) THEN "live" ELSE IF g = NoGrant THEN "none" ELSE "stop"

\* A call that does not run met nothing.
Nothing == [met |-> {}, posted |-> {}]

\* The result a board holds, unless it is our own delivery.
Others(b) == IF b.text # NoText /\ ~b.ours THEN {b.text} ELSE {}

GatewayInit ==
  /\ Init
  /\ calls = [c \in Caller |-> Idle]
  /\ board = [text |-> NoText, ours |-> FALSE]
  /\ feed = [ours |-> FALSE, lines |-> <<>>]
  /\ asked = 0
  /\ noted = 0
  /\ invoked = 0
  /\ signatures = {}
  /\ rings = {}
  /\ reports = 0
  /\ since = [c \in Caller |-> Nothing]

At(c, op, step) == calls[c] # Idle /\ calls[c].op = op /\ calls[c].at = step

Goto(c, step) == calls' = [calls EXCEPT ![c].at = step]

Return(c) ==
  /\ calls' = [calls EXCEPT ![c] = Idle]
  /\ since' = [since EXCEPT ![c] = Nothing]

Enter(c, call) ==
  /\ calls[c] = Idle
  /\ calls' = [calls EXCEPT ![c] = call]
  /\ since' = [since EXCEPT ![c] = [met |-> {Status(inForce)}, posted |-> Others(board)]]
  /\ UNCHANGED <<authority, board, feed, history>>

-----------------------------------------------------------------------------
(* sign: a message, a note or a kibble line.                               *)

Request(k, s, n, t, step) ==
  [op |-> "sign", at |-> step, klass |-> k, scope |-> s, nonce |-> n, text |-> t,
   serial |-> 0, line |-> 0, ring |-> <<>>]

\* SAY, CLAIM, RESULT and the note go straight to the Governor.
BeginSign(c, k, s, n, t) ==
  /\ k \notin {Match, NoMatch, NotUseful, Model}
  /\ Enter(c, Request(k, s, n, t, "reserve"))
  /\ UNCHANGED counts

\* An attestation reads the board first.
BeginAttest(c, k, s, n, t) ==
  /\ k \in {NoMatch, NotUseful}
  /\ Enter(c, Request(k, s, n, t, "board"))
  /\ UNCHANGED counts

\* Mutant: the worker of the job is not looked at.
PostedByAnyone(t) == board.text = t

\* readJobResultHash: what the board holds, unless the delivery is our own.
PostedByOther(t) == board.text = t /\ ~board.ours

\* deriveBoardMatch, and with it the class; a failed read matches nothing.
ReadBoard(c, reads) ==
  /\ At(c, "sign", "board")
  /\ calls' = [calls EXCEPT
       ![c].at = "reserve",
       ![c].klass = IF @ = NoMatch /\ reads /\ PostedByOther(calls[c].text)
                    THEN Match ELSE @]
  /\ UNCHANGED <<authority, board, feed, counts, history, since>>

\* Mutant: the answer of the Governor is not looked at.
ReserveOrNot(c, w) ==
  /\ calls[c] # Idle
  /\ calls[c].at = "reserve"
  /\ \/ Spend(calls[c].klass, w, calls[c].scope, calls[c].nonce)
     \/ UNCHANGED authority
  /\ calls' = [calls EXCEPT
       ![c].serial = Cardinality(ledger) + 1,
       ![c].at = IF calls[c].op = "sign" THEN "key" ELSE "invoke"]
  /\ UNCHANGED <<board, feed, counts, history, since>>

\* The Governor answers OK: for sign and complete alike.
Reserve(c, w) ==
  /\ calls[c] # Idle
  /\ calls[c].at = "reserve"
  /\ Spend(calls[c].klass, w, calls[c].scope, calls[c].nonce)
  /\ calls' = [calls EXCEPT
       ![c].serial = Cardinality(ledger) + 1,
       ![c].at = IF calls[c].op = "sign" THEN "key" ELSE "invoke"]
  /\ UNCHANGED <<board, feed, counts, history, since>>

\* It answers anything else, or its answer, an OK even, is lost; complete still
\* reports its health.
Gated(c) ==
  /\ calls[c] # Idle
  /\ \/ calls[c].at = "reserve"
     \/ At(c, "sign", "key") \/ At(c, "complete", "invoke")
  /\ IF calls[c].op = "sign" THEN Return(c) ELSE Goto(c, "health") /\ UNCHANGED since
  /\ UNCHANGED <<authority, board, feed, counts, history>>

SignMessage(c) ==
  /\ At(c, "sign", "key")
  /\ signatures' = signatures \cup
       {[serial |-> calls[c].serial, klass |-> calls[c].klass,
         scope |-> calls[c].scope, nonce |-> calls[c].nonce, text |-> calls[c].text]}
  /\ Return(c)
  /\ UNCHANGED <<authority, board, feed, counts, invoked, rings, reports>>

-----------------------------------------------------------------------------
(* complete: one model call.                                               *)

BeginComplete(c) ==
  /\ asked < MaxAsks
  /\ asked' = asked + 1
  /\ Enter(c, [op |-> "complete", at |-> "reserve", klass |-> Model,
               scope |-> NoScope, nonce |-> 0, text |-> NoText, serial |-> 0,
               line |-> 0, ring |-> <<>>])
  /\ UNCHANGED noted

\* Mutant: a model that did not answer is asked again.
InvokeAgain(c, answered) ==
  /\ At(c, "complete", "invoke")
  /\ invoked' = invoked + (IF answered THEN 1 ELSE 2)
  /\ Goto(c, "health")
  /\ UNCHANGED <<authority, board, feed, counts, signatures, rings, reports, since>>

\* The model is asked once, whether it answers or fails.
Invoke(c, answered) ==
  /\ At(c, "complete", "invoke")
  /\ invoked' = invoked + 1
  /\ Goto(c, "health")
  /\ UNCHANGED <<authority, board, feed, counts, signatures, rings, reports, since>>

\* publishHealth, in waitUntil, whatever the outcome was.
PublishHealth(c) ==
  /\ At(c, "complete", "health")
  /\ reports' = reports + 1
  /\ Return(c)
  /\ UNCHANGED <<authority, board, feed, counts, invoked, signatures, rings>>

-----------------------------------------------------------------------------
(* noteActivity: one line for the owner's feed.                            *)

BeginNote(c) ==
  /\ noted < MaxLines
  /\ noted' = noted + 1
  /\ Enter(c, [op |-> "note", at |-> "check", klass |-> NoClass, scope |-> NoScope,
               nonce |-> 0, text |-> NoText, serial |-> 0, line |-> noted + 1,
               ring |-> <<>>])
  /\ UNCHANGED asked

\* Mutant: the check is for a grant, and a STOP is one.
CheckGrant(c, ok) ==
  /\ At(c, "note", "check")
  /\ IF ok /\ inForce # NoGrant /\ inForce.id \notin barred
     THEN Goto(c, "read") /\ UNCHANGED since ELSE Return(c)
  /\ UNCHANGED <<authority, board, feed, counts, history>>

\* hasLiveGrant; it also answers no when the grant expired, or on an error.
CheckLive(c, ok) ==
  /\ At(c, "note", "check")
  /\ IF ok /\ Live(inForce) THEN Goto(c, "read") /\ UNCHANGED since ELSE Return(c)
  /\ UNCHANGED <<authority, board, feed, counts, history>>

\* Mutant: one line too many.
FitOneMore(prior, line, fits) ==
  LET ring == Append(prior, line) IN
  IF Len(ring) <= fits + 1 THEN ring ELSE SubSeq(ring, Len(ring) - fits, Len(ring))

\* fitActivityRing: the newest lines, at most as many as fit, the last for sure.
Fit(prior, line, fits) ==
  LET ring == Append(prior, line) IN
  IF Len(ring) <= fits THEN ring ELSE SubSeq(ring, Len(ring) - fits + 1, Len(ring))

\* Mutant: the envelope in the slot is not verified.
UnverifiedRing == feed.lines

\* readOwnActivityRing drops what we did not sign.
OwnRing == IF feed.ours THEN feed.lines ELSE <<>>

\* A failed read counts as an empty slot.
ReadRing(c, reads, fits) ==
  /\ At(c, "note", "read")
  /\ calls' = [calls EXCEPT
       ![c].at = "key",
       ![c].ring = Fit(IF reads THEN OwnRing ELSE <<>>, calls[c].line, fits)]
  /\ UNCHANGED <<authority, board, feed, counts, history, since>>

SignRing(c) ==
  /\ At(c, "note", "key")
  /\ rings' = rings \cup {calls[c].ring}
  /\ Goto(c, "write")
  /\ UNCHANGED <<authority, board, feed, counts, invoked, signatures, reports, since>>

\* One write, which may be lost.
WriteRing(c, kept) ==
  /\ At(c, "note", "write")
  /\ feed' = IF kept THEN [ours |-> TRUE, lines |-> calls[c].ring] ELSE feed
  /\ Return(c)
  /\ UNCHANGED <<authority, board, counts, history>>

-----------------------------------------------------------------------------
(* The world around the gateway.                                           *)

\* A note is world-writable: a stranger's bytes, or an envelope of ours again.
Overwrite ==
  /\ rings # {}
  /\ \/ feed' = [ours |-> FALSE, lines |-> <<Foreign>>]
     \/ \E r \in rings : feed' = [ours |-> TRUE, lines |-> r]
  /\ UNCHANGED <<authority, calls, board, counts, history, since>>

\* The board changes under the calls that are running.
Post(b) ==
  /\ board' = b
  /\ since' = [c \in Caller |->
       IF calls[c] = Idle THEN since[c]
       ELSE [since[c] EXCEPT !.posted = @ \cup Others(b)]]
  /\ UNCHANGED <<authority, calls, feed, counts, history>>

\* The Governor applies a newer grant, or a STOP.
Steer(g) ==
  /\ inForce # NoGrant => g.issued > inForce.issued
  /\ Install(g)
  /\ since' = [c \in Caller |->
       IF calls[c] = Idle THEN since[c]
       ELSE [since[c] EXCEPT !.met = @ \cup {Status(g)}]]
  /\ UNCHANGED <<calls, board, feed, counts, history>>

\* The isolate goes away, or the caller does.
Evict(c) ==
  /\ calls[c] # Idle
  /\ Return(c)
  /\ UNCHANGED <<authority, board, feed, counts, history>>

Step(c) ==
  \/ \E k \in Class, s \in Scope, n \in Nonce, t \in Text :
       BeginSign(c, k, s, n, t) \/ BeginAttest(c, k, s, n, t)
  \/ \E reads \in BOOLEAN : ReadBoard(c, reads)
  \/ \E w \in Time : Reserve(c, w)
  \/ Gated(c)
  \/ SignMessage(c)
  \/ BeginComplete(c)
  \/ \E answered \in BOOLEAN : Invoke(c, answered)
  \/ PublishHealth(c)
  \/ BeginNote(c)
  \/ \E ok \in BOOLEAN : CheckLive(c, ok)
  \/ \E reads \in BOOLEAN, fits \in 1 .. MaxRing : ReadRing(c, reads, fits)
  \/ SignRing(c)
  \/ \E kept \in BOOLEAN : WriteRing(c, kept)
  \/ Evict(c)

GatewayNext ==
  \/ \E c \in Caller : Step(c)
  \/ \E b \in Posts : Post(b)
  \/ \E g \in Grants : Steer(g)
  \/ Overwrite

GatewaySpec == GatewayInit /\ [][GatewayNext]_all

-----------------------------------------------------------------------------
(* Properties.                                                             *)

\* Every message the key signed was reserved, with that class, scope and nonce,
\* and no reservation paid for two, although calls are cut between the
\* reservation and the signature and the isolate may go away there.
SignaturesArePaid ==
  /\ \A s \in signatures :
       \E e \in ledger : /\ e.serial = s.serial
                         /\ e.klass = s.klass
                         /\ e.scope = s.scope
                         /\ e.nonce = s.nonce
  /\ \A s, u \in signatures : s.serial = u.serial => s = u

\* In one scope the key never signs two different texts under one nonce.
NoncesNameOneText ==
  \A s, u \in signatures : s.scope = u.scope /\ s.nonce = u.nonce => s.text = u.text

\* The model is never asked more often than was reserved (modelComplete
\* reserves first and does not retry).
ModelCallsArePaid ==
  invoked <= Cardinality({e \in ledger : e.klass = Model})

\* A ring we sign holds our own lines only, none twice and no more than fit,
\* whoever wrote the slot in between (readOwnActivityRing: never "re-sign
\* foreign lines as ours").
RingsAreOurs ==
  \A r \in rings :
    /\ Len(r) \in 1 .. MaxRing
    /\ \A i \in 1 .. Len(r) : r[i] \in 1 .. noted
    /\ \A i, j \in 1 .. Len(r) : i # j => r[i] # r[j]

\* An attestation is signed as board-matched only for a result that someone
\* else had on the board while the call ran; the board moves between the
\* read and the reservation (readJobResultHash, deriveBoardMatch).
MatchesAreOthersWork ==
  [][\A s \in signatures' \ signatures, c \in Caller :
       s.klass = Match /\ At(c, "sign", "key") /\ calls[c].serial = s.serial
         => s.text \in since[c].posted]_all

\* A step that signs for call c: a message, a ring or a health note.
Signs(c) ==
  /\ calls[c] # Idle
  /\ calls'[c] # calls[c]
  /\ signatures' # signatures \/ rings' # rings \/ reports' # reports

\* A call that has met no live grant since it began does not use the key for a
\* message or for the activity ring.
GatedSurfacesGoDark ==
  [][\A c \in Caller :
       Signs(c) /\ calls[c].op # "complete" => "live" \in since[c].met]_all
=============================================================================
