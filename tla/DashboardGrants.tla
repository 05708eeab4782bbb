--------------------------- MODULE DashboardGrants ---------------------------
(***************************************************************************)
(* How the dashboard (dashboard/server.py) links an agent and issues, stops *)
(* and re-sends the owner's grant.  The HTTP server runs each request in a  *)
(* thread of its own; a request is a sequence of steps cut where another    *)
(* thread, a crash or the network can come in between: every file write,    *)
(* every write to the note slot and its read-back.                          *)
(*                                                                         *)
(* The note slot is last-write-wins and unsigned (protocol_client.py).      *)
(***************************************************************************)
EXTENDS Integers

CONSTANTS
  Req,          \* request threads
  Idle,         \* a thread that serves nothing
  Free,         \* nobody holds _grant_lock
  Agents,       \* dids of agents the owner has
  NoAgent,      \* no agent.json
  Unreadable,   \* a file that is present and does not parse
  NoDoc,        \* no grant
  Allows,       \* whether a signed grant allows anything, as the owner picks
  Lives,        \* durations the owner picks
  StopLife,     \* STOP_GRANT_SECONDS
  Attempts,     \* WRITE_ATTEMPTS
  Faults,       \* files that get damaged: subset of {"agent", "grant", "revoked"}
  MaxGrants,    \* bound: documents signed
  MaxTime       \* bound: last reading of the clock

Time == 0 .. MaxTime
Id == 1 .. MaxGrants

\* A signed grant; a STOP is one that allows nothing.
Doc ==
  [id : Id, agent : Agents, issued : Time, expiry : Nat, live : BOOLEAN]

ASSUME DashboardAssumption ==
  /\ Allows \subseteq BOOLEAN
  /\ Lives \subseteq Nat
  /\ StopLife \in Nat
  /\ Attempts \in Nat \ {0}
  /\ Faults \subseteq {"agent", "grant", "revoked"}
  /\ MaxGrants \in Nat
  /\ MaxTime \in Nat \ {0}
  /\ Free \notin Req
  /\ {NoAgent, Unreadable} \cap Agents = {} /\ NoAgent # Unreadable
  /\ NoDoc \notin Doc

\* grant.json: the grant, whether it was delivered, and the stop flag.
Record ==
  [grant : Doc \cup {NoDoc}, published : {"yes", "no", "pending"}, isStop : BOOLEAN]

Rec(d, p, s) == [grant |-> d, published |-> p, isStop |-> s]
Blank == Rec(NoDoc, "pending", FALSE)

\* The locals of a request in progress, and the step it does next.
Request ==
  [op    : {"sign", "stop", "resend", "link", "unlink"},
   at    : {"build", "store", "bar", "put", "confirm", "record", "relink"},
   agent : Agents \cup {NoAgent},
   doc   : Doc \cup {NoDoc},
   stop  : BOOLEAN,
   old   : Id \cup {0},
   tries : 0 .. Attempts,
   ok    : BOOLEAN]

VARIABLES
  clock,        \* self.clock(), in seconds
  agentFile,    \* agent.json
  record,       \* grant.json
  barred,       \* revoked_grants.json
  lock,         \* _grant_lock
  req,          \* the request threads
  slot,         \* the owner's note slot
  late,         \* writes the client gave up on that may still reach the slot
  nextId,       \* the next grant id (secrets.token_hex: never used before)
  landed,       \* history: every document the slot ever held
  told          \* history: documents the owner was told were delivered

files == <<agentFile, record, barred>>
wire == <<slot, late, landed>>
vars == <<clock, files, lock, req, wire, nextId, told>>

TypeOK ==
  /\ clock \in Time
  /\ agentFile \in Agents \cup {NoAgent, Unreadable}
  /\ record \in Record \cup {Unreadable}
  /\ barred = Unreadable \/ barred \subseteq Id
  /\ lock \in Req \cup {Free}
  /\ req \in [Req -> Request \cup {Idle}]
  /\ slot \in Doc \cup {NoDoc}
  /\ late \subseteq Doc
  /\ nextId \in 1 .. MaxGrants + 1
  /\ landed \subseteq Doc
  /\ told \subseteq Doc

-----------------------------------------------------------------------------
(* What the stored files say.                                              *)

\* _current_grant_id: an unreadable record counts as none.
Stored == IF record = Unreadable THEN NoDoc ELSE record.grant

Provable == barred # Unreadable /\ agentFile \in Agents

\* verify_grant on the stored grant; its signature is the owner's own.
Valid ==
  /\ Provable
  /\ Stored.agent = agentFile
  /\ Stored.expiry >= clock
  /\ Stored.id \notin barred

\* grant_status: active, stop_unsent and unknown.
Active == Stored # NoDoc /\ Valid /\ ~record.isStop /\ Stored.live

StopUnsent == Stored # NoDoc /\ record.isStop /\ record.published # "yes"

Unknown ==
  \/ record = Unreadable
  \/ Stored # NoDoc /\ ~record.isStop /\ ~(Provable /\ Stored.agent = agentFile)

\* Mutant: an undelivered STOP does not block a switch.
ChangeBlockedIfLive == Active \/ Unknown

\* _agent_change_blocked
ChangeBlocked == Active \/ StopUnsent \/ Unknown

\* A stop signed for this agent covers whatever is stored.
Covers(a) == record # Unreadable /\ (Stored # NoDoc => Stored.agent = a)

-----------------------------------------------------------------------------
Init ==
  /\ clock = 1
  /\ agentFile = NoAgent
  /\ record = Blank
  /\ barred = {}
  /\ lock = Free
  /\ req = [r \in Req |-> Idle]
  /\ slot = NoDoc
  /\ late = {}
  /\ nextId = 1
  /\ landed = {}
  /\ told = {}

Fresh(op, at, a) ==
  [op |-> op, at |-> at, agent |-> a, doc |-> NoDoc, stop |-> FALSE, old |-> 0,
   tries |-> 0, ok |-> FALSE]

At(r, step) == req[r] # Idle /\ req[r].at = step

Goto(r, step) == req' = [req EXCEPT ![r].at = step]

Answer(r) == req' = [req EXCEPT ![r] = Idle]

\* sign_grant and revoke_grant read the linked agent before they take the lock.
Begin(r, op) ==
  /\ req[r] = Idle
  /\ agentFile \in Agents
  /\ req' = [req EXCEPT ![r] = Fresh(op, "build", agentFile)]
  /\ UNCHANGED <<clock, files, lock, wire, nextId, told>>

\* The wrong passphrase.
Denied(r) ==
  /\ At(r, "build")
  /\ Answer(r)
  /\ UNCHANGED <<clock, files, lock, wire, nextId, told>>

\* The clock is read and the document signed, still outside the lock.
Build(r, live, life) ==
  LET d == [id |-> nextId, agent |-> req[r].agent, issued |-> clock,
            expiry |-> clock + life, live |-> live] IN
  /\ At(r, "build")
  /\ nextId \in Id
  /\ req' = [req EXCEPT ![r].doc = d, ![r].at = "store",
                        ![r].stop = (req[r].op = "stop")]
  /\ nextId' = nextId + 1
  /\ UNCHANGED <<clock, files, lock, wire, told>>

BuildGrant(r, live, life) == req[r] # Idle /\ req[r].op = "sign" /\ Build(r, live, life)
BuildStop(r) == req[r] # Idle /\ req[r].op = "stop" /\ Build(r, FALSE, StopLife)

Replaced == IF Stored = NoDoc THEN 0 ELSE Stored.id

\* Mutant: the id that is replaced is revoked before its successor is stored.
BarThenStore(r) ==
  /\ At(r, "store")
  /\ lock = Free
  /\ req[r].op = "stop" => Covers(req[r].agent)
  /\ IF Replaced # 0 /\ barred # Unreadable /\ Replaced \notin barred
     THEN /\ barred' = barred \cup {Replaced}
          /\ UNCHANGED <<record, lock, req>>
     ELSE /\ lock' = r
          /\ record' = Rec(req[r].doc, "pending", req[r].stop)
          /\ Goto(r, "put")
          /\ UNCHANGED barred
  /\ UNCHANGED <<clock, agentFile, wire, nextId, told>>

\* First write under the lock: the new document replaces the old one.
Store(r) ==
  /\ At(r, "store")
  /\ lock = Free
  /\ req[r].op = "stop" => Covers(req[r].agent)
  /\ lock' = r
  /\ record' = Rec(req[r].doc, "pending", req[r].stop)
  /\ req' = [req EXCEPT ![r].old = Replaced,
                        ![r].at = IF Replaced # 0 THEN "bar" ELSE "put"]
  /\ UNCHANGED <<clock, agentFile, barred, wire, nextId, told>>

\* revoke_grant refuses to report a stop that would not cover the stored grant.
RefuseStop(r) ==
  /\ At(r, "store")
  /\ lock = Free
  /\ req[r].op = "stop"
  /\ ~Covers(req[r].agent)
  /\ Answer(r)
  /\ UNCHANGED <<clock, files, lock, wire, nextId, told>>

\* Second write: the replaced id is revoked; an unreadable set starts anew.
Bar(r) ==
  /\ At(r, "bar")
  /\ barred' = (IF barred = Unreadable THEN {} ELSE barred) \cup {req[r].old}
  /\ Goto(r, IF req[r].op \in {"link", "unlink"} THEN "relink" ELSE "put")
  /\ UNCHANGED <<clock, agentFile, record, lock, wire, nextId, told>>

-----------------------------------------------------------------------------
(* set_note: up to Attempts writes, then a read-back.                      *)

\* A write answered 200, which is no proof that the slot kept it.
PutAnswered(r, kept) ==
  /\ At(r, "put")
  /\ slot' = IF kept THEN req[r].doc ELSE slot
  /\ landed' = IF kept THEN landed \cup {req[r].doc} ELSE landed
  /\ Goto(r, "confirm")
  /\ UNCHANGED <<clock, files, lock, late, nextId, told>>

\* Mutant: one attempt too many.
PutRetried(r, arrives) ==
  /\ At(r, "put")
  /\ late' = IF arrives THEN late \cup {req[r].doc} ELSE late
  /\ req' = [req EXCEPT ![r].tries = @ + 1,
                        ![r].at = IF req[r].tries + 1 <= Attempts THEN "put" ELSE "record"]
  /\ UNCHANGED <<clock, files, lock, slot, landed, nextId, told>>

\* No answer, or a transient error: the write may still arrive.  The last
\* attempt gives up.
PutFailed(r, arrives) ==
  /\ At(r, "put")
  /\ late' = IF arrives THEN late \cup {req[r].doc} ELSE late
  /\ req' = [req EXCEPT ![r].tries = @ + 1,
                        ![r].at = IF req[r].tries + 1 < Attempts THEN "put" ELSE "record"]
  /\ UNCHANGED <<clock, files, lock, slot, landed, nextId, told>>

\* Any other status is final.
PutRefused(r) ==
  /\ At(r, "put")
  /\ Goto(r, "record")
  /\ UNCHANGED <<clock, files, lock, wire, nextId, told>>

\* Mutant: the answer to the write is taken for its delivery.
TakeForDelivered(r, reads) ==
  /\ At(r, "confirm")
  /\ req' = [req EXCEPT ![r].at = "record", ![r].ok = TRUE]
  /\ UNCHANGED <<clock, files, lock, wire, nextId, told>>

\* The read-back; the reads themselves may fail.
Confirm(r, reads) ==
  /\ At(r, "confirm")
  /\ req' = [req EXCEPT ![r].at = "record", ![r].ok = (reads /\ slot = req[r].doc)]
  /\ UNCHANGED <<clock, files, lock, wire, nextId, told>>

\* Last write: the outcome goes into the record, and into the answer.
Finish(r) ==
  /\ At(r, "record")
  /\ record' = Rec(req[r].doc, IF req[r].ok THEN "yes" ELSE "no", req[r].stop)
  /\ told' = IF req[r].ok THEN told \cup {req[r].doc} ELSE told
  /\ lock' = Free
  /\ Answer(r)
  /\ UNCHANGED <<clock, agentFile, barred, wire, nextId>>

\* A write nobody waits for any more reaches the slot.
Land(d) ==
  /\ d \in late
  /\ slot' = d
  /\ landed' = landed \cup {d}
  /\ late' = late \ {d}
  /\ UNCHANGED <<clock, files, lock, req, nextId, told>>

-----------------------------------------------------------------------------
\* A stop is always re-sent; a permissive grant only while it still verifies.
Resendable ==
  /\ Stored # NoDoc
  /\ IF record.isStop THEN ~Stored.live ELSE Valid

\* Mutant: the record is read before the lock is taken.
ResendUnlocked(r) ==
  /\ req[r] = Idle
  /\ Resendable
  /\ record' = [record EXCEPT !.published = "pending"]
  /\ req' = [req EXCEPT ![r] = [Fresh("resend", "put", NoAgent)
                                  EXCEPT !.doc = Stored, !.stop = record.isStop]]
  /\ UNCHANGED <<clock, agentFile, barred, lock, wire, nextId, told>>

\* resend_grant reads the record under the lock and publishes the same bytes.
Resend(r) ==
  /\ req[r] = Idle
  /\ lock = Free
  /\ Resendable
  /\ lock' = r
  /\ record' = [record EXCEPT !.published = "pending"]
  /\ req' = [req EXCEPT ![r] = [Fresh("resend", "put", NoAgent)
                                  EXCEPT !.doc = Stored, !.stop = record.isStop]]
  /\ UNCHANGED <<clock, agentFile, barred, wire, nextId, told>>

\* Cases in which link_agent rewrites agent.json and leaves the grant alone: a
\* first link, the same agent, or the agent the stored grant belongs to.
KeepsGrant(a) ==
  \/ agentFile \in {NoAgent, a}
  \/ agentFile = Unreadable /\ Covers(a)
  \/ Stored # NoDoc /\ Stored.agent = a

Link(r, a) ==
  /\ req[r] = Idle
  /\ lock = Free
  /\ KeepsGrant(a)
  /\ agentFile' = a
  /\ UNCHANGED <<clock, record, barred, lock, req, wire, nextId, told>>

\* _revoke_and_clear_active: the slot in grant.json is emptied first.
Clear(r, op, a) ==
  /\ req[r] = Idle
  /\ lock = Free
  /\ ~ChangeBlocked
  /\ lock' = r
  /\ record' = Blank
  /\ req' = [req EXCEPT ![r] =
               [Fresh(op, IF Replaced # 0 THEN "bar" ELSE "relink", a)
                  EXCEPT !.old = Replaced]]
  /\ UNCHANGED <<clock, agentFile, barred, wire, nextId, told>>

\* Another agent: only when nothing that may still run would be forgotten.
Switch(r, a) == agentFile \in Agents /\ ~KeepsGrant(a) /\ Clear(r, "link", a)

Unlink(r) == Clear(r, "unlink", NoAgent)

\* The agent file is written, or removed; a failure to remove it is ignored.
Relink(r, done) ==
  /\ At(r, "relink")
  /\ agentFile' = IF done THEN req[r].agent ELSE agentFile
  /\ req[r].op = "link" => done
  /\ lock' = Free
  /\ Answer(r)
  /\ UNCHANGED <<clock, record, barred, wire, nextId, told>>

-----------------------------------------------------------------------------
\* A file cannot be written (_write_json raises; a failure to remove the agent
\* file does not count): the request ends alone, its lock is released.
CannotWrite(r) ==
  /\ \/ At(r, "store") /\ lock = Free
     \/ At(r, "bar") \/ At(r, "record")
     \/ At(r, "relink") /\ req[r].op = "link"
  /\ lock' = Free
  /\ Answer(r)
  /\ UNCHANGED <<clock, files, wire, nextId, told>>

\* The dashboard stops at any point and is started again: its files stay.
Crash ==
  /\ \E r \in Req : req[r] # Idle
  /\ req' = [r \in Req |-> Idle]
  /\ lock' = Free
  /\ UNCHANGED <<clock, files, wire, nextId, told>>

\* A file is damaged or cannot be read.
Damage ==
  /\ \/ "agent" \in Faults /\ agentFile' = Unreadable /\ UNCHANGED <<record, barred>>
     \/ "grant" \in Faults /\ record' = Unreadable /\ UNCHANGED <<agentFile, barred>>
     \/ "revoked" \in Faults /\ barred' = Unreadable /\ UNCHANGED <<agentFile, record>>
  /\ UNCHANGED <<clock, lock, req, wire, nextId, told>>

Tick ==
  /\ clock < MaxTime
  /\ clock' = clock + 1
  /\ UNCHANGED <<files, lock, req, wire, nextId, told>>

\* A step of the request that holds the lock or works towards it.
Step(r) ==
  \/ \E live \in Allows, life \in Lives : BuildGrant(r, live, life)
  \/ BuildStop(r) \/ Denied(r)
  \/ Store(r) \/ RefuseStop(r) \/ Bar(r)
  \/ \E b \in BOOLEAN : PutAnswered(r, b) \/ Confirm(r, b) \/ Relink(r, b)
  \/ PutFailed(r, FALSE) \/ PutRefused(r)
  \/ Finish(r) \/ CannotWrite(r)

\* What the owner does.
Ask(r) ==
  \/ Begin(r, "sign") \/ Begin(r, "stop") \/ Resend(r)
  \/ \E a \in Agents : Link(r, a) \/ Switch(r, a)
  \/ Unlink(r)

\* A network that loses writes but delivers none after the client gave up.
PromptNext ==
  \/ \E r \in Req : Ask(r) \/ Step(r)
  \/ Crash \/ Damage \/ Tick

Next ==
  \/ PromptNext
  \/ \E r \in Req : PutFailed(r, TRUE)
  \/ \E d \in late : Land(d)

Spec == Init /\ [][Next]_vars
PromptSpec == Init /\ [][PromptNext]_vars

-----------------------------------------------------------------------------
(* Properties.                                                             *)

\* A crash between the writes of a request never leaves a grant on disk that
\* reads as revoked while an agent may run on it (server.py, the order of
\* _store_grant and _add_revoked).
StoredIsNotBarred ==
  Stored # NoDoc /\ barred # Unreadable => Stored.id \notin barred

\* Whatever two requests do at once, the only document ever written to the slot
\* is the one grant.json holds at that moment, unrevoked: no request puts a
\* superseded grant over a STOP.  Late arrivals, and a record damaged while the
\* request runs, are not the writer's doing.
WireFollowsDisk ==
  [][\A r \in Req :
       (\E kept \in BOOLEAN : PutAnswered(r, kept)) /\ record # Unreadable
         => /\ Stored = req[r].doc
            /\ barred # Unreadable => Stored.id \notin barred]_vars

\* The owner is told "delivered" only of documents the slot really held.
ToldIsLanded == told \subseteq landed

\* While an unexpired permissive grant is in the slot, the record of its agent
\* is still there (or is loudly unreadable), so a Stop can be addressed to it:
\* _agent_change_blocked exists so that no switch strands a running agent.
NeverStranded ==
  slot # NoDoc /\ slot.live /\ slot.expiry >= clock
    => record = Unreadable \/ (Stored # NoDoc /\ Stored.agent = slot.agent)

\* "The publish is INSIDE the grant lock so two concurrent signs cannot land in
\* the slot out of order" (_sign_store_publish).
SlotInIssueOrder ==
  [][slot # NoDoc => slot.issued <= slot'.issued]_vars
=============================================================================
