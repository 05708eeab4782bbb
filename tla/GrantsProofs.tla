---------------------------- MODULE GrantsProofs ----------------------------
(***************************************************************************)
(* Theorems about the dashboard's grants, for every set of request threads, *)
(* agents and durations, every number of attempts and every bound, over a   *)
(* network that loses writes and delivers them late, with crashes and       *)
(* damaged files in between.                                               *)
(***************************************************************************)
EXTENDS MCGrantThreads, TLAPS

-----------------------------------------------------------------------------
(* Type correctness.                                                       *)

\* A request past the build of its document carries one.
Carrying(x) ==
  \/ x.at \in {"store", "put", "confirm", "record"}
  \/ x.at = "bar" /\ x.op \notin {"link", "unlink"}

\* What the step a request is at says of its locals.
Locals(x) ==
  /\ x.at = "build" => x.agent \in Agents
  /\ x.at \in {"build", "store", "bar"} => x.tries = 0
  /\ x.at \in {"put", "confirm"} => x.tries < Attempts
  /\ x.at \in {"build", "store"} => x.op \in {"sign", "stop"}
  /\ x.at = "bar" => x.old \in Id
  /\ Carrying(x) => x.doc \in Doc

LocalsTyped == \A r \in Req : req[r] # Idle => Locals(req[r])

TypeInv == TypeOK /\ LocalsTyped

LEMMA StoredType ==
  ASSUME TypeInv
  PROVE  /\ Stored \in Doc \cup {NoDoc}
         /\ Replaced \in Id \cup {0}
         /\ Replaced # 0 <=> Stored # NoDoc
         /\ Stored # NoDoc => record # Unreadable /\ Stored = record.grant /\ Replaced = Stored.id
<1>1. Stored \in Doc \cup {NoDoc}
  BY DEF Stored, TypeInv, TypeOK, Record
<1>2. Stored # NoDoc => Stored.id \in Id
  BY <1>1 DEF Doc
<1>3. Stored # NoDoc => record # Unreadable /\ Stored = record.grant
  BY DEF Stored
<1>4. QED
  BY <1>1, <1>2, <1>3, DashboardAssumption DEF Replaced, Id

LEMMA TypeInit == Init => TypeInv
<1> SUFFICES ASSUME Init PROVE TypeInv
  OBVIOUS
<1>1. record \in Record
  BY DEF Init, Blank, Rec, Record
<1>2. \A r \in Req : req[r] = Idle
  BY DEF Init
<1>3. clock \in Time /\ nextId \in 1 .. MaxGrants + 1
  BY DashboardAssumption DEF Init, Time
<1>4. QED
  BY <1>1, <1>2, <1>3 DEF Init, TypeInv, TypeOK, LocalsTyped

\* A request that begins or goes on.
LEMMA ThreadType ==
  ASSUME TypeInv, NEW r \in Req, NEW x \in Request, Locals(x),
         req' = [req EXCEPT ![r] = x]
  PROVE  req' \in [Req -> Request \cup {Idle}] /\ LocalsTyped'
<1>1. \A q \in Req : req'[q] = IF q = r THEN x ELSE req[q]
  BY DEF TypeInv, TypeOK
<1>2. ASSUME NEW q \in Req, req'[q] # Idle PROVE Locals(req'[q])
  BY <1>1, <1>2 DEF TypeInv, LocalsTyped
<1>3. LocalsTyped'
  BY <1>2 DEF LocalsTyped, Locals, Carrying
<1>4. QED
  BY <1>3 DEF TypeInv, TypeOK

\* A request that ends.
LEMMA AnswerType ==
  ASSUME TypeInv, NEW r \in Req, Answer(r)
  PROVE  req' \in [Req -> Request \cup {Idle}] /\ LocalsTyped'
<1>1. req' = [req EXCEPT ![r] = Idle]
  BY DEF Answer
<1>2. \A q \in Req : req'[q] = IF q = r THEN Idle ELSE req[q]
  BY <1>1 DEF TypeInv, TypeOK
<1>3. ASSUME NEW q \in Req, req'[q] # Idle PROVE Locals(req'[q])
  BY <1>2, <1>3 DEF TypeInv, LocalsTyped
<1>4. LocalsTyped'
  BY <1>3 DEF LocalsTyped, Locals, Carrying
<1>5. QED
  BY <1>1, <1>4 DEF TypeInv, TypeOK

\* A request that moves to another step with all its locals.
LEMMA GotoType ==
  ASSUME TypeInv, NEW r \in Req, req[r] # Idle,
         NEW step \in {"bar", "put", "confirm", "record", "relink"}, Goto(r, step),
         step = "put" => req[r].tries < Attempts /\ Carrying(req[r]),
         step = "confirm" => req[r].at = "put",
         step = "record" => req[r].at \in {"put", "confirm"},
         step # "bar"
  PROVE  req' \in [Req -> Request \cup {Idle}] /\ LocalsTyped'
<1> DEFINE x == [req[r] EXCEPT !.at = step]
<1>1. req[r] \in Request /\ Locals(req[r])
  BY DEF TypeInv, TypeOK, LocalsTyped
<1>2. x \in Request
  BY <1>1 DEF Request
<1>3. Locals(x)
  BY <1>1 DEF Request, Locals, Carrying
<1>4. req' = [req EXCEPT ![r] = x]
  BY DEF Goto
<1> HIDE DEF x
<1>5. QED
  BY <1>2, <1>3, <1>4, ThreadType

LEMMA FreshType ==
  ASSUME NEW op \in {"sign", "stop", "resend", "link", "unlink"},
         NEW at \in {"build", "store", "bar", "put", "confirm", "record", "relink"},
         NEW a \in Agents \cup {NoAgent}
  PROVE  Fresh(op, at, a) \in Request
BY DashboardAssumption DEF Fresh, Request

LEMMA TypeBegin ==
  ASSUME TypeInv, NEW r \in Req, NEW op \in {"sign", "stop"}, Begin(r, op)
  PROVE  TypeInv'
<1>1. Fresh(op, "build", agentFile) \in Request
  BY FreshType DEF Begin
<1>2. Locals(Fresh(op, "build", agentFile))
  BY DEF Begin, Locals, Carrying, Fresh
<1>3. req' \in [Req -> Request \cup {Idle}] /\ LocalsTyped'
  BY <1>1, <1>2, ThreadType DEF Begin
<1>4. QED
  BY <1>3 DEF Begin, files, wire, TypeInv, TypeOK

LEMMA TypeBuild ==
  ASSUME TypeInv, NEW r \in Req, NEW live \in BOOLEAN, NEW life \in Nat,
         req[r] # Idle, Build(r, live, life)
  PROVE  TypeInv'
<1> DEFINE d == [id |-> nextId, agent |-> req[r].agent, issued |-> clock,
                 expiry |-> clock + life, live |-> live]
           x == [req[r] EXCEPT !.doc = d, !.at = "store",
                               !.stop = (req[r].op = "stop")]
<1>1. req[r] \in Request /\ Locals(req[r]) /\ req[r].at = "build" /\ nextId \in Id
  BY DEF Build, At, TypeInv, TypeOK, LocalsTyped
<1>2. clock + life \in Nat
  BY DashboardAssumption DEF TypeInv, TypeOK, Time
<1>3. d \in Doc
  BY <1>1, <1>2 DEF Doc, Locals, TypeInv, TypeOK
<1>4. req' = [req EXCEPT ![r] = x]
  BY DEF Build
<1> HIDE DEF d
<1>5. x \in Request
  BY <1>1, <1>3 DEF Request
<1>6. Locals(x)
  BY <1>1, <1>3 DEF Request, Locals, Carrying
<1> HIDE DEF x
<1>7. req' \in [Req -> Request \cup {Idle}] /\ LocalsTyped'
  BY <1>4, <1>5, <1>6, ThreadType
<1>8. nextId' \in 1 .. MaxGrants + 1
  BY <1>1, DashboardAssumption DEF Build, Id
<1>9. QED
  BY <1>7, <1>8 DEF Build, files, wire, TypeInv, TypeOK

LEMMA RecType ==
  ASSUME NEW d \in Doc \cup {NoDoc}, NEW p \in {"yes", "no", "pending"}, NEW s \in BOOLEAN
  PROVE  Rec(d, p, s) \in Record
BY DEF Rec, Record

LEMMA TypeStore ==
  ASSUME TypeInv, NEW r \in Req, Store(r)
  PROVE  TypeInv'
<1> DEFINE at == IF Replaced # 0 THEN "bar" ELSE "put"
           x == [req[r] EXCEPT !.old = Replaced, !.at = at]
<1>1. req[r] \in Request /\ Locals(req[r]) /\ req[r].at = "store"
  BY DEF Store, At, TypeInv, TypeOK, LocalsTyped
<1>2. req[r].doc \in Doc /\ req[r].stop \in BOOLEAN /\ req[r].tries = 0
  BY <1>1 DEF Locals, Carrying, Request
<1>3. record' \in Record
  BY <1>2, RecType DEF Store
<1>4. at \in {"bar", "put"} /\ (at = "bar" => Replaced # 0)
  OBVIOUS
<1>5. req' = [req EXCEPT ![r] = x]
  BY DEF Store
<1> HIDE DEF at
<1>6. /\ x \in Request
      /\ x.at = at /\ x.old = Replaced /\ x.doc \in Doc /\ x.tries = 0
  BY <1>1, <1>2, <1>4, StoredType DEF Request
<1>7. Locals(x)
  BY <1>4, <1>6, StoredType, DashboardAssumption DEF Locals, Carrying
<1> HIDE DEF x
<1>8. req' \in [Req -> Request \cup {Idle}] /\ LocalsTyped'
  BY <1>5, <1>6, <1>7, ThreadType
<1>9. QED
  BY <1>3, <1>8 DEF Store, wire, TypeInv, TypeOK

LEMMA TypeBar ==
  ASSUME TypeInv, NEW r \in Req, Bar(r)
  PROVE  TypeInv'
<1>1. req[r] \in Request /\ Locals(req[r]) /\ req[r].at = "bar" /\ req[r] # Idle
  BY DEF Bar, At, TypeInv, TypeOK, LocalsTyped
<1>2. barred' \subseteq Id
  BY <1>1 DEF Bar, Locals, TypeInv, TypeOK
<1>3. req' \in [Req -> Request \cup {Idle}] /\ LocalsTyped'
  BY <1>1, GotoType, DashboardAssumption DEF Bar, Locals, Carrying
<1>4. QED
  BY <1>2, <1>3 DEF Bar, wire, TypeInv, TypeOK

LEMMA TypePut ==
  ASSUME TypeInv, NEW r \in Req, NEW b \in BOOLEAN, PutAnswered(r, b) \/ Confirm(r, b)
  PROVE  TypeInv'
<1>1. /\ req[r] \in Request /\ Locals(req[r]) /\ req[r] # Idle
      /\ req[r].at \in {"put", "confirm"} /\ req[r].doc \in Doc
  BY DEF PutAnswered, Confirm, At, TypeInv, TypeOK, LocalsTyped, Locals, Carrying
<1>2. CASE PutAnswered(r, b)
  <2>1. req' \in [Req -> Request \cup {Idle}] /\ LocalsTyped'
    BY <1>1, <1>2, GotoType DEF PutAnswered, At
  <2>2. QED
    BY <1>1, <1>2, <2>1 DEF PutAnswered, files, TypeInv, TypeOK
<1>3. CASE Confirm(r, b)
  <2> DEFINE ok == b /\ slot = req[r].doc
             x == [req[r] EXCEPT !.at = "record", !.ok = ok]
  <2>1. req' = [req EXCEPT ![r] = x]
    BY <1>3 DEF Confirm
  <2>2. ok \in BOOLEAN
    OBVIOUS
  <2> HIDE DEF ok
  <2>3. x \in Request /\ Locals(x)
    BY <1>1, <2>2 DEF Request, Locals, Carrying
  <2> HIDE DEF x
  <2>4. req' \in [Req -> Request \cup {Idle}] /\ LocalsTyped'
    BY <2>1, <2>3, ThreadType
  <2>5. QED
    BY <1>3, <2>4 DEF Confirm, files, wire, TypeInv, TypeOK
<1>4. QED
  BY <1>2, <1>3

LEMMA TypePutFailed ==
  ASSUME TypeInv, NEW r \in Req, NEW arrives \in BOOLEAN, PutFailed(r, arrives)
  PROVE  TypeInv'
<1> DEFINE next == IF req[r].tries + 1 < Attempts THEN "put" ELSE "record"
           more == req[r].tries + 1
           x == [req[r] EXCEPT !.tries = more, !.at = next]
<1>1. req[r] \in Request /\ Locals(req[r]) /\ req[r].at = "put" /\ req[r].doc \in Doc
  BY DEF PutFailed, At, TypeInv, TypeOK, LocalsTyped, Locals, Carrying
<1>2. req[r].tries \in 0 .. Attempts /\ req[r].tries < Attempts
  BY <1>1 DEF Request, Locals
<1>3. more \in 0 .. Attempts /\ (next = "put" => more < Attempts) /\ next \in {"put", "record"}
  BY <1>2, DashboardAssumption
<1>4. req' = [req EXCEPT ![r] = x]
  BY DEF PutFailed
<1> HIDE DEF next, more
<1>5. x \in Request
  BY <1>1, <1>3 DEF Request
<1>6. x.at = next /\ x.tries = more /\ x.doc \in Doc
  BY <1>1 DEF Request
<1>7. Locals(x)
  BY <1>3, <1>6 DEF Locals, Carrying
<1> HIDE DEF x
<1>8. req' \in [Req -> Request \cup {Idle}] /\ LocalsTyped'
  BY <1>4, <1>5, <1>7, ThreadType
<1>9. QED
  BY <1>1, <1>8 DEF PutFailed, files, TypeInv, TypeOK

LEMMA TypeFinish ==
  ASSUME TypeInv, NEW r \in Req, Finish(r)
  PROVE  TypeInv'
<1>1. req[r] \in Request /\ Locals(req[r]) /\ req[r].at = "record" /\ req[r].doc \in Doc
  BY DEF Finish, At, TypeInv, TypeOK, LocalsTyped, Locals, Carrying
<1>2. req[r].stop \in BOOLEAN
  BY <1>1 DEF Request
<1>3. record' \in Record
  BY <1>1, <1>2, RecType DEF Finish
<1>4. req' \in [Req -> Request \cup {Idle}] /\ LocalsTyped'
  BY AnswerType DEF Finish
<1>5. QED
  BY <1>1, <1>3, <1>4 DEF Finish, wire, TypeInv, TypeOK

LEMMA TypeResend ==
  ASSUME TypeInv, NEW r \in Req, Resend(r)
  PROVE  TypeInv'
<1> DEFINE x == [Fresh("resend", "put", NoAgent) EXCEPT !.doc = Stored, !.stop = record.isStop]
<1>1. Stored \in Doc /\ record \in Record
  BY StoredType DEF Resend, Resendable, TypeInv, TypeOK
<1>2. Fresh("resend", "put", NoAgent) \in Request /\ record.isStop \in BOOLEAN
  BY <1>1, FreshType DEF Record
<1>3. x \in Request
  BY <1>1, <1>2 DEF Request
<1>4. Locals(x)
  BY <1>1, DashboardAssumption DEF Locals, Carrying, Fresh
<1>5. req' = [req EXCEPT ![r] = x]
  BY DEF Resend
<1> HIDE DEF x
<1>6. req' \in [Req -> Request \cup {Idle}] /\ LocalsTyped'
  BY <1>3, <1>4, <1>5, ThreadType
<1>7. record' \in Record
  BY <1>1 DEF Resend, Record
<1>8. QED
  BY <1>6, <1>7 DEF Resend, wire, TypeInv, TypeOK

LEMMA TypeClear ==
  ASSUME TypeInv, NEW r \in Req, NEW op \in {"link", "unlink"},
         NEW a \in Agents \cup {NoAgent}, Clear(r, op, a)
  PROVE  TypeInv'
<1> DEFINE at == IF Replaced # 0 THEN "bar" ELSE "relink"
           x == [Fresh(op, at, a) EXCEPT !.old = Replaced]
<1>1. at \in {"bar", "relink"} /\ (at = "bar" => Replaced # 0)
  OBVIOUS
<1>2. req' = [req EXCEPT ![r] = x]
  BY DEF Clear
<1> HIDE DEF at
<1>3. Fresh(op, at, a) \in Request
  BY <1>1, FreshType
<1>4. x \in Request
  BY <1>3, StoredType DEF Request
<1>5. x.at = at /\ x.op = op /\ x.old = Replaced /\ x.tries = 0
  BY DEF Fresh
<1>6. Locals(x)
  BY <1>1, <1>5, StoredType DEF Locals, Carrying
<1> HIDE DEF x
<1>7. req' \in [Req -> Request \cup {Idle}] /\ LocalsTyped'
  BY <1>2, <1>4, <1>6, ThreadType
<1>8. record' \in Record
  BY RecType DEF Clear, Blank
<1>9. QED
  BY <1>7, <1>8 DEF Clear, wire, TypeInv, TypeOK

LEMMA TypeStep == TypeInv /\ [Next]_vars => TypeInv'
<1> SUFFICES ASSUME TypeInv, [Next]_vars PROVE TypeInv'
  OBVIOUS
<1>1. ASSUME NEW r \in Req, Ask(r)
      PROVE  TypeInv'
  <2>1. ASSUME NEW a \in Agents, Link(r, a)
        PROVE  TypeInv'
    BY <2>1 DEF Link, wire, TypeInv, TypeOK, LocalsTyped
  <2>2. ASSUME NEW a \in Agents, Switch(r, a)
        PROVE  TypeInv'
    BY <2>2, TypeClear DEF Switch
  <2>3. QED
    BY <1>1, <2>1, <2>2, TypeBegin, TypeResend, TypeClear DEF Ask, Unlink
<1>2. ASSUME NEW r \in Req, Step(r)
      PROVE  TypeInv'
  <2>1. CASE \/ \E live \in Allows, life \in Lives : BuildGrant(r, live, life)
             \/ BuildStop(r)
    BY <2>1, TypeBuild, DashboardAssumption DEF BuildGrant, BuildStop
  <2>2. CASE Denied(r) \/ RefuseStop(r) \/ CannotWrite(r)
    BY <2>2, AnswerType DEF Denied, RefuseStop, CannotWrite, files, wire, TypeInv, TypeOK
  <2>3. CASE PutRefused(r)
    <3>1. req' \in [Req -> Request \cup {Idle}] /\ LocalsTyped'
      BY <2>3, GotoType DEF PutRefused, At
    <3>2. QED
      BY <2>3, <3>1 DEF PutRefused, files, wire, TypeInv, TypeOK
  <2>4. ASSUME NEW b \in BOOLEAN, Relink(r, b)
        PROVE  TypeInv'
    <3>1. req[r] \in Request
      BY <2>4 DEF Relink, At, TypeInv, TypeOK
    <3>2. agentFile' \in Agents \cup {NoAgent, Unreadable}
      BY <2>4, <3>1 DEF Relink, Request, TypeInv, TypeOK
    <3>3. req' \in [Req -> Request \cup {Idle}] /\ LocalsTyped'
      BY <2>4, AnswerType DEF Relink
    <3>4. QED
      BY <2>4, <3>2, <3>3 DEF Relink, wire, TypeInv, TypeOK
  <2>5. QED
    BY <1>2, <2>1, <2>2, <2>3, <2>4, TypeStore, TypeBar, TypePut, TypePutFailed, TypeFinish
       DEF Step
<1>3. CASE Crash
  <2>1. \A r \in Req : req'[r] = Idle
    BY <1>3 DEF Crash
  <2>2. req' \in [Req -> Request \cup {Idle}]
    BY <1>3 DEF Crash
  <2>3. QED
    BY <1>3, <2>1, <2>2 DEF Crash, files, wire, TypeInv, TypeOK, LocalsTyped
<1>4. CASE Damage
  BY <1>4 DEF Damage, wire, TypeInv, TypeOK, LocalsTyped
<1>5. CASE Tick
  <2>1. clock' \in Time
    BY <1>5, DashboardAssumption DEF Tick, Time, TypeInv, TypeOK
  <2>2. QED
    BY <1>5, <2>1 DEF Tick, files, wire, TypeInv, TypeOK, LocalsTyped
<1>6. ASSUME NEW d \in late, Land(d)
      PROVE  TypeInv'
  BY <1>6 DEF Land, files, TypeInv, TypeOK, LocalsTyped
<1>7. CASE UNCHANGED vars
  BY <1>7 DEF vars, files, wire, TypeInv, TypeOK, LocalsTyped
<1>8. QED
  BY <1>1, <1>2, <1>3, <1>4, <1>5, <1>6, <1>7, TypePutFailed DEF Next, PromptNext

\* Every file, every request and the note slot always hold what TypeOK says,
\* whatever is damaged and wherever the dashboard stops: every write is tried at
\* most Attempts times (set_note), and no request signs for an agent nobody linked.
THEOREM GrantsTypeCorrect == Spec => []TypeOK
<1>1. TypeInv => TypeOK
  BY DEF TypeInv
<1>2. QED
  BY <1>1, TypeInit, TypeStep, PTL DEF Spec

-----------------------------------------------------------------------------
(* The files and the lock.                                                 *)

Holding(x) == x.at \in {"bar", "put", "confirm", "record", "relink"}

\* revoked_grants.json, as far as it can be read.
Gone == IF barred = Unreadable THEN {} ELSE barred

\* One request at a time is between its first write and its answer.
LockInv == \A r \in Req : req[r] # Idle /\ Holding(req[r]) => lock = r

\* Every id in use was handed out.
UsedInv ==
  /\ Stored # NoDoc => Stored.id < nextId
  /\ \A i \in Gone : i < nextId
  /\ \A r \in Req : req[r] # Idle =>
       /\ Carrying(req[r]) => req[r].doc.id < nextId
       /\ req[r].at = "bar" => req[r].old < nextId

\* The id of a document that waits for the lock is nowhere else.
FreshInv ==
  \A r \in Req : req[r] # Idle /\ req[r].at = "store" =>
    /\ req[r].doc.id \notin Gone
    /\ Stored # NoDoc => Stored.id # req[r].doc.id
    /\ \A q \in Req : req[q] # Idle =>
         /\ q # r /\ Carrying(req[q]) => req[q].doc.id # req[r].doc.id
         /\ req[q].at = "bar" => req[q].old # req[r].doc.id

\* While a request holds the lock, the record is the one it wrote, or damaged, and
\* the document it carries is not revoked and not the one it is about to revoke.
DiskInv ==
  \A r \in Req : req[r] # Idle /\ Holding(req[r]) =>
    /\ Carrying(req[r]) =>
         /\ req[r].doc.id \notin Gone
         /\ req[r].at = "bar" => req[r].old # req[r].doc.id
         /\ record # Unreadable => Stored = req[r].doc
    /\ ~Carrying(req[r]) /\ record # Unreadable => Stored = NoDoc

FilesInv ==
  TypeInv /\ LockInv /\ UsedInv /\ FreshInv /\ DiskInv /\ StoredIsNotBarred

LEMMA FilesInit == Init => FilesInv
<1> SUFFICES ASSUME Init PROVE FilesInv
  OBVIOUS
<1>1. \A r \in Req : req[r] = Idle
  BY DEF Init
<1>2. Stored = NoDoc
  BY DEF Init, Stored, Blank, Rec
<1>3. barred = {}
  BY DEF Init
<1>4. QED
  BY <1>1, <1>2, <1>3, TypeInit
     DEF FilesInv, LockInv, UsedInv, FreshInv, DiskInv, StoredIsNotBarred, Gone

\* A step that writes no file and hands out no id: the request it is of ends, or
\* holds what it held.
LEMMA FilesQuiet ==
  ASSUME FilesInv, TypeInv', NEW r \in Req,
         \A q \in Req \ {r} : req'[q] = req[q],
         UNCHANGED <<record, barred, nextId>>,
         \/ lock' = lock
         \/ lock = r /\ req'[r] = Idle,
         req'[r] # Idle =>
           /\ req'[r].at \notin {"store", "bar", "relink"}
           /\ Holding(req'[r]) => /\ req[r] # Idle /\ Holding(req[r]) /\ Carrying(req[r])
                                  /\ Carrying(req'[r])
                                  /\ req'[r].doc = req[r].doc
  PROVE  FilesInv'
<1>1. Stored' = Stored /\ Gone' = Gone
  BY DEF Stored, Gone
<1>2. \A q \in Req : req'[q] # Idle =>
        \/ q # r /\ req'[q] = req[q]
        \/ q = r /\ ~Holding(req'[q]) /\ ~Carrying(req'[q])
        \/ /\ q = r /\ req[q] # Idle /\ Holding(req[q]) /\ Carrying(req[q])
           /\ Holding(req'[q]) /\ Carrying(req'[q])
           /\ req'[q].at \notin {"store", "bar"}
           /\ req'[q].doc = req[q].doc
  BY DEF Holding, Carrying
<1>3. LockInv'
  BY <1>2 DEF FilesInv, LockInv, Holding
<1>4. UsedInv'
  <2>1. \A q \in Req : req'[q] # Idle =>
          /\ Carrying(req'[q]) => req'[q].doc.id < nextId
          /\ req'[q].at = "bar" => req'[q].old < nextId
    BY <1>2 DEF FilesInv, UsedInv, Holding
  <2>2. QED
    BY <1>1, <2>1 DEF FilesInv, UsedInv, Carrying
<1>5. FreshInv'
  <2>1. ASSUME NEW t \in Req, req'[t] # Idle, req'[t].at = "store"
        PROVE  /\ t # r /\ req'[t] = req[t]
               /\ req'[t].doc.id \notin Gone
               /\ Stored # NoDoc => Stored.id # req'[t].doc.id
               /\ \A q \in Req : req'[q] # Idle =>
                    /\ q # t /\ Carrying(req'[q]) => req'[q].doc.id # req'[t].doc.id
                    /\ req'[q].at = "bar" => req'[q].old # req'[t].doc.id
    <3>1. t # r /\ req'[t] = req[t]
      BY <2>1
    <3>2. QED
      BY <1>2, <2>1, <3>1 DEF FilesInv, FreshInv, Holding
  <2>2. QED
    BY <1>1, <2>1 DEF FreshInv, Carrying
<1>6. DiskInv'
  <2>1. \A q \in Req : req'[q] # Idle /\ Holding(req'[q]) =>
          /\ Carrying(req'[q]) =>
               /\ req'[q].doc.id \notin Gone
               /\ req'[q].at = "bar" => req'[q].old # req'[q].doc.id
               /\ record # Unreadable => Stored = req'[q].doc
          /\ ~Carrying(req'[q]) /\ record # Unreadable => Stored = NoDoc
    BY <1>2 DEF FilesInv, DiskInv
  <2>2. QED
    BY <1>1, <2>1 DEF DiskInv, Carrying, Holding
<1>7. StoredIsNotBarred'
  BY <1>1 DEF FilesInv, StoredIsNotBarred
<1>8. QED
  BY <1>3, <1>4, <1>5, <1>6, <1>7 DEF FilesInv

LEMMA FilesBuild ==
  ASSUME FilesInv, TypeInv', NEW r \in Req, NEW live \in BOOLEAN, NEW life \in Nat,
         req[r] # Idle, Build(r, live, life)
  PROVE  FilesInv'
<1>1. req[r] \in Request /\ req[r].at = "build" /\ nextId \in Id /\ nextId \in Int
  BY DashboardAssumption DEF Build, At, FilesInv, TypeInv, TypeOK, Id
<1>2. /\ req'[r].at = "store" /\ req'[r].doc.id = nextId
      /\ \A q \in Req \ {r} : req'[q] = req[q]
  BY <1>1 DEF Build, FilesInv, TypeInv, TypeOK, Request
<1>3. UNCHANGED <<record, barred, lock>> /\ nextId' = nextId + 1
  BY DEF Build, files
<1>4. Stored' = Stored /\ Gone' = Gone
  BY <1>3 DEF Stored, Gone
<1>5. ~Holding(req'[r]) /\ Carrying(req'[r])
  BY <1>2 DEF Holding, Carrying
<1>6. LockInv'
  BY <1>2, <1>3, <1>5 DEF FilesInv, LockInv, Holding
<1>7. /\ Stored # NoDoc => Stored.id \in Int /\ Stored.id < nextId
      /\ \A i \in Gone : i \in Int /\ i < nextId
      /\ \A q \in Req \ {r} : req[q] # Idle =>
           /\ Carrying(req[q]) => req[q].doc.id \in Int /\ req[q].doc.id < nextId
           /\ req[q].at = "bar" => req[q].old \in Int /\ req[q].old < nextId
  <2>1. Stored # NoDoc => Stored.id \in Int
    BY StoredType DEF FilesInv, Doc, Id
  <2>2. \A q \in Req : req[q] # Idle =>
          /\ Carrying(req[q]) => req[q].doc.id \in Int
          /\ req[q].at = "bar" => req[q].old \in Int
    BY DEF FilesInv, TypeInv, LocalsTyped, Locals, Doc, Id
  <2>3. Gone \subseteq Int
    BY DEF Gone, Id, FilesInv, TypeInv, TypeOK
  <2>4. QED
    BY <2>1, <2>2, <2>3 DEF FilesInv, UsedInv
<1>8. UsedInv'
  <2>1. \A q \in Req : req'[q] # Idle =>
          /\ Carrying(req'[q]) => req'[q].doc.id < nextId + 1
          /\ req'[q].at = "bar" => req'[q].old < nextId + 1
    BY <1>1, <1>2, <1>7
  <2>2. \A i \in Gone : i < nextId + 1
    BY <1>1, <1>7
  <2>3. QED
    BY <1>1, <1>3, <1>4, <1>7, <2>1, <2>2 DEF UsedInv, Carrying
<1>9. FreshInv'
  <2>1. ASSUME NEW t \in Req, req'[t] # Idle, req'[t].at = "store"
        PROVE  /\ req'[t].doc.id \notin Gone
               /\ Stored # NoDoc => Stored.id # req'[t].doc.id
               /\ \A q \in Req : req'[q] # Idle =>
                    /\ q # t /\ Carrying(req'[q]) => req'[q].doc.id # req'[t].doc.id
                    /\ req'[q].at = "bar" => req'[q].old # req'[t].doc.id
    <3>1. CASE t = r
      <4>1. nextId \notin Gone /\ (Stored # NoDoc => Stored.id # nextId)
        BY <1>1, <1>7
      <4>2. \A q \in Req \ {r} : req'[q] # Idle =>
              /\ Carrying(req'[q]) => req'[q].doc.id # nextId
              /\ req'[q].at = "bar" => req'[q].old # nextId
        BY <1>1, <1>2, <1>7
      <4>3. QED
        BY <1>2, <3>1, <4>1, <4>2
    <3>2. CASE t # r
      <4>1. req'[t] = req[t] /\ Carrying(req[t])
        BY <1>2, <2>1, <3>2 DEF Carrying
      <4>2. req'[r].doc.id # req[t].doc.id
        BY <1>1, <1>2, <1>7, <2>1, <3>2, <4>1
      <4>3. QED
        BY <1>2, <2>1, <3>2, <4>1, <4>2 DEF FilesInv, FreshInv
    <3>3. QED
      BY <3>1, <3>2
  <2>2. QED
    BY <1>4, <2>1 DEF FreshInv, Carrying
<1>10. DiskInv'
  <2>1. \A q \in Req : req'[q] # Idle /\ Holding(req'[q]) => q # r /\ req'[q] = req[q]
    BY <1>2, <1>5
  <2>2. \A q \in Req : req'[q] # Idle /\ Holding(req'[q]) =>
          /\ Carrying(req'[q]) =>
               /\ req'[q].doc.id \notin Gone
               /\ req'[q].at = "bar" => req'[q].old # req'[q].doc.id
               /\ record # Unreadable => Stored = req'[q].doc
          /\ ~Carrying(req'[q]) /\ record # Unreadable => Stored = NoDoc
    BY <2>1 DEF FilesInv, DiskInv
  <2>3. QED
    BY <1>3, <1>4, <2>2 DEF DiskInv, Carrying, Holding
<1>11. StoredIsNotBarred'
  BY <1>3, <1>4 DEF FilesInv, StoredIsNotBarred
<1>12. QED
  BY <1>6, <1>8, <1>9, <1>10, <1>11 DEF FilesInv

\* A step that takes or keeps the lock for r and leaves in the record what r
\* carries, or nothing: what r takes along was neither revoked nor waited for.
LEMMA FilesWrite ==
  ASSUME FilesInv, TypeInv', NEW r \in Req,
         lock \in {Free, r}, lock' \in {Free, r}, lock' = Free => req'[r] = Idle,
         \A q \in Req \ {r} : req'[q] = req[q],
         nextId' = nextId,
         \A i \in Gone' : \/ i \in Gone
                          \/ req[r] # Idle /\ req[r].at = "bar" /\ i = req[r].old,
         req'[r] # Idle => Holding(req'[r]),
         Stored' # NoDoc => Stored'.id < nextId /\ Stored'.id \notin Gone',
         \A t \in Req \ {r} : req[t] # Idle /\ req[t].at = "store" =>
           /\ Stored' # NoDoc => Stored'.id # req[t].doc.id
           /\ req'[r] # Idle /\ Carrying(req'[r]) => req'[r].doc.id # req[t].doc.id
           /\ req'[r] # Idle /\ req'[r].at = "bar" => req'[r].old # req[t].doc.id,
         req'[r] # Idle /\ Carrying(req'[r]) =>
           /\ req'[r].doc.id < nextId
           /\ req'[r].doc.id \notin Gone'
           /\ req'[r].at = "bar" => req'[r].old # req'[r].doc.id
           /\ record' # Unreadable => Stored' = req'[r].doc,
         req'[r] # Idle /\ req'[r].at = "bar" => req'[r].old < nextId,
         req'[r] # Idle /\ ~Carrying(req'[r]) /\ record' # Unreadable => Stored' = NoDoc
  PROVE  FilesInv'
<1>1. \A q \in Req \ {r} : req'[q] # Idle => ~Holding(req'[q])
  BY DashboardAssumption DEF FilesInv, LockInv
<1>2. LockInv'
  BY <1>1 DEF LockInv, Holding
<1>3. UsedInv'
  <2>1. \A q \in Req : req'[q] # Idle =>
          /\ Carrying(req'[q]) => req'[q].doc.id < nextId
          /\ req'[q].at = "bar" => req'[q].old < nextId
    BY <1>1 DEF FilesInv, UsedInv
  <2>2. \A i \in Gone' : i < nextId
    BY DEF FilesInv, UsedInv
  <2>3. QED
    BY <2>1, <2>2 DEF UsedInv, Carrying
<1>4. FreshInv'
  <2>1. ASSUME NEW t \in Req, req'[t] # Idle, req'[t].at = "store"
        PROVE  /\ req'[t].doc.id \notin Gone'
               /\ Stored' # NoDoc => Stored'.id # req'[t].doc.id
               /\ \A q \in Req : req'[q] # Idle =>
                    /\ q # t /\ Carrying(req'[q]) => req'[q].doc.id # req'[t].doc.id
                    /\ req'[q].at = "bar" => req'[q].old # req'[t].doc.id
    <3>1. t # r /\ req'[t] = req[t]
      BY <2>1 DEF Holding
    <3>2. req[t].doc.id \in Id
      BY <2>1, <3>1 DEF FilesInv, TypeInv, LocalsTyped, Locals, Carrying, Doc
    <3>3. req[t].doc.id \notin Gone'
      BY <2>1, <3>1, <3>2 DEF FilesInv, FreshInv
    <3>4. \A q \in Req : req'[q] # Idle =>
                    /\ q # t /\ Carrying(req'[q]) => req'[q].doc.id # req[t].doc.id
                    /\ req'[q].at = "bar" => req'[q].old # req[t].doc.id
      BY <2>1, <3>1 DEF FilesInv, FreshInv
    <3>5. QED
      BY <2>1, <3>1, <3>3, <3>4 DEF Gone
  <2>2. QED
    BY <2>1 DEF FreshInv, Carrying, Gone
<1>5. DiskInv'
  <2>1. \A q \in Req : req'[q] # Idle /\ Holding(req'[q]) => q = r
    BY <1>1
  <2>2. QED
    BY <2>1 DEF DiskInv, Carrying, Holding, Gone
<1>6. StoredIsNotBarred'
  BY DEF StoredIsNotBarred, Gone
<1>7. QED
  BY <1>2, <1>3, <1>4, <1>5, <1>6 DEF FilesInv

LEMMA FilesStore ==
  ASSUME FilesInv, TypeInv', NEW r \in Req, Store(r)
  PROVE  FilesInv'
<1>1. /\ req[r] \in Request /\ Locals(req[r]) /\ req[r] # Idle /\ req[r].at = "store"
      /\ req[r].op \in {"sign", "stop"} /\ Carrying(req[r])
  BY DEF Store, At, FilesInv, TypeInv, TypeOK, LocalsTyped, Locals, Carrying
<1>2. /\ req'[r].at = IF Replaced # 0 THEN "bar" ELSE "put"
      /\ req'[r].op = req[r].op /\ req'[r].doc = req[r].doc
      /\ req'[r].old = Replaced
      /\ \A q \in Req \ {r} : req'[q] = req[q]
  BY <1>1 DEF Store, FilesInv, TypeInv, TypeOK, Request
<1>3. Holding(req'[r]) /\ Carrying(req'[r])
  BY <1>1, <1>2 DEF Holding, Carrying
<1>4. Stored' \in {req[r].doc, NoDoc} /\ (record' # Unreadable => Stored' = req[r].doc)
  BY DEF Store, Stored, Rec
<1>5. Gone' = Gone /\ nextId' = nextId /\ lock = Free /\ lock' = r
  BY DEF Store, Gone
<1>6. req[r].doc.id < nextId /\ req[r].doc.id \notin Gone
  BY <1>1 DEF FilesInv, UsedInv, FreshInv
<1>7. req'[r].at = "bar" =>
        /\ req'[r].old = Stored.id /\ Stored # NoDoc
        /\ req'[r].old < nextId /\ req'[r].old # req[r].doc.id
  BY <1>1, <1>2, StoredType DEF FilesInv, UsedInv, FreshInv
<1>8. \A t \in Req \ {r} : req[t] # Idle /\ req[t].at = "store" =>
        /\ req[r].doc.id # req[t].doc.id
        /\ Stored # NoDoc => Stored.id # req[t].doc.id
  BY <1>1 DEF FilesInv, FreshInv
<1>9. QED
  BY <1>2, <1>3, <1>4, <1>5, <1>6, <1>7, <1>8, FilesWrite, DashboardAssumption

LEMMA FilesBar ==
  ASSUME FilesInv, TypeInv', NEW r \in Req, Bar(r)
  PROVE  FilesInv'
<1>1. /\ req[r] \in Request /\ Locals(req[r]) /\ req[r] # Idle /\ req[r].at = "bar"
      /\ Holding(req[r])
  BY DEF Bar, At, FilesInv, TypeInv, TypeOK, LocalsTyped, Holding
<1>2. /\ req'[r].at = IF req[r].op \in {"link", "unlink"} THEN "relink" ELSE "put"
      /\ req'[r].op = req[r].op /\ req'[r].doc = req[r].doc
      /\ \A q \in Req \ {r} : req'[q] = req[q]
  BY <1>1 DEF Bar, Goto, FilesInv, TypeInv, TypeOK, Request
<1>3. /\ Holding(req'[r]) /\ (Carrying(req'[r]) <=> Carrying(req[r]))
      /\ req'[r].at # "bar"
  BY <1>1, <1>2 DEF Holding, Carrying
<1>4. /\ record' = record /\ Stored' = Stored /\ nextId' = nextId
      /\ lock = r /\ lock' = r
  BY <1>1 DEF Bar, Stored, FilesInv, LockInv
<1>5. \A i \in Gone' : i \in Gone \/ i = req[r].old
  BY DEF Bar, Gone
<1>6. Stored # NoDoc => /\ record # Unreadable /\ Stored.id < nextId
                        /\ Stored = req[r].doc /\ Carrying(req[r])
                        /\ Stored.id \notin Gone /\ Stored.id # req[r].old
  BY <1>1, StoredType DEF FilesInv, UsedInv, DiskInv
<1>7. Carrying(req[r]) =>
        /\ req[r].doc.id < nextId /\ req[r].doc.id \notin Gone'
        /\ record # Unreadable => Stored = req[r].doc
  BY <1>1, <1>5 DEF FilesInv, UsedInv, DiskInv
<1>8. ~Carrying(req[r]) /\ record # Unreadable => Stored = NoDoc
  BY <1>1 DEF FilesInv, DiskInv
<1>9. \A t \in Req \ {r} : req[t] # Idle /\ req[t].at = "store" =>
        /\ Stored # NoDoc => Stored.id # req[t].doc.id
        /\ Carrying(req[r]) => req[r].doc.id # req[t].doc.id
  BY <1>1 DEF FilesInv, FreshInv
<1>10. QED
  BY <1>1, <1>2, <1>3, <1>4, <1>5, <1>6, <1>7, <1>8, <1>9, FilesWrite, DashboardAssumption

LEMMA FilesFinish ==
  ASSUME FilesInv, TypeInv', NEW r \in Req, Finish(r)
  PROVE  FilesInv'
<1>1. /\ req[r] # Idle /\ req[r].at = "record" /\ Holding(req[r]) /\ Carrying(req[r])
  BY DEF Finish, At, Holding, Carrying
<1>2. req'[r] = Idle /\ \A q \in Req \ {r} : req'[q] = req[q]
  BY DEF Finish, Answer, FilesInv, TypeInv, TypeOK
<1>3. Stored' \in {req[r].doc, NoDoc}
  BY DEF Finish, Stored, Rec
<1>4. Gone' = Gone /\ nextId' = nextId /\ lock = r /\ lock' = Free
  BY <1>1 DEF Finish, Gone, FilesInv, LockInv
<1>5. req[r].doc.id < nextId /\ req[r].doc.id \notin Gone
  BY <1>1 DEF FilesInv, UsedInv, DiskInv
<1>6. \A t \in Req \ {r} : req[t] # Idle /\ req[t].at = "store" =>
        req[r].doc.id # req[t].doc.id
  BY <1>1 DEF FilesInv, FreshInv
<1>7. QED
  BY <1>2, <1>3, <1>4, <1>5, <1>6, FilesWrite, DashboardAssumption

LEMMA FilesResend ==
  ASSUME FilesInv, TypeInv', NEW r \in Req, Resend(r)
  PROVE  FilesInv'
<1>1. Stored \in Doc /\ Stored # NoDoc /\ record \in Record /\ record # Unreadable
      /\ Stored = record.grant
  BY StoredType DEF Resend, Resendable, FilesInv, TypeInv, TypeOK
<1>2. /\ req'[r].at = "put" /\ req'[r].doc = Stored
      /\ \A q \in Req \ {r} : req'[q] = req[q]
  BY DEF Resend, Fresh, FilesInv, TypeInv, TypeOK
<1>3. Holding(req'[r]) /\ Carrying(req'[r])
  BY <1>2 DEF Holding, Carrying
<1>4. Stored' \in {Stored, NoDoc} /\ (record' # Unreadable => Stored' = Stored)
  BY <1>1 DEF Resend, Stored, Record
<1>5. Gone' = Gone /\ nextId' = nextId /\ lock = Free /\ lock' = r
  BY DEF Resend, Gone
<1>6. Stored.id < nextId /\ Stored.id \notin Gone
  BY <1>1 DEF FilesInv, UsedInv, StoredIsNotBarred, Gone
<1>7. \A t \in Req \ {r} : req[t] # Idle /\ req[t].at = "store" =>
        Stored.id # req[t].doc.id
  BY <1>1 DEF FilesInv, FreshInv
<1>8. QED
  BY <1>2, <1>3, <1>4, <1>5, <1>6, <1>7, FilesWrite, DashboardAssumption

LEMMA FilesClear ==
  ASSUME FilesInv, TypeInv', NEW r \in Req, NEW op \in {"link", "unlink"}, NEW a,
         Clear(r, op, a)
  PROVE  FilesInv'
<1>1. /\ req'[r].at = IF Replaced # 0 THEN "bar" ELSE "relink"
      /\ req'[r].op = op /\ req'[r].old = Replaced
      /\ \A q \in Req \ {r} : req'[q] = req[q]
  BY DEF Clear, Fresh, FilesInv, TypeInv, TypeOK
<1>2. Holding(req'[r]) /\ ~Carrying(req'[r])
  BY <1>1 DEF Holding, Carrying
<1>3. Stored' = NoDoc
  BY DEF Clear, Stored, Blank, Rec
<1>4. Gone' = Gone /\ nextId' = nextId /\ lock = Free /\ lock' = r
  BY DEF Clear, Gone
<1>5. req'[r].at = "bar" => /\ Stored # NoDoc /\ req'[r].old = Stored.id
                            /\ req'[r].old < nextId
  BY <1>1, StoredType DEF FilesInv, UsedInv
<1>6. \A t \in Req \ {r} : req[t] # Idle /\ req[t].at = "store" /\ Stored # NoDoc =>
        Stored.id # req[t].doc.id
  BY DEF FilesInv, FreshInv
<1>7. QED
  BY <1>1, <1>2, <1>3, <1>4, <1>5, <1>6, FilesWrite, DashboardAssumption

\* A step that begins or ends no request and leaves the readable files alone, or
\* damages them.
LEMMA FilesDamage ==
  ASSUME FilesInv, TypeInv', req' = req, lock' = lock, nextId' = nextId,
         record' \in {record, Unreadable}, barred' \in {barred, Unreadable}
  PROVE  FilesInv'
<1>1. Gone' \subseteq Gone /\ (Stored' # NoDoc => Stored' = Stored /\ record' = record)
  BY DEF Gone, Stored
<1>2. record' # Unreadable => record' = record /\ Stored' = Stored
  BY DEF Stored
<1>3. LockInv'
  BY DEF FilesInv, LockInv, Holding
<1>4. UsedInv'
  BY <1>1 DEF FilesInv, UsedInv, Carrying
<1>5. FreshInv'
  BY <1>1 DEF FilesInv, FreshInv, Carrying
<1>6. DiskInv'
  BY <1>1, <1>2 DEF FilesInv, DiskInv, Carrying, Holding
<1>7. StoredIsNotBarred'
  BY <1>1 DEF FilesInv, StoredIsNotBarred
<1>8. QED
  BY <1>3, <1>4, <1>5, <1>6, <1>7 DEF FilesInv

LEMMA FilesCrash ==
  ASSUME FilesInv, TypeInv', Crash
  PROVE  FilesInv'
<1>1. /\ \A r \in Req : req'[r] = Idle
      /\ Stored' = Stored /\ Gone' = Gone /\ record' = record /\ barred' = barred
      /\ nextId' = nextId
  BY DEF Crash, files, Stored, Gone
<1>2. LockInv' /\ FreshInv' /\ DiskInv'
  BY <1>1 DEF LockInv, FreshInv, DiskInv
<1>3. UsedInv' /\ StoredIsNotBarred'
  BY <1>1 DEF FilesInv, UsedInv, StoredIsNotBarred
<1>4. QED
  BY <1>2, <1>3 DEF FilesInv

LEMMA FilesStep == FilesInv /\ TypeInv' /\ [Next]_vars => FilesInv'
<1> SUFFICES ASSUME FilesInv, TypeInv', [Next]_vars PROVE FilesInv'
  OBVIOUS
<1>1. TypeInv /\ req \in [Req -> Request \cup {Idle}]
  BY DEF FilesInv, TypeInv, TypeOK
<1>2. ASSUME NEW r \in Req, Answer(r), UNCHANGED <<record, barred, nextId>>,
             lock' = lock \/ lock = r
      PROVE  FilesInv'
  <2>1. req'[r] = Idle /\ \A q \in Req \ {r} : req'[q] = req[q]
    BY <1>1, <1>2 DEF Answer
  <2>2. QED
    BY <1>2, <2>1, FilesQuiet
\* The steps between the first write and the last.
<1>3. ASSUME NEW r \in Req, req[r] # Idle, req[r].at \in {"put", "confirm"},
             req'[r].at \in {"put", "confirm", "record"}, req'[r].doc = req[r].doc,
             \A q \in Req \ {r} : req'[q] = req[q],
             UNCHANGED <<record, barred, nextId, lock>>
      PROVE  FilesInv'
  <2>1. /\ Holding(req[r]) /\ Carrying(req[r])
        /\ Holding(req'[r]) /\ Carrying(req'[r])
    BY <1>3 DEF Holding, Carrying
  <2>2. QED
    BY <1>3, <2>1, FilesQuiet
<1>4. ASSUME NEW r \in Req, NEW op \in {"sign", "stop"}, Begin(r, op)
      PROVE  FilesInv'
  <2>1. /\ req'[r].at = "build" /\ ~Holding(req'[r])
        /\ \A q \in Req \ {r} : req'[q] = req[q]
    BY <1>1, <1>4 DEF Begin, Fresh, Holding
  <2>2. UNCHANGED <<record, barred, nextId, lock>>
    BY <1>4 DEF Begin, files
  <2>3. QED
    BY <2>1, <2>2, FilesQuiet
<1>5. ASSUME NEW r \in Req, NEW b \in BOOLEAN,
             PutAnswered(r, b) \/ Confirm(r, b) \/ PutFailed(r, b) \/ PutRefused(r)
      PROVE  FilesInv'
  <2>1. req[r] \in Request /\ req[r] # Idle /\ req[r].at \in {"put", "confirm"}
    BY <1>1, <1>5 DEF PutAnswered, Confirm, PutFailed, PutRefused, At
  <2>2. UNCHANGED <<record, barred, nextId, lock>>
    BY <1>5 DEF PutAnswered, Confirm, PutFailed, PutRefused, files
  <2>3. \A q \in Req \ {r} : req'[q] = req[q]
    BY <1>1, <1>5 DEF PutAnswered, Confirm, PutFailed, PutRefused, Goto
  <2>4. req'[r].at \in {"put", "confirm", "record"} /\ req'[r].doc = req[r].doc
    <3>1. CASE PutAnswered(r, b) \/ PutRefused(r)
      BY <1>1, <2>1, <3>1 DEF PutAnswered, PutRefused, Goto, Request
    <3>2. CASE Confirm(r, b)
      BY <1>1, <2>1, <3>2 DEF Confirm, Request
    <3>3. CASE PutFailed(r, b)
      BY <1>1, <2>1, <3>3 DEF PutFailed, Request
    <3>4. QED
      BY <1>5, <3>1, <3>2, <3>3
  <2>5. QED
    BY <1>3, <2>1, <2>2, <2>3, <2>4
<1>6. ASSUME NEW r \in Req, Ask(r)
      PROVE  FilesInv'
  <2>1. ASSUME NEW a \in Agents, Link(r, a)
        PROVE  FilesInv'
    BY <2>1, FilesDamage DEF Link
  <2>2. ASSUME NEW a \in Agents, Switch(r, a)
        PROVE  FilesInv'
    BY <2>2, FilesClear DEF Switch
  <2>3. QED
    BY <1>4, <1>6, <2>1, <2>2, FilesResend, FilesClear DEF Ask, Unlink
<1>7. ASSUME NEW r \in Req, Step(r)
      PROVE  FilesInv'
  <2>1. CASE \/ \E live \in Allows, life \in Lives : BuildGrant(r, live, life)
             \/ BuildStop(r)
    BY <2>1, FilesBuild, DashboardAssumption DEF BuildGrant, BuildStop
  <2>2. CASE Denied(r) \/ RefuseStop(r)
    BY <1>2, <2>2 DEF Denied, RefuseStop, files
  <2>3. ASSUME NEW b \in BOOLEAN, Relink(r, b)
        PROVE  FilesInv'
    <3>1. lock = r
      BY <2>3 DEF Relink, At, Holding, FilesInv, LockInv
    <3>2. QED
      BY <1>2, <2>3, <3>1 DEF Relink
  <2>4. CASE CannotWrite(r)
    <3>1. lock' = lock \/ lock = r
      BY <2>4 DEF CannotWrite, At, Holding, FilesInv, LockInv
    <3>2. QED
      BY <1>2, <2>4, <3>1 DEF CannotWrite, files
  <2>5. QED
    BY <1>5, <1>7, <2>1, <2>2, <2>3, <2>4, FilesStore, FilesBar, FilesFinish DEF Step
<1>8. CASE Damage \/ Tick \/ UNCHANGED vars \/ \E d \in late : Land(d)
  BY <1>8, FilesDamage DEF Damage, Tick, Land, vars, files
<1>9. QED
  BY <1>5, <1>6, <1>7, <1>8, FilesCrash DEF Next, PromptNext

\* Whatever crashes and damage come between the writes of a request, and however
\* many requests run, the grant on disk never reads as revoked (_store_grant
\* before _add_revoked).
THEOREM StoredNeverBarred == Spec => []StoredIsNotBarred
<1>1. FilesInv => StoredIsNotBarred
  BY DEF FilesInv
<1>2. QED
  BY <1>1, TypeInit, TypeStep, FilesInit, FilesStep, PTL DEF Spec

\* The only document a request writes to the slot is the one grant.json holds at
\* that moment, unrevoked: a re-send that races a stop never puts the superseded
\* grant over it (_grant_lock around resend_grant and _sign_store_publish).
THEOREM WireShowsDisk == Spec => WireFollowsDisk
<1>1. FilesInv => [\A r \in Req :
        (\E kept \in BOOLEAN : PutAnswered(r, kept)) /\ record # Unreadable
          => /\ Stored = req[r].doc
             /\ barred # Unreadable => Stored.id \notin barred]_vars
  <2> SUFFICES ASSUME FilesInv, NEW r \in Req, NEW kept \in BOOLEAN,
                      PutAnswered(r, kept), record # Unreadable
               PROVE  /\ Stored = req[r].doc
                      /\ barred # Unreadable => Stored.id \notin barred
    OBVIOUS
  <2>1. req[r] # Idle /\ Holding(req[r]) /\ Carrying(req[r])
    BY DEF PutAnswered, At, Holding, Carrying
  <2>2. QED
    BY <2>1 DEF FilesInv, DiskInv, Gone
<1>2. QED
  BY <1>1, TypeInit, TypeStep, FilesInit, FilesStep, PTL DEF Spec, WireFollowsDisk

-----------------------------------------------------------------------------
(* What the owner is told.                                                 *)

\* A request that will report a delivery read its document back, so the slot held
\* it, whatever is in the slot by now.
ToldInv ==
  /\ told \subseteq landed
  /\ slot # NoDoc => slot \in landed
  /\ \A r \in Req : req[r] # Idle /\ req[r].ok =>
       req[r].at = "record" /\ req[r].doc \in landed

LEMMA ToldStep == TypeInv /\ ToldInv /\ [Next]_vars => ToldInv'
<1> SUFFICES ASSUME TypeInv, ToldInv, [Next]_vars PROVE ToldInv'
  OBVIOUS
<1>1. req \in [Req -> Request \cup {Idle}]
  BY DEF TypeInv, TypeOK
\* A step that leaves what was told alone and makes no request sure.
<1>2. ASSUME told' = told, landed \subseteq landed', slot' # NoDoc => slot' \in landed',
             \A q \in Req : req'[q] # Idle => req'[q] = req[q] \/ ~req'[q].ok
      PROVE  ToldInv'
  BY <1>2 DEF ToldInv
<1>3. ASSUME NEW r \in Req, told' = told, landed' = landed, slot' = slot,
             NEW x, req' = [req EXCEPT ![r] = x], x # Idle => ~x.ok
      PROVE  ToldInv'
  <2>1. \A q \in Req : req'[q] # Idle => req'[q] = req[q] \/ ~req'[q].ok
    BY <1>1, <1>3
  <2>2. QED
    BY <1>2, <1>3, <2>1 DEF ToldInv
<1>4. ASSUME NEW r \in Req, NEW step, Goto(r, step), req[r] # Idle, req[r].at # "record"
      PROVE  \A q \in Req : req'[q] # Idle => req'[q] = req[q] \/ ~req'[q].ok
  <2>1. req[r] \in Request /\ ~req[r].ok
    BY <1>1, <1>4 DEF ToldInv
  <2>2. req' = [req EXCEPT ![r] = [req[r] EXCEPT !.at = step]]
    BY <1>4 DEF Goto
  <2>3. [req[r] EXCEPT !.at = step].ok = req[r].ok
    BY <2>1 DEF Request
  <2>4. QED
    BY <1>1, <2>1, <2>2, <2>3
<1>5. ASSUME NEW r \in Req, Ask(r)
      PROVE  ToldInv'
  <2>1. \A op, at, a : ~Fresh(op, at, a).ok
    BY DEF Fresh
  <2>2. CASE Begin(r, "sign") \/ Begin(r, "stop")
    BY <1>3, <2>1, <2>2 DEF Begin, wire
  <2>3. CASE Resend(r)
    <3> DEFINE x == [Fresh("resend", "put", NoAgent) EXCEPT !.doc = Stored, !.stop = record.isStop]
    <3>1. ~x.ok
      BY DEF Fresh
    <3>2. req' = [req EXCEPT ![r] = x]
      BY <2>3 DEF Resend
    <3> HIDE DEF x
    <3>3. QED
      BY <1>3, <2>3, <3>1, <3>2 DEF Resend, wire
  <2>4. ASSUME NEW op, NEW a, Clear(r, op, a)
        PROVE  ToldInv'
    <3> DEFINE at == IF Replaced # 0 THEN "bar" ELSE "relink"
               x == [Fresh(op, at, a) EXCEPT !.old = Replaced]
    <3>1. ~x.ok
      BY DEF Fresh
    <3>2. req' = [req EXCEPT ![r] = x]
      BY <2>4 DEF Clear
    <3> HIDE DEF x
    <3>3. QED
      BY <1>3, <2>4, <3>1, <3>2 DEF Clear, wire
  <2>5. ASSUME NEW a \in Agents, Link(r, a)
        PROVE  ToldInv'
    BY <1>2, <2>5 DEF Link, wire, ToldInv
  <2>6. QED
    BY <1>5, <2>2, <2>3, <2>4, <2>5 DEF Ask, Switch, Unlink
<1>6. ASSUME NEW r \in Req, NEW live, NEW life, req[r] # Idle, Build(r, live, life)
      PROVE  ToldInv'
  <2> DEFINE d == [id |-> nextId, agent |-> req[r].agent, issued |-> clock,
                   expiry |-> clock + life, live |-> live]
             x == [req[r] EXCEPT !.doc = d, !.at = "store", !.stop = (req[r].op = "stop")]
  <2>1. req[r] \in Request /\ ~req[r].ok
    BY <1>1, <1>6 DEF Build, At, ToldInv
  <2>2. req' = [req EXCEPT ![r] = x]
    BY <1>6 DEF Build
  <2>3. ~x.ok
    BY <2>1 DEF Request
  <2> HIDE DEF x
  <2>4. QED
    BY <1>3, <1>6, <2>2, <2>3 DEF Build, wire
<1>7. ASSUME NEW r \in Req, Store(r)
      PROVE  ToldInv'
  <2> DEFINE x == [req[r] EXCEPT !.old = Replaced,
                                 !.at = IF Replaced # 0 THEN "bar" ELSE "put"]
  <2>1. req[r] \in Request /\ ~req[r].ok
    BY <1>1, <1>7 DEF Store, At, ToldInv
  <2>2. req' = [req EXCEPT ![r] = x]
    BY <1>7 DEF Store
  <2>3. ~x.ok
    BY <2>1 DEF Request
  <2> HIDE DEF x
  <2>4. QED
    BY <1>3, <1>7, <2>2, <2>3 DEF Store, wire
<1>8. ASSUME NEW r \in Req, Bar(r) \/ PutRefused(r)
      PROVE  ToldInv'
  <2>1. \A q \in Req : req'[q] # Idle => req'[q] = req[q] \/ ~req'[q].ok
    BY <1>4, <1>8 DEF Bar, PutRefused, At
  <2>2. UNCHANGED <<told, landed, slot>>
    BY <1>8 DEF Bar, PutRefused, wire
  <2>3. QED
    BY <1>2, <2>1, <2>2 DEF ToldInv
<1>9. ASSUME NEW r \in Req, NEW kept \in BOOLEAN, PutAnswered(r, kept)
      PROVE  ToldInv'
  <2>1. \A q \in Req : req'[q] # Idle => req'[q] = req[q] \/ ~req'[q].ok
    BY <1>4, <1>9 DEF PutAnswered, At
  <2>2. told' = told /\ landed \subseteq landed' /\ (slot' # NoDoc => slot' \in landed')
    BY <1>9 DEF PutAnswered, ToldInv
  <2>3. QED
    BY <1>2, <2>1, <2>2
<1>10. ASSUME NEW r \in Req, NEW arrives \in BOOLEAN, PutFailed(r, arrives)
       PROVE  ToldInv'
  <2> DEFINE next == IF req[r].tries + 1 < Attempts THEN "put" ELSE "record"
             x == [req[r] EXCEPT !.tries = @ + 1, !.at = next]
  <2>1. req[r] \in Request /\ ~req[r].ok
    BY <1>1, <1>10 DEF PutFailed, At, ToldInv
  <2>2. req' = [req EXCEPT ![r] = x]
    BY <1>10 DEF PutFailed
  <2> HIDE DEF next
  <2>3. ~x.ok
    BY <2>1 DEF Request
  <2> HIDE DEF x
  <2>4. QED
    BY <1>3, <1>10, <2>2, <2>3 DEF PutFailed
<1>11. ASSUME NEW r \in Req, NEW reads \in BOOLEAN, Confirm(r, reads)
       PROVE  ToldInv'
  <2> DEFINE ok == reads /\ slot = req[r].doc
             x == [req[r] EXCEPT !.at = "record", !.ok = ok]
  <2>1. req[r] \in Request /\ req[r].doc \in Doc
    BY <1>1, <1>11 DEF Confirm, At, TypeInv, LocalsTyped, Locals, Carrying
  <2>2. req' = [req EXCEPT ![r] = x]
    BY <1>11 DEF Confirm
  <2>3. ok => req[r].doc \in landed
    BY <2>1, DashboardAssumption DEF ToldInv
  <2> HIDE DEF ok
  <2>4. x.ok = ok /\ x.at = "record" /\ x.doc = req[r].doc
    BY <2>1 DEF Request
  <2> HIDE DEF x
  <2>5. \A q \in Req : req'[q] # Idle /\ req'[q].ok =>
          req'[q].at = "record" /\ req'[q].doc \in landed
    BY <1>1, <2>2, <2>3, <2>4 DEF ToldInv
  <2>6. QED
    BY <1>11, <2>5 DEF Confirm, wire, ToldInv
<1>12. ASSUME NEW r \in Req, Finish(r)
       PROVE  ToldInv'
  <2>1. req'[r] = Idle /\ \A q \in Req \ {r} : req'[q] = req[q]
    BY <1>1, <1>12 DEF Finish, Answer
  <2>2. told' \subseteq landed
    BY <1>12 DEF Finish, At, ToldInv
  <2>3. \A q \in Req : req'[q] # Idle /\ req'[q].ok =>
          req'[q].at = "record" /\ req'[q].doc \in landed
    BY <2>1 DEF ToldInv
  <2>4. QED
    BY <1>12, <2>2, <2>3 DEF Finish, wire, ToldInv
<1>13. ASSUME NEW r \in Req, Step(r)
       PROVE  ToldInv'
  <2>1. CASE \/ \E live \in Allows, life \in Lives : BuildGrant(r, live, life)
             \/ BuildStop(r)
    BY <1>6, <2>1 DEF BuildGrant, BuildStop
  <2>2. CASE \/ Denied(r) \/ RefuseStop(r) \/ CannotWrite(r)
             \/ \E done \in BOOLEAN : Relink(r, done)
    <3>1. req'[r] = Idle /\ \A q \in Req \ {r} : req'[q] = req[q]
      BY <1>1, <2>2 DEF Denied, RefuseStop, CannotWrite, Relink, Answer
    <3>2. UNCHANGED <<told, landed, slot>>
      BY <2>2 DEF Denied, RefuseStop, CannotWrite, Relink, wire
    <3>3. QED
      BY <1>2, <3>1, <3>2 DEF ToldInv
  <2>3. QED
    BY <1>7, <1>8, <1>9, <1>10, <1>11, <1>12, <1>13, <2>1, <2>2 DEF Step
<1>14. CASE Crash
  BY <1>14, <1>2 DEF Crash, wire, ToldInv
<1>15. CASE Damage \/ Tick \/ UNCHANGED vars
  BY <1>15 DEF Damage, Tick, vars, wire, ToldInv
<1>16. ASSUME NEW d \in late, Land(d)
       PROVE  ToldInv'
  BY <1>16 DEF Land, ToldInv
<1>17. QED
  BY <1>5, <1>10, <1>13, <1>14, <1>15, <1>16 DEF Next, PromptNext

\* The owner is told that a grant or a stop was delivered only if the slot really
\* held it (set_note reads back; a 200 is not taken for delivery).
THEOREM ToldHasLanded == Spec => []ToldIsLanded
<1>1. Init => ToldInv
  BY DEF Init, ToldInv
<1>2. ToldInv => ToldIsLanded
  BY DEF ToldInv, ToldIsLanded
<1>3. QED
  BY <1>1, <1>2, TypeInit, TypeStep, ToldStep, PTL DEF Spec

-----------------------------------------------------------------------------
(* One owner, one request at a time.                                       *)

\* The owner signs grants of one length only, and no empty ones.  (The run
\* "grants_stranded" lifts the first of these.)
EqualGrants ==
  /\ \A x, y \in Lives : x = y
  /\ Allows \subseteq {TRUE}

\* The owner makes one request at a time, and the network delivers nothing late.
\* TLC finds an agent stranded without any one of the four.
OnlyThread(r) == \A q \in Req \ {r} : req[q] = Idle

OnlyNext(r) ==
  \/ r \in Req /\ (Ask(r) \/ Step(r))
  \/ Crash \/ Damage \/ Tick

\* An agent may be running under what the slot holds.
LiveSlot == slot # NoDoc /\ slot.live /\ slot.expiry >= clock

\* A grant lasts as long as the owner's grants do.
Lasts(d) == d.live => \E life \in Lives : d.expiry = d.issued + life

\* Nothing in the slot is younger.
Newest(d) == d.issued <= clock /\ (slot # NoDoc => slot.issued <= d.issued)

\* What the request in progress knows of the slot and the files.
Owning(x) ==
  /\ x.at = "build" => /\ agentFile \in {x.agent, Unreadable}
                       /\ LiveSlot => x.agent = slot.agent
  /\ Carrying(x) =>
       /\ Lasts(x.doc) /\ Newest(x.doc)
       /\ x.stop <=> ~x.doc.live
       /\ agentFile # NoAgent
       /\ x.doc.live => agentFile \in {x.doc.agent, Unreadable}
       /\ LiveSlot => x.doc.agent = slot.agent
       /\ Holding(x) /\ record # Unreadable => record.published = "pending"
  /\ x.ok => x.at = "record" /\ slot = x.doc
  /\ Holding(x) /\ ~Carrying(x) => ~LiveSlot

RecordKnown ==
  /\ Stored # NoDoc => /\ Lasts(Stored) /\ Newest(Stored)
                       /\ record.isStop <=> ~Stored.live
                       /\ agentFile # NoAgent
  /\ record # Unreadable /\ record.published = "yes" => Stored # NoDoc /\ slot = Stored

\* While an agent may be running, the files name it or are loudly unreadable.
AgentKnown ==
  LiveSlot =>
    /\ agentFile \in {slot.agent, Unreadable}
    /\ record # Unreadable => Stored # NoDoc /\ Stored.agent = slot.agent

OwnerInv ==
  /\ slot # NoDoc => slot.issued <= clock /\ Lasts(slot)
  /\ RecordKnown
  /\ AgentKnown
  /\ \A r \in Req : req[r] # Idle => Owning(req[r])

LEMMA OwnerInit == Init => OwnerInv
<1> SUFFICES ASSUME Init PROVE OwnerInv
  OBVIOUS
<1>1. slot = NoDoc /\ \A r \in Req : req[r] = Idle
  BY DEF Init
<1>2. Stored = NoDoc /\ record.published = "pending"
  BY DEF Init, Stored, Blank, Rec
<1>3. QED
  BY <1>1, <1>2 DEF OwnerInv, RecordKnown, AgentKnown, LiveSlot

\* While an agent may be running, the guard of a switch holds: the stored grant is
\* live as long as the one in the slot, or its stop is not delivered yet, or the
\* files do not tell.
LEMMA GuardHolds ==
  ASSUME EqualGrants, FilesInv, OwnerInv, LiveSlot
  PROVE  ChangeBlocked
<1> SUFFICES ASSUME ~Active, ~StopUnsent, ~Unknown PROVE FALSE
  BY DEF ChangeBlocked
<1>1. record # Unreadable /\ Stored # NoDoc /\ Stored.agent = slot.agent
  BY DEF Unknown, OwnerInv, AgentKnown
<1>2. Stored \in Doc /\ slot \in Doc /\ clock \in Nat
  BY <1>1, StoredType, DashboardAssumption
     DEF FilesInv, TypeInv, TypeOK, Time, LiveSlot
<1>3. /\ Lasts(Stored) /\ Newest(Stored) /\ (record.isStop <=> ~Stored.live)
      /\ record.published = "yes" => slot = Stored
  BY <1>1 DEF OwnerInv, RecordKnown
<1>4. Stored.live /\ ~record.isStop
  BY <1>1, <1>3 DEF StopUnsent, LiveSlot
<1>5. Provable /\ Stored.agent = agentFile
  BY <1>1, <1>4 DEF Unknown
<1>6. Stored.id \notin barred
  BY <1>1, <1>5 DEF FilesInv, StoredIsNotBarred, Provable
<1>7. Stored.expiry >= clock
  <2>1. PICK a \in Lives : Stored.expiry = Stored.issued + a
    BY <1>3, <1>4 DEF Lasts
  <2>2. PICK b \in Lives : slot.expiry = slot.issued + b
    BY DEF LiveSlot, OwnerInv, Lasts
  <2>3. a = b /\ a \in Nat
    BY <2>1, <2>2, DashboardAssumption DEF EqualGrants
  <2>4. slot.issued <= Stored.issued
    BY <1>3 DEF Newest, LiveSlot
  <2>5. slot.issued \in Nat /\ Stored.issued \in Nat /\ slot.expiry >= clock
    BY <1>2, DashboardAssumption DEF Doc, Time, LiveSlot
  <2>6. QED
    BY <1>2, <2>1, <2>2, <2>3, <2>4, <2>5
<1>8. QED
  BY <1>1, <1>4, <1>5, <1>6, <1>7 DEF Active, Valid

\* A step of the one request that writes neither the slot nor what the files say
\* of the agent.
LEMMA OwnerThread ==
  ASSUME EqualGrants, TypeInv, OwnerInv, NEW r \in Req, OnlyThread(r), NEW x,
         req' = [req EXCEPT ![r] = x], x # Idle => Owning(x),
         UNCHANGED <<clock, slot, record, agentFile>>
  PROVE  OwnerInv'
<1>1. req'[r] = x /\ \A q \in Req \ {r} : req'[q] = Idle
  BY DEF OnlyThread, TypeInv, TypeOK
<1>2. Stored' = Stored /\ LiveSlot' = LiveSlot
  BY DEF Stored, LiveSlot
<1>3. \A q \in Req : req'[q] # Idle => Owning(req'[q])
  BY <1>1
<1>4. \A q \in Req : req'[q] # Idle => Owning(req[q])'
  BY <1>1, <1>2 DEF Owning, Lasts, Newest, Carrying, Holding
<1>5. RecordKnown' /\ AgentKnown'
  BY <1>2 DEF OwnerInv, RecordKnown, AgentKnown, Lasts, Newest
<1>6. QED
  BY <1>4, <1>5 DEF OwnerInv, Lasts

\* The one request has ended, or there is none.
LEMMA OwnerRests ==
  ASSUME EqualGrants, TypeInv', slot' # NoDoc => slot'.issued <= clock' /\ Lasts(slot)',
         RecordKnown', AgentKnown', \A q \in Req : req'[q] = Idle
  PROVE  OwnerInv'
BY DEF OwnerInv

LEMMA OwnerBegin ==
  ASSUME EqualGrants, TypeInv, OwnerInv, NEW r \in Req, OnlyThread(r), NEW op \in {"sign", "stop"},
         Begin(r, op)
  PROVE  OwnerInv'
<1> DEFINE x == Fresh(op, "build", agentFile)
<1>1. x.at = "build" /\ x.agent = agentFile /\ x.ok = FALSE
  BY DEF Fresh
<1>2. req' = [req EXCEPT ![r] = x] /\ agentFile \in Agents
  BY DEF Begin
<1> HIDE DEF x
<1>3. LiveSlot => agentFile = slot.agent
  BY <1>2, DashboardAssumption DEF OwnerInv, AgentKnown
<1>4. Owning(x)
  BY <1>1, <1>3 DEF Owning, Carrying, Holding
<1>5. QED
  BY <1>2, <1>4, OwnerThread DEF Begin, files, wire

LEMMA OwnerBuild ==
  ASSUME EqualGrants, TypeInv, OwnerInv, NEW r \in Req, OnlyThread(r), req[r] # Idle,
         NEW live \in BOOLEAN, NEW life \in Nat, Build(r, live, life),
         live = (req[r].op # "stop"), live => life \in Lives
  PROVE  OwnerInv'
<1> DEFINE d == [id |-> nextId, agent |-> req[r].agent, issued |-> clock,
                 expiry |-> clock + life, live |-> live]
           stop == (req[r].op = "stop")
           x == [req[r] EXCEPT !.doc = d, !.at = "store", !.stop = stop]
<1>1. req[r] \in Request /\ req[r].at = "build" /\ Owning(req[r]) /\ req[r].agent \in Agents
  BY DEF Build, At, TypeInv, TypeOK, LocalsTyped, Locals, OwnerInv
<1>2. req' = [req EXCEPT ![r] = x]
  BY DEF Build
<1>3. /\ d.agent = req[r].agent /\ d.issued = clock /\ d.live = live
      /\ d.expiry = d.issued + life
  OBVIOUS
<1> HIDE DEF d
<1>4. stop \in BOOLEAN /\ (stop <=> ~live)
  OBVIOUS
<1> HIDE DEF stop
<1>5. x.at = "store" /\ x.doc = d /\ x.stop = stop /\ x.ok = req[r].ok
  BY <1>1 DEF Request
<1> HIDE DEF x
<1>6. Lasts(d) /\ Newest(d)
  BY <1>3, DashboardAssumption DEF Lasts, Newest, OwnerInv, TypeInv, TypeOK, Time
<1>7. agentFile \in {d.agent, Unreadable} /\ (LiveSlot => d.agent = slot.agent)
  BY <1>1, <1>3 DEF Owning
<1>8. agentFile # NoAgent
  BY <1>1, <1>3, <1>7, DashboardAssumption
<1>9. ~x.ok
  BY <1>1, <1>5 DEF Owning
<1>10. Owning(x)
  BY <1>3, <1>4, <1>5, <1>6, <1>7, <1>8, <1>9 DEF Owning, Carrying, Holding
<1>11. QED
  BY <1>2, <1>10, OwnerThread DEF Build, files, wire

LEMMA OwnerStore ==
  ASSUME EqualGrants, TypeInv, OwnerInv, NEW r \in Req, OnlyThread(r), Store(r)
  PROVE  OwnerInv'
<1> DEFINE at == IF Replaced # 0 THEN "bar" ELSE "put"
           x == [req[r] EXCEPT !.old = Replaced, !.at = at]
<1>1. /\ req[r] \in Request /\ req[r] # Idle /\ req[r].at = "store" /\ Owning(req[r])
      /\ req[r].op \in {"sign", "stop"} /\ req[r].doc \in Doc
  BY DEF Store, At, TypeInv, TypeOK, LocalsTyped, Locals, Carrying, OwnerInv
<1>2. req' = [req EXCEPT ![r] = x]
  BY DEF Store
<1>3. at \in {"bar", "put"}
  OBVIOUS
<1> HIDE DEF at
<1>4. /\ x.at = at /\ x.doc = req[r].doc /\ x.stop = req[r].stop /\ x.ok = req[r].ok
      /\ x.op = req[r].op
  BY <1>1 DEF Request
<1> HIDE DEF x
<1>5. req'[r] = x /\ \A q \in Req \ {r} : req'[q] = Idle
  BY <1>2 DEF OnlyThread, TypeInv, TypeOK
<1>6. UNCHANGED <<clock, slot, agentFile>> /\ LiveSlot' = LiveSlot
  BY DEF Store, wire, LiveSlot
<1>7. /\ record'.published = "pending" /\ record'.isStop = req[r].stop
      /\ record' # Unreadable => Stored' = req[r].doc
      /\ Stored' # NoDoc => Stored' = req[r].doc
  BY DEF Store, Rec, Stored
<1>8. /\ Lasts(req[r].doc) /\ Newest(req[r].doc)
      /\ req[r].stop <=> ~req[r].doc.live
      /\ agentFile # NoAgent
      /\ req[r].doc.live => agentFile \in {req[r].doc.agent, Unreadable}
      /\ LiveSlot => req[r].doc.agent = slot.agent
      /\ ~req[r].ok
  BY <1>1 DEF Owning, Carrying
<1>9. RecordKnown'
  BY <1>6, <1>7, <1>8 DEF RecordKnown, Lasts, Newest
<1>10. AgentKnown'
  BY <1>1, <1>6, <1>7, <1>8, DashboardAssumption DEF OwnerInv, AgentKnown
<1>11. /\ Carrying(x) /\ Holding(x) /\ x.at \notin {"build", "record"}
       /\ x.doc = req[r].doc /\ x.stop = req[r].stop /\ ~x.ok
  BY <1>1, <1>3, <1>4, <1>8 DEF Carrying, Holding
<1>12. \A q \in Req : req'[q] # Idle => Owning(req[q])'
  BY <1>5, <1>6, <1>7, <1>8, <1>11 DEF Owning, Lasts, Newest, Carrying, Holding
<1>13. QED
  BY <1>6, <1>9, <1>10, <1>12 DEF OwnerInv, Lasts

\* The request goes on under the lock and writes neither the slot nor the record.
LEMMA OwnerGoesOn ==
  ASSUME EqualGrants, TypeInv, OwnerInv, NEW r \in Req, OnlyThread(r), NEW x, req[r] # Idle,
         req' = [req EXCEPT ![r] = x], Holding(req[r]), Holding(x),
         Carrying(x) <=> Carrying(req[r]), x.doc = req[r].doc, x.stop = req[r].stop,
         x.ok => x.at = "record" /\ slot = x.doc,
         UNCHANGED <<clock, slot, record, agentFile>>
  PROVE  OwnerInv'
<1>1. Owning(req[r])
  BY DEF OwnerInv
<1>2. x.at # "build"
  BY DEF Holding
<1>3. Owning(x)
  BY <1>1, <1>2 DEF Owning
<1>4. QED
  BY <1>3, OwnerThread

LEMMA OwnerGoto ==
  ASSUME EqualGrants, TypeInv, OwnerInv, NEW r \in Req, OnlyThread(r), req[r] # Idle, Holding(req[r]),
         req[r].at # "record",
         NEW step \in {"put", "confirm", "record", "relink"}, Goto(r, step),
         Carrying(req[r]) <=> step # "relink",
         UNCHANGED <<clock, slot, record, agentFile>>
  PROVE  OwnerInv'
<1> DEFINE x == [req[r] EXCEPT !.at = step]
<1>1. req[r] \in Request /\ ~req[r].ok
  BY DEF TypeInv, TypeOK, OwnerInv, Owning
<1>2. req' = [req EXCEPT ![r] = x]
  BY DEF Goto
<1>3. x.at = step /\ x.doc = req[r].doc /\ x.stop = req[r].stop /\ ~x.ok
  BY <1>1 DEF Request
<1> HIDE DEF x
<1>4. Holding(x) /\ (Carrying(x) <=> Carrying(req[r]))
  BY <1>3 DEF Holding, Carrying
<1>5. QED
  BY <1>2, <1>3, <1>4, OwnerGoesOn

LEMMA OwnerPut ==
  ASSUME EqualGrants, FilesInv, OwnerInv, NEW r \in Req, OnlyThread(r), NEW kept \in BOOLEAN,
         PutAnswered(r, kept)
  PROVE  OwnerInv'
<1>1. /\ req[r] \in Request /\ req[r] # Idle /\ req[r].at = "put" /\ Owning(req[r])
      /\ Holding(req[r]) /\ Carrying(req[r]) /\ req[r].doc \in Doc /\ TypeInv
  BY DEF PutAnswered, At, FilesInv, TypeInv, TypeOK, LocalsTyped, Locals, Carrying,
         OwnerInv, Holding
<1>2. CASE ~kept
  BY <1>1, <1>2, OwnerGoto DEF PutAnswered, files
<1>3. CASE kept
  <2> DEFINE x == [req[r] EXCEPT !.at = "confirm"]
  <2> PICK d : d = req[r].doc
    OBVIOUS
  <2>1. req' = [req EXCEPT ![r] = x]
    BY DEF PutAnswered, Goto
  <2>2. x.at = "confirm" /\ x.doc = d /\ x.stop = req[r].stop /\ x.ok = req[r].ok
    BY <1>1 DEF Request
  <2> HIDE DEF x
  <2>3. Carrying(x) /\ Holding(x) /\ ~x.ok
    BY <1>1, <2>2 DEF Carrying, Holding, Owning
  <2>4. req'[r] = x /\ \A q \in Req \ {r} : req'[q] = Idle
    BY <1>1, <2>1 DEF OnlyThread, TypeInv, TypeOK
  <2>5. slot' = d /\ UNCHANGED <<clock, record, agentFile>> /\ Stored' = Stored
    BY <1>3 DEF PutAnswered, files, Stored
  <2>6. /\ Lasts(d) /\ Newest(d)
        /\ req[r].stop <=> ~d.live
        /\ agentFile # NoAgent
        /\ d.live => agentFile \in {d.agent, Unreadable}
        /\ record # Unreadable => record.published = "pending" /\ Stored = d
        /\ Stored # NoDoc => record # Unreadable
    BY <1>1 DEF Owning, FilesInv, DiskInv, Stored
  <2>7. d # NoDoc /\ d.issued \in Nat
    BY <1>1, DashboardAssumption DEF Doc, Time
  <2>8. Lasts(d)' /\ d.issued <= d.issued
    BY <2>6, <2>7 DEF Lasts
  <2>9. RecordKnown'
    BY <2>5, <2>6, <2>7, <2>8 DEF OwnerInv, RecordKnown, Lasts, Newest
  <2>10. AgentKnown'
    BY <2>5, <2>6, <2>7 DEF AgentKnown, LiveSlot
  <2>11. \A q \in Req : req'[q] # Idle => Owning(req[q])'
    BY <2>2, <2>3, <2>4, <2>5, <2>6, <2>7, <2>8
       DEF Owning, Lasts, Newest, Carrying, Holding, LiveSlot
  <2>12. QED
    BY <2>5, <2>6, <2>9, <2>10, <2>11 DEF OwnerInv, Newest, Lasts
<1>4. QED
  BY <1>2, <1>3

LEMMA OwnerConfirm ==
  ASSUME EqualGrants, TypeInv, OwnerInv, NEW r \in Req, OnlyThread(r), NEW b \in BOOLEAN,
         Confirm(r, b) \/ PutFailed(r, FALSE)
  PROVE  OwnerInv'
<1>1. /\ req[r] \in Request /\ req[r] # Idle /\ req[r].at \in {"put", "confirm"}
      /\ Holding(req[r]) /\ Carrying(req[r]) /\ ~req[r].ok
  BY DEF Confirm, PutFailed, At, Holding, Carrying, TypeInv, TypeOK, OwnerInv, Owning
<1>2. UNCHANGED <<clock, slot, record, agentFile>>
  BY DEF Confirm, PutFailed, files, wire
<1>3. CASE Confirm(r, b)
  <2> DEFINE ok == b /\ slot = req[r].doc
             x == [req[r] EXCEPT !.at = "record", !.ok = ok]
  <2>1. req' = [req EXCEPT ![r] = x]
    BY <1>3 DEF Confirm
  <2>2. ok => slot = req[r].doc
    OBVIOUS
  <2> HIDE DEF ok
  <2>3. x.at = "record" /\ x.doc = req[r].doc /\ x.stop = req[r].stop /\ x.ok = ok
    BY <1>1 DEF Request
  <2> HIDE DEF x
  <2>4. Holding(x) /\ Carrying(x)
    BY <2>3 DEF Holding, Carrying
  <2>5. QED
    BY <1>1, <1>2, <2>1, <2>2, <2>3, <2>4, OwnerGoesOn
<1>4. CASE PutFailed(r, FALSE)
  <2> DEFINE next == IF req[r].tries + 1 < Attempts THEN "put" ELSE "record"
             x == [req[r] EXCEPT !.tries = @ + 1, !.at = next]
  <2>1. req' = [req EXCEPT ![r] = x]
    BY <1>4 DEF PutFailed
  <2>2. next \in {"put", "record"}
    OBVIOUS
  <2> HIDE DEF next
  <2>3. x.at = next /\ x.doc = req[r].doc /\ x.stop = req[r].stop /\ ~x.ok
    BY <1>1 DEF Request
  <2> HIDE DEF x
  <2>4. Holding(x) /\ Carrying(x)
    BY <2>2, <2>3 DEF Holding, Carrying
  <2>5. QED
    BY <1>1, <1>2, <2>1, <2>3, <2>4, OwnerGoesOn
<1>5. QED
  BY <1>3, <1>4

LEMMA OwnerFinish ==
  ASSUME EqualGrants, FilesInv, OwnerInv, NEW r \in Req, OnlyThread(r), Finish(r)
  PROVE  OwnerInv'
<1>1. /\ req[r] # Idle /\ req[r].at = "record" /\ Owning(req[r]) /\ Carrying(req[r])
      /\ req[r].doc \in Doc
  BY DEF Finish, At, FilesInv, TypeInv, LocalsTyped, Locals, Carrying, OwnerInv
<1>2. \A q \in Req : req'[q] = Idle
  BY DEF Finish, Answer, OnlyThread, FilesInv, TypeInv, TypeOK
<1>3. UNCHANGED <<clock, slot, agentFile>> /\ LiveSlot' = LiveSlot
  BY DEF Finish, wire, LiveSlot
<1>4. /\ record'.published = "yes" => req[r].ok
      /\ record'.isStop = req[r].stop
      /\ record' # Unreadable => Stored' = req[r].doc
      /\ Stored' # NoDoc => Stored' = req[r].doc
  BY DEF Finish, Rec, Stored
<1>5. req[r].doc # NoDoc
  BY <1>1, DashboardAssumption
<1>6. RecordKnown'
  BY <1>1, <1>3, <1>4, <1>5 DEF RecordKnown, Owning, Lasts, Newest
<1>7. AgentKnown'
  BY <1>1, <1>3, <1>4, <1>5 DEF AgentKnown, Owning, OwnerInv
<1>8. QED
  BY <1>2, <1>3, <1>6, <1>7 DEF OwnerInv, Lasts

LEMMA OwnerResend ==
  ASSUME EqualGrants, TypeInv, OwnerInv, NEW r \in Req, OnlyThread(r), Resend(r)
  PROVE  OwnerInv'
<1> DEFINE x == [Fresh("resend", "put", NoAgent) EXCEPT !.doc = Stored, !.stop = record.isStop]
<1>1. /\ Stored \in Doc /\ Stored # NoDoc /\ record # Unreadable /\ record \in Record
      /\ Stored = record.grant
  BY StoredType DEF Resend, Resendable, TypeInv, TypeOK
<1>2. req' = [req EXCEPT ![r] = x]
  BY DEF Resend
<1>3. /\ x.at = "put" /\ x.doc = Stored /\ x.stop = record.isStop /\ ~x.ok
      /\ Carrying(x) /\ Holding(x)
  BY DEF Fresh, Carrying, Holding
<1> HIDE DEF x
<1>4. UNCHANGED <<clock, slot, agentFile>> /\ LiveSlot' = LiveSlot
  BY DEF Resend, wire, LiveSlot
<1>5. /\ record'.published = "pending" /\ record'.isStop = record.isStop
      /\ record' # Unreadable => Stored' = Stored
      /\ Stored' # NoDoc => Stored' = Stored
  BY <1>1 DEF Resend, Stored, Record
<1>6. /\ Lasts(Stored) /\ Newest(Stored)
      /\ record.isStop <=> ~Stored.live
      /\ agentFile # NoAgent
      /\ Stored.live => Stored.agent = agentFile
      /\ LiveSlot => Stored.agent = slot.agent
  BY <1>1 DEF OwnerInv, RecordKnown, AgentKnown, Resend, Resendable, Valid
<1>7. RecordKnown'
  BY <1>4, <1>5, <1>6 DEF RecordKnown, Lasts, Newest
<1>8. AgentKnown'
  BY <1>1, <1>4, <1>5 DEF OwnerInv, AgentKnown
<1>9. req'[r] = x /\ \A q \in Req \ {r} : req'[q] = Idle
  BY <1>2 DEF OnlyThread, TypeInv, TypeOK
<1>10. \A q \in Req : req'[q] # Idle => Owning(req[q])'
  <2> PICK d : d = Stored
    OBVIOUS
  <2>1. Lasts(d)' /\ Newest(d)'
    BY <1>4, <1>6 DEF Lasts, Newest
  <2>2. QED
    BY <1>3, <1>4, <1>5, <1>6, <1>9, <2>1 DEF Owning, Lasts, Newest, Carrying, Holding
<1>11. QED
  BY <1>4, <1>7, <1>8, <1>10 DEF OwnerInv, Lasts

LEMMA OwnerLink ==
  ASSUME EqualGrants, TypeInv, OwnerInv, NEW r \in Req, OnlyThread(r), NEW a \in Agents, Link(r, a)
  PROVE  OwnerInv'
<1>1. \A q \in Req : req[q] = Idle /\ req'[q] = Idle
  BY DEF Link, OnlyThread
<1>2. /\ UNCHANGED <<clock, slot, record>> /\ LiveSlot' = LiveSlot /\ Stored' = Stored
      /\ agentFile' = a /\ a # NoAgent
  BY DashboardAssumption DEF Link, wire, LiveSlot, Stored
<1>3. LiveSlot => slot.agent = a
  <2> SUFFICES ASSUME LiveSlot PROVE slot.agent = a
    OBVIOUS
  <2>1. slot.agent \in Agents
    BY DEF LiveSlot, TypeInv, TypeOK, Doc
  <2>2. /\ agentFile \in {slot.agent, Unreadable}
        /\ record # Unreadable => Stored # NoDoc /\ Stored.agent = slot.agent
    BY DEF OwnerInv, AgentKnown
  <2>3. agentFile # NoAgent
    BY <2>1, <2>2, DashboardAssumption
  <2>4. Stored # NoDoc => record # Unreadable
    BY DEF Stored
  <2>5. QED
    BY <2>2, <2>3, <2>4, DashboardAssumption DEF Link, KeepsGrant, Covers
<1>4. AgentKnown'
  BY <1>2, <1>3 DEF OwnerInv, AgentKnown
<1>5. RecordKnown'
  BY <1>2 DEF OwnerInv, RecordKnown, Lasts, Newest
<1>6. QED
  BY <1>1, <1>2, <1>4, <1>5 DEF OwnerInv, Lasts

LEMMA OwnerClear ==
  ASSUME EqualGrants, FilesInv, OwnerInv, NEW r \in Req, OnlyThread(r), NEW op \in {"link", "unlink"}, NEW a,
         Clear(r, op, a)
  PROVE  OwnerInv'
<1> DEFINE at == IF Replaced # 0 THEN "bar" ELSE "relink"
           x == [Fresh(op, at, a) EXCEPT !.old = Replaced]
<1>1. req' = [req EXCEPT ![r] = x]
  BY DEF Clear
<1>2. x.at \in {"bar", "relink"} /\ x.op = op /\ ~x.ok
  BY DEF Fresh
<1> HIDE DEF x
<1>3. Holding(x) /\ ~Carrying(x) /\ x.at # "build"
  BY <1>2 DEF Holding, Carrying
<1>4. req'[r] = x /\ \A q \in Req \ {r} : req'[q] = Idle
  BY <1>1 DEF OnlyThread, FilesInv, TypeInv, TypeOK
<1>5. ~LiveSlot
  BY GuardHolds DEF Clear
<1>6. UNCHANGED <<clock, slot, agentFile>> /\ LiveSlot' = LiveSlot
  BY DEF Clear, wire, LiveSlot
<1>7. Stored' = NoDoc /\ record'.published = "pending"
  BY DEF Clear, Stored, Blank, Rec
<1>8. RecordKnown' /\ AgentKnown'
  BY <1>5, <1>6, <1>7 DEF RecordKnown, AgentKnown
<1>9. \A q \in Req : req'[q] # Idle => Owning(req[q])'
  BY <1>2, <1>3, <1>4, <1>5, <1>6 DEF Owning, Carrying, Holding
<1>10. QED
  BY <1>6, <1>8, <1>9 DEF OwnerInv, Lasts

LEMMA OwnerRelink ==
  ASSUME EqualGrants, FilesInv, OwnerInv, NEW r \in Req, OnlyThread(r), NEW done \in BOOLEAN, Relink(r, done)
  PROVE  OwnerInv'
<1>1. /\ req[r] # Idle /\ Holding(req[r]) /\ ~Carrying(req[r])
  BY DEF Relink, At, Holding, Carrying
<1>2. ~LiveSlot /\ Stored = NoDoc
  BY <1>1 DEF OwnerInv, Owning, FilesInv, DiskInv, Stored
<1>3. \A q \in Req : req'[q] = Idle
  BY DEF Relink, Answer, OnlyThread, FilesInv, TypeInv, TypeOK
<1>4. /\ UNCHANGED <<clock, slot, record>> /\ LiveSlot' = LiveSlot /\ Stored' = Stored
  BY DEF Relink, wire, LiveSlot, Stored
<1>5. RecordKnown' /\ AgentKnown'
  BY <1>2, <1>4 DEF OwnerInv, RecordKnown, AgentKnown
<1>6. QED
  BY <1>3, <1>4, <1>5 DEF OwnerInv, Lasts

LEMMA OwnerCrash ==
  ASSUME EqualGrants, OwnerInv, Crash
  PROVE  OwnerInv'
<1>1. \A q \in Req : req'[q] = Idle
  BY DEF Crash
<1>2. /\ UNCHANGED <<clock, slot, record, agentFile>>
      /\ LiveSlot' = LiveSlot /\ Stored' = Stored
  BY DEF Crash, files, wire, LiveSlot, Stored
<1>3. RecordKnown' /\ AgentKnown'
  BY <1>2 DEF OwnerInv, RecordKnown, AgentKnown, Lasts, Newest
<1>4. QED
  BY <1>1, <1>2, <1>3 DEF OwnerInv, Lasts

LEMMA OwnerDamage ==
  ASSUME EqualGrants, TypeInv, OwnerInv, Damage
  PROVE  OwnerInv'
<1>1. /\ UNCHANGED <<clock, slot, req>> /\ LiveSlot' = LiveSlot
      /\ agentFile' \in {agentFile, Unreadable}
      /\ record' \in {record, Unreadable}
      /\ record' # Unreadable => record' = record /\ Stored' = Stored
      /\ Stored' # NoDoc => record' = record /\ Stored' = Stored
  BY DEF Damage, wire, LiveSlot, Stored
<1>2. RecordKnown'
  BY <1>1, DashboardAssumption DEF OwnerInv, RecordKnown, Lasts, Newest
<1>3. AgentKnown'
  BY <1>1 DEF OwnerInv, AgentKnown
<1>4. ASSUME NEW q \in Req, req[q] # Idle
      PROVE  Owning(req[q])'
  <2>1. Owning(req[q])
    BY <1>4 DEF OwnerInv
  <2> PICK x : x = req[q] /\ x = req'[q]
    BY <1>1
  <2>2. Lasts(x.doc)' = Lasts(x.doc) /\ Newest(x.doc)' = Newest(x.doc)
    BY <1>1 DEF Lasts, Newest
  <2>3. Owning(x)'
    BY <1>1, <2>1, <2>2, DashboardAssumption DEF Owning, Carrying, Holding
  <2>4. QED
    BY <2>3 DEF Owning, Lasts, Newest, Carrying, Holding
<1>5. QED
  BY <1>1, <1>2, <1>3, <1>4 DEF OwnerInv, Lasts

LEMMA OwnerTick ==
  ASSUME EqualGrants, TypeInv, OwnerInv, Tick
  PROVE  OwnerInv'
<1>1. /\ UNCHANGED <<slot, req, record, agentFile>> /\ Stored' = Stored
      /\ clock' = clock + 1 /\ clock \in Nat
      /\ slot \in Doc \cup {NoDoc} /\ Stored \in Doc \cup {NoDoc}
  BY StoredType, DashboardAssumption DEF Tick, files, wire, Stored, TypeInv, TypeOK, Time
<1>2. LiveSlot' => LiveSlot
  BY <1>1 DEF LiveSlot, Doc
<1>3. ASSUME NEW d \in Doc
      PROVE  Newest(d) => Newest(d)'
  BY <1>1, <1>3, DashboardAssumption DEF Newest, Doc, Time
<1>4. RecordKnown'
  <2>1. Stored # NoDoc => Newest(Stored)'
    <3> PICK d : d = Stored
      OBVIOUS
    <3>1. d # NoDoc => Newest(d)'
      BY <1>1, <1>3 DEF OwnerInv, RecordKnown
    <3>2. QED
      BY <1>1, <3>1 DEF Newest
  <2>2. QED
    BY <1>1, <2>1 DEF OwnerInv, RecordKnown, Lasts
<1>5. AgentKnown'
  BY <1>1, <1>2 DEF OwnerInv, AgentKnown
<1>6. ASSUME NEW q \in Req, req[q] # Idle
      PROVE  Owning(req[q])'
  <2>1. Owning(req[q])
    BY <1>6 DEF OwnerInv
  <2> PICK x : x = req[q] /\ x = req'[q]
    BY <1>1
  <2>2. Carrying(x) => Newest(x.doc)'
    BY <1>3, <1>6, <2>1 DEF Owning, TypeInv, LocalsTyped, Locals
  <2>3. Owning(x)'
    BY <1>1, <1>2, <2>1, <2>2 DEF Owning, Carrying, Holding, Lasts
  <2>4. QED
    BY <2>3 DEF Owning, Lasts, Newest, Carrying, Holding
<1>7. slot # NoDoc => slot'.issued <= clock'
  BY <1>1, DashboardAssumption DEF OwnerInv, Doc, Time
<1>8. QED
  BY <1>1, <1>4, <1>5, <1>6, <1>7 DEF OwnerInv, Lasts

\* Nobody else begins.
LEMMA OnlyThreadStays ==
  ASSUME TypeInv, NEW r, OnlyThread(r), [OnlyNext(r)]_vars
  PROVE  OnlyThread(r)'
<1>1. ASSUME NEW x, req' = [req EXCEPT ![r] = x]
      PROVE  OnlyThread(r)'
  BY <1>1 DEF OnlyThread, TypeInv, TypeOK
<1>2. CASE UNCHANGED req \/ Crash
  BY <1>2 DEF OnlyThread, Crash
<1>3. CASE Ask(r)
  BY <1>1, <1>2, <1>3 DEF Ask, Begin, Resend, Link, Switch, Unlink, Clear
<1>4. CASE Step(r)
  BY <1>1, <1>4 DEF Step, BuildGrant, BuildStop, Build, Denied, Store, RefuseStop, Bar, PutAnswered,
                    Confirm, Relink, PutFailed, PutRefused, Finish, CannotWrite, Answer, Goto
<1>5. QED
  BY <1>2, <1>3, <1>4 DEF OnlyNext, Damage, Tick, vars

LEMMA OwnerKeeps ==
  ASSUME EqualGrants, FilesInv, OwnerInv, NEW r, OnlyThread(r), [OnlyNext(r)]_vars
  PROVE  OwnerInv'
<1>1. TypeInv
  BY DEF FilesInv
<1>2. ASSUME r \in Req, Ask(r)
      PROVE  OwnerInv'
  BY <1>1, <1>2, OwnerBegin, OwnerResend, OwnerLink, OwnerClear DEF Ask, Switch, Unlink
<1>3. ASSUME r \in Req, Denied(r) \/ RefuseStop(r) \/ CannotWrite(r)
      PROVE  OwnerInv'
  <2>1. req' = [req EXCEPT ![r] = Idle] /\ UNCHANGED <<clock, slot, record, agentFile>>
    BY <1>3 DEF Denied, RefuseStop, CannotWrite, Answer, files, wire
  <2>2. QED
    BY <1>1, <1>3, <2>1, OwnerThread
<1>4. ASSUME r \in Req,
             \/ \E live \in Allows, life \in Lives : BuildGrant(r, live, life)
             \/ BuildStop(r)
      PROVE  OwnerInv'
  <2>1. ASSUME NEW live \in Allows, NEW life \in Lives, BuildGrant(r, live, life)
        PROVE  OwnerInv'
    <3>1. /\ req[r] # Idle /\ req[r].op = "sign" /\ Build(r, live, life)
          /\ live = TRUE /\ life \in Nat
      BY <2>1, DashboardAssumption DEF BuildGrant, EqualGrants
    <3>2. live = (req[r].op # "stop") /\ live \in BOOLEAN
      BY <3>1
    <3>3. QED
      BY <1>1, <1>4, <3>1, <3>2, OwnerBuild
  <2>2. CASE BuildStop(r)
    <3>1. /\ req[r] # Idle /\ req[r].op = "stop" /\ Build(r, FALSE, StopLife)
          /\ FALSE = (req[r].op # "stop") /\ StopLife \in Nat
      BY <2>2, DashboardAssumption DEF BuildStop
    <3>2. QED
      BY <1>1, <1>4, <3>1, OwnerBuild
  <2>3. QED
    BY <1>4, <2>1, <2>2
<1>5. ASSUME r \in Req, Bar(r) \/ PutRefused(r)
      PROVE  OwnerInv'
  <2>1. /\ req[r] # Idle /\ req[r].at \in {"bar", "put"} /\ Holding(req[r])
        /\ UNCHANGED <<clock, slot, record, agentFile>>
    BY <1>5 DEF Bar, PutRefused, At, Holding, files, wire
  <2>2. PICK step \in {"put", "record", "relink"} :
          Goto(r, step) /\ (Carrying(req[r]) <=> step # "relink")
    <3>1. CASE Bar(r)
      BY <3>1 DEF Bar, At, Carrying
    <3>2. CASE PutRefused(r)
      BY <3>2 DEF PutRefused, At, Carrying
    <3>3. QED
      BY <1>5, <3>1, <3>2
  <2>3. QED
    BY <1>1, <1>5, <2>1, <2>2, OwnerGoto
<1>6. ASSUME r \in Req, Step(r)
      PROVE  OwnerInv'
  BY <1>1, <1>3, <1>4, <1>5, <1>6, OwnerStore, OwnerPut, OwnerConfirm, OwnerFinish,
     OwnerRelink DEF Step
<1>7. CASE UNCHANGED vars
  <2>1. /\ UNCHANGED <<clock, slot, record, agentFile, req>>
        /\ LiveSlot' = LiveSlot /\ Stored' = Stored
    BY <1>7 DEF vars, files, wire, LiveSlot, Stored
  <2>2. RecordKnown' /\ AgentKnown'
    BY <2>1 DEF OwnerInv, RecordKnown, AgentKnown, Lasts, Newest
  <2>3. \A q \in Req : Owning(req[q])' = Owning(req[q])
    BY <2>1 DEF Owning, Lasts, Newest, Carrying, Holding
  <2>4. QED
    BY <2>1, <2>2, <2>3 DEF OwnerInv, Lasts
<1>8. QED
  BY <1>1, <1>2, <1>6, <1>7, OwnerCrash, OwnerDamage, OwnerTick DEF OnlyNext

LEMMA OnlyIsPrompt == ASSUME NEW r PROVE [OnlyNext(r)]_vars => [PromptNext]_vars /\ [Next]_vars
BY DEF OnlyNext, PromptNext, Next

LEMMA OneOwnerStep ==
  ASSUME EqualGrants, FilesInv, OwnerInv, NEW r, OnlyThread(r), [OnlyNext(r)]_vars
  PROVE  (FilesInv /\ OwnerInv /\ OnlyThread(r))'
<1>1. TypeInv /\ TypeInv'
  BY OnlyIsPrompt, TypeStep DEF FilesInv
<1>2. FilesInv'
  BY <1>1, OnlyIsPrompt, FilesStep
<1>3. QED
  BY <1>1, <1>2, OwnerKeeps, OnlyThreadStays

\* With a single request thread the owner can only make one request at a time:
\* then no agent is stranded, whatever crashes, lost writes and damaged files come
\* in between (_agent_change_blocked).
THEOREM OneOwnerStrandsNobody ==
  ASSUME EqualGrants, \A q, r \in Req : q = r
  PROVE  PromptSpec => []NeverStranded
<1> DEFINE IInv == FilesInv /\ OwnerInv
<1>1. IInv /\ [PromptNext]_vars => IInv'
  <2> SUFFICES ASSUME IInv, [PromptNext]_vars PROVE IInv'
    OBVIOUS
  <2>1. PICK r : \A q \in Req : q = r
    OBVIOUS
  <2>2. OnlyThread(r)
    BY <2>1 DEF OnlyThread
  <2>3. [OnlyNext(r)]_vars
    BY <2>1 DEF PromptNext, OnlyNext
  <2>4. QED
    BY <2>2, <2>3, OneOwnerStep
<1>2. IInv => NeverStranded
  BY DEF OwnerInv, AgentKnown, LiveSlot, NeverStranded
<1>3. Init => IInv
  BY TypeInit, FilesInit, OwnerInit
<1>4. QED
  BY <1>1, <1>2, <1>3, PTL DEF PromptSpec

\* An owner who makes one request at a time, from whichever thread, and whose
\* grants all last equally long, never strands an agent: as long as a permissive
\* grant in the slot has not expired, the record of its agent is there to address
\* a stop to, or is loudly unreadable (_agent_change_blocked; the order of the
\* writes in _store_grant and _add_revoked).
THEOREM OwnersNeverStrand ==
  ASSUME EqualGrants
  PROVE  ScenarioSpec => []OwnerNeverStrands
<1> DEFINE IInv == scenario \in Owner => /\ FilesInv /\ OwnerInv
                                         /\ \A r \in scenario.threads : OnlyThread(r)
<1>1. ScenarioInit => IInv
  BY TypeInit, FilesInit, OwnerInit DEF ScenarioInit, Init, OnlyThread
<1>2. IInv /\ [ScenarioNext]_<<vars, scenario>> => IInv'
  <2> SUFFICES ASSUME IInv, [ScenarioNext]_<<vars, scenario>>, scenario' \in Owner PROVE IInv'
    OBVIOUS
  <2>1. UNCHANGED scenario /\ scenario \in Owner
    BY DEF ScenarioNext
  <2>2. PICK r \in Req : scenario.threads = {r}
    BY <2>1 DEF Owner
  <2>3. FilesInv /\ OwnerInv /\ OnlyThread(r)
    BY <2>1, <2>2
  <2>4. [OnlyNext(r)]_vars
    BY <2>1, <2>2 DEF ScenarioNext, OwnerStep, OnlyNext
  <2>5. (FilesInv /\ OwnerInv /\ OnlyThread(r))'
    BY <2>3, <2>4, OneOwnerStep
  <2>6. QED
    BY <2>1, <2>2, <2>5
<1>3. IInv => OwnerNeverStrands
  BY DEF OwnerInv, AgentKnown, LiveSlot, NeverStranded, OwnerNeverStrands
<1>4. QED
  BY <1>1, <1>2, <1>3, PTL DEF ScenarioSpec
=============================================================================
