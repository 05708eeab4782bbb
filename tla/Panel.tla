------------------------------- MODULE Panel -------------------------------
(***************************************************************************)
(* What the dashboard says the agent is running (server.py,                 *)
(* cost_config_status and what it calls).  One answer is put together from  *)
(* the local file, the deploy record, the signed setting on its note and    *)
(* the gateway's health report, read one after the other while owner,       *)
(* gateway, deploys and strangers go on; each read may fail.  The deploy is *)
(* the abstract one of Release.                                            *)
(***************************************************************************)
EXTENDS OwnerNotes

CONSTANTS
  Agent,        \* agents, by their dids
  Absent,       \* a read that found nothing valid
  Unknown,      \* a read that failed
  Fresh,        \* how long a report counts under each setting:
                \* max(wake * 3, 20 minutes), in readings of the clock
  FreshDefault, \* the same for the default wake of 15 minutes
  MaxAge,       \* bound: last reading of the clock
  MaxCalls      \* bound: model calls

Setting == Values["config"]

ASSUME PanelAssumption ==
  /\ Fresh \in [Setting -> Nat] /\ FreshDefault \in Nat
  /\ MaxAge \in Nat /\ MaxCalls \in Nat
  /\ {Absent, Unknown, None} \cap Setting = {}
  /\ Absent # Unknown /\ Absent # None /\ Unknown # None

VARIABLES
  agentFile,    \* agent.json: the linked agent
  cloud,        \* what the cloud runs: the agent and its setting
  deployFile,   \* deploy.json
  health,       \* the note with the gateway's signed report
  reports       \* history: reports signed, one for each model call

panel == <<agentFile, cloud, deployFile, health, reports>>
panelVars == <<desk, notes, panel>>

Runs(a, v) == [agent |-> a, setting |-> v]

\* Release, of which the whole cloud is one part here.
Promise == INSTANCE Release WITH
  Did <- Agent, Nothing <- None, record <- deployFile,
  running <- [part \in {"did", "seed", "model", "wake"} |->
                IF cloud = None THEN None
                ELSE IF part \in {"did", "seed"} THEN cloud.agent ELSE cloud.setting]

PanelInit ==
  /\ NotesInit
  /\ agentFile = None
  /\ cloud = None
  /\ deployFile = None
  /\ health = None
  /\ reports = {}

-----------------------------------------------------------------------------
(* The world.                                                              *)

LinkAgent(a) ==
  /\ agentFile # a
  /\ agentFile' = a
  /\ UNCHANGED <<desk, notes, cloud, deployFile, health, reports>>

StartDeploy ==
  /\ deployFile # Deploying
  /\ deployFile' = Deploying
  /\ UNCHANGED <<desk, notes, agentFile, cloud, health, reports>>

\* A deploy reaches the cloud, and then its record, or stops in between.
ReachCloud(a, v) ==
  /\ deployFile = Deploying
  /\ cloud' = Runs(a, v)
  /\ UNCHANGED <<desk, notes, agentFile, deployFile, health, reports>>

EndDeploy ==
  /\ deployFile = Deploying
  /\ cloud # None
  /\ deployFile' = Promise!Live(cloud.agent, cloud.setting)
  /\ UNCHANGED <<desk, notes, agentFile, cloud, health, reports>>

\* complete: the signed setting if the note can be read and verifies, else the
\* deployed one; then the health report, which may not arrive.  A call the
\* Governor gates calls no model, and its report says so.
ModelCall(reads, gated, arrives) ==
  LET v == IF reads /\ Verified("config", slot["config"])
           THEN slot["config"].value ELSE cloud.setting
      r == [agent |-> cloud.agent, setting |-> v, gated |-> gated, at |-> clock] IN
  /\ cloud # None
  /\ Cardinality(reports) < MaxCalls
  /\ reports' = reports \cup {r}
  /\ health' = IF arrives THEN r ELSE health
  /\ UNCHANGED <<desk, notes, agentFile, cloud, deployFile>>

\* Anyone may put junk, or an old report, into the agent's note.
Scribble(r) ==
  /\ health # r
  /\ health' = r
  /\ UNCHANGED <<desk, notes, agentFile, cloud, deployFile, reports>>

\* deploy.json is damaged.
DamageRecord ==
  /\ deployFile \notin {None, Junk}
  /\ deployFile' = Junk
  /\ UNCHANGED <<desk, notes, agentFile, cloud, health, reports>>

TimePasses ==
  /\ clock < MaxAge
  /\ clock' = clock + 1
  /\ UNCHANGED <<thread, notes, panel>>

-----------------------------------------------------------------------------
(* cost_config_status.                                                     *)

Newest(S) == CHOOSE e \in S : \A f \in S : e.nonce >= f.nonce

\* The value of the newest setting the owner saved, as far as it left a trace.
OwnersLatest ==
  LET mine == {e \in out : e.kind = "config"} IN
  IF local["config"] # None /\ \A e \in mine : local["config"].nonce >= e.nonce
  THEN local["config"].value
  ELSE IF mine = {} THEN None ELSE Newest(mine).value

\* The local file first.  The page polls, one request at a time.
AskPanel(t) ==
  /\ thread[t] = Idle
  /\ \A u \in Thread : thread[u] # Idle => thread[u].kind # "panel"
  /\ thread' = [thread EXCEPT ![t] =
       [at |-> "record", kind |-> "panel", latest |-> OwnersLatest,
        mine |-> IF local["config"] = None THEN None ELSE local["config"].value,
        deployed |-> None, linked |-> None, ran |-> None,
        note |-> None, noteWas |-> None]]
  /\ UNCHANGED <<clock, notes, panel>>

\* _deployed_config: a live record of the linked agent, or none, or unknown.
Deployed(a, file) ==
  IF file = Junk THEN Unknown
  ELSE IF file \in {None, Deploying} \/ a = None \/ file.did # a THEN Absent
  ELSE file.setting

ReadRecord(t) ==
  /\ At(t, "record")
  /\ thread' = [thread EXCEPT ![t].at = "slot",
       ![t].deployed = Deployed(agentFile, deployFile),
       ![t].linked = agentFile, ![t].ran = cloud]
  /\ UNCHANGED <<clock, notes, panel>>

\* Mutant: a read that fails is a note that is absent (get_note).
SlotFlat(note, reads) ==
  IF reads /\ Verified("config", note) THEN note.value ELSE Absent

\* _slot_config over get_note_state.
SlotConfig(note, reads) ==
  IF ~reads THEN Unknown
  ELSE IF Verified("config", note) THEN note.value ELSE Absent

ReadSlot(t, reads) ==
  /\ At(t, "slot")
  /\ thread' = [thread EXCEPT ![t].at = "health",
       ![t].note = SlotConfig(slot["config"], reads),
       ![t].noteWas = IF Verified("config", slot["config"])
                      THEN slot["config"].value ELSE Absent]
  /\ UNCHANGED <<clock, notes, panel>>

Source(s) ==
  IF s.note \in Setting THEN "signed"
  ELSE IF s.note = Unknown THEN "unknown"
  ELSE IF s.deployed \in Setting THEN "deployed"
  ELSE IF s.deployed = Unknown \/ s.linked # None THEN "unknown"
  ELSE "default"

Told(s) ==
  CASE Source(s) = "signed" -> s.note
    [] Source(s) = "deployed" -> s.deployed
    [] OTHER -> None

Pending(s) == s.mine # None /\ s.note # Unknown /\ s.mine # s.note

\* The wake the agent obeys; the shortest when it cannot be known, the default
\* when nothing is signed and no deploy is recorded.
Shortest == CHOOSE n \in {Fresh[v] : v \in Setting} : \A v \in Setting : n <= Fresh[v]
FreshFor(s) ==
  IF s.note \in Setting THEN Fresh[s.note]
  ELSE IF s.note = Unknown THEN Shortest
  ELSE IF s.deployed \in Setting THEN Fresh[s.deployed]
  ELSE FreshDefault

Recent(r, limit) == clock - r.at <= limit

\* _model_health: a report that verifies under the linked agent, is recent and
\* not of a gated call names the running model.
RunningModel(s, reads) ==
  IF /\ reads /\ health \notin {None, Junk}
     /\ agentFile = health.agent /\ ~health.gated
     /\ Recent(health, FreshFor(s))
  THEN health.setting ELSE None

\* The answer.  It changes nothing, so it is a function of the state it is given in.
Said(s, reads) ==
  [source |-> Source(s), setting |-> Told(s), pending |-> Pending(s),
   running |-> RunningModel(s, reads)]

AnswerPanel(t) ==
  /\ At(t, "health")
  /\ Answer(t)
  /\ UNCHANGED <<clock, notes, panel>>

PanelNext ==
  \/ \E t \in Thread :
       \/ \E v \in Setting : BeginSave(t, "config", v) /\ UNCHANGED panel
       \/ SaveStep(t) /\ UNCHANGED panel
       \/ AskPanel(t) \/ ReadRecord(t) \/ AnswerPanel(t)
       \/ \E reads \in BOOLEAN : ReadSlot(t, reads)
  \/ \E note \in {Junk} \cup held : Overwrite("config", note) /\ UNCHANGED panel
  \/ \E a \in Agent : LinkAgent(a)
  \/ StartDeploy \/ EndDeploy \/ DamageRecord
  \/ \E a \in Agent, v \in Setting : ReachCloud(a, v)
  \/ \E r, o, w \in BOOLEAN : ModelCall(r, o, w)
  \/ \E r \in reports \cup {Junk} : Scribble(r)
  \/ TimePasses

PanelSpec == DeskInit /\ PanelInit /\ [][PanelNext]_panelVars
-----------------------------------------------------------------------------
(* Properties.                                                             *)

Readings == Setting \cup {None, Absent, Unknown}

PanelTypeOK ==
  /\ \A t \in Thread : thread[t] # Idle /\ thread[t].kind = "panel" =>
       /\ thread[t].at \in {"record", "slot", "health"}
       /\ {thread[t].mine, thread[t].deployed, thread[t].note} \subseteq Readings
  /\ agentFile \in Agent \cup {None}
  /\ cloud # None => cloud \in [agent : Agent, setting : Setting]
  /\ health \in reports \cup {None, Junk}

\* The panel never shows a setting that is not in force: what it calls signed was
\* on the note, verified; what it calls deployed ran for the linked agent while
\* nothing verified on the note, also when the reads are cut by a deploy, a save
\* or a failure; the default is shown only while nothing is linked.
SourceIsTrue ==
  \A t \in Thread, reads \in BOOLEAN : At(t, "health") =>
    LET s == thread[t]
        said == Said(s, reads) IN
    /\ said.source = "signed" => s.noteWas = said.setting
    /\ said.source = "deployed" =>
         s.noteWas = Absent /\ s.ran = Runs(s.linked, said.setting)
    /\ said.source = "default" => s.linked = None

\* The model shown as running was called by the linked agent within the time its
\* wake interval allows, whoever puts old reports back.
ReportIsRecent ==
  \A t \in Thread, reads \in BOOLEAN : At(t, "health") =>
    LET said == Said(thread[t], reads) IN
    said.running # None =>
      \E r \in reports :
        /\ r.agent = agentFile /\ r.setting = said.running /\ ~r.gated
        /\ clock - r.at <= FreshFor(thread[t])

\* A signed setting shown without the mark of an unsent change is the newest one
\* the owner had saved when the panel was asked for, although saves fail halfway
\* and old notes come back.  (Before a first save there is nothing to compare.)
UnsentIsMarked ==
  \A t \in Thread, reads \in BOOLEAN : At(t, "health") =>
    LET said == Said(thread[t], reads) IN
    said.source = "signed" /\ ~said.pending => thread[t].latest \in {None, said.setting}

\* All that an answer of the panel shows.
PanelTrue == SourceIsTrue /\ ReportIsRecent /\ UnsentIsMarked
=============================================================================
