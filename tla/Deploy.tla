------------------------------- MODULE Deploy -------------------------------
(***************************************************************************)
(* The one-click deploy (deploy_engine.py) with the two keystores it reads  *)
(* (keystore.py): the human's, made or imported from the page, and the      *)
(* agent's, which the deploy itself makes.  A keystore is two files, and a  *)
(* deploy is a row of commands, each of which may fail with or without      *)
(* effect; the process may die between any two.  Passphrases have no name   *)
(* of their own: the sidecar holds "the passphrase that opens k".          *)
(***************************************************************************)
EXTENDS Desk

CONSTANTS
  Choice,       \* what the owner chooses: a model and a wake interval
  Key,          \* Ed25519 keys; a did stands for its key
  Secret,       \* values of the task secret
  MaxCreators,  \* bound: requests that make or import the owner's key at once
  Torn          \* a file that exists and cannot be read

ASSUME DeployAssumption ==
  /\ Torn \notin Key \cup Secret \cup {None} /\ None \notin Key \cup Secret
  /\ {None, Deploying} \cap [did : Key, setting : Choice] = {}

VARIABLES
  pem,          \* owner.pem of each keystore
  meta,         \* owner.json of each keystore: the did
  side,         \* agent-id/owner.passphrase
  used,         \* history: keys generated or imported so far
  path,         \* onboarding.json
  secret,       \* task_secret.txt
  minted,       \* history: task secrets generated
  job,          \* the locals of DeployEngine._run
  overall,      \* DeployEngine._overall
  running,      \* what the cloud runs
  sealed,       \* TASK_SECRET in the gateway
  linked,       \* agent.json: the agent the dashboard speaks to
  record        \* deploy.json

keystore == <<pem, meta, used, path>>
secretFile == <<secret, minted>>
remote == <<running, sealed>>
engine == <<side, job, overall, remote, linked, record>>
deploy == <<keystore, secretFile, engine>>
deployVars == <<desk, deploy>>

Rel == INSTANCE Release WITH Did <- Key, Setting <- Choice, Nothing <- None

Where == {"owner", "agent"}
Paths == {"A", "B", "C"}

DeployInit ==
  /\ pem = [d \in Where |-> None]
  /\ meta = [d \in Where |-> None]
  /\ side = None
  /\ used = {}
  /\ path = None
  /\ secret = None
  /\ minted = {}
  /\ job = Idle
  /\ overall = "idle"
  /\ running = [part \in Rel!Part |-> None]
  /\ sealed = None
  /\ linked = None
  /\ record = None

-----------------------------------------------------------------------------
(* The keystore.                                                           *)

KeyExists(d) == pem[d] # None /\ meta[d] # None
\* Mutant: a lone file reads as no key.
OccupiedIfWhole(d) == KeyExists(d)
Occupied(d) == pem[d] # None \/ meta[d] # None
PublicDid(d) == IF meta[d] \in Key THEN meta[d] ELSE None
\* load, with a passphrase: what it opens, if it opens anything.
Load(d, passphrase) == IF pem[d] \in Key /\ pem[d] = passphrase THEN pem[d] ELSE None

WritePem(d, k) == pem' = [pem EXCEPT ![d] = k] /\ UNCHANGED meta
WriteMeta(d, k) == meta' = [meta EXCEPT ![d] = k] /\ UNCHANGED pem

\* create_key or import_key: refused if anything is there, or on a passphrase
\* that is too short or opens nothing.
BeginKey(t, k) ==
  /\ thread[t] = Idle
  /\ Cardinality({u \in Thread : thread[u] # Idle}) < MaxCreators
  /\ ~Occupied("owner")
  /\ k \notin used
  /\ used' = used \cup {k}
  /\ thread' = [thread EXCEPT ![t] = [at |-> "pem", key |-> k, found |-> pem["owner"]]]
  /\ UNCHANGED <<clock, pem, meta, path, secretFile, engine>>

OwnerPem(t) ==
  /\ At(t, "pem")
  /\ WritePem("owner", thread[t].key)
  /\ Goto(t, "meta")
  /\ UNCHANGED <<clock, used, path, secretFile, engine>>

OwnerMeta(t) ==
  /\ At(t, "meta")
  /\ WriteMeta("owner", thread[t].key)
  /\ Goto(t, "forget")
  /\ UNCHANGED <<clock, used, path, secretFile, engine>>

\* _forget_path, which may fail; the answer reads the did back.
ForgetPath(t, unlinks) ==
  /\ At(t, "forget")
  /\ path' = IF unlinks THEN None ELSE path
  /\ Answer(t)
  /\ UNCHANGED <<clock, pem, meta, used, secretFile, engine>>

ChoosePath(p) ==
  /\ path' = p
  /\ UNCHANGED <<desk, pem, meta, used, secretFile, engine>>

\* reset_path.
ResetPath ==
  /\ path # None
  /\ path' = None
  /\ UNCHANGED <<desk, pem, meta, used, secretFile, engine>>

\* A sync, an antivirus or a hand takes a meta file away.
LoseMeta(d) ==
  /\ meta[d] # None
  /\ meta' = [meta EXCEPT ![d] = None]
  /\ UNCHANGED <<desk, pem, used, path, secretFile, engine>>

-----------------------------------------------------------------------------
(* The task secret.                                                        *)

\* _task_secret, under its lock: what it returns; nothing when it raises.
TaskSecret == IF secret = None THEN Secret \ minted ELSE {secret} \ {Torn}

Keep(s) == secret' = s /\ minted' = minted \cup {s}

\* tasks_status, save_tasks and activity_feed read it, at any time.
ReadSecret ==
  /\ \E s \in TaskSecret : Keep(s)
  /\ UNCHANGED <<desk, keystore, engine>>

DamageSecret ==
  /\ secret \in Secret
  /\ secret' = Torn
  /\ UNCHANGED <<desk, keystore, minted, engine>>

-----------------------------------------------------------------------------
(* The deploy job.                                                         *)

Step(at) == job # Idle /\ job.at = at
Proceed(at) == job' = [job EXCEPT !.at = at] /\ UNCHANGED overall
Halt == job' = Idle /\ overall' = "failed"

\* start: one job at a time.
Start(s) ==
  /\ job = Idle
  /\ job' = [at |-> "checks", setting |-> s, did |-> None, key |-> None, secret |-> None]
  /\ overall' = "running"
  /\ UNCHANGED <<desk, keystore, secretFile, side, remote, linked, record>>

\* Signed in, the configuration checks, the owner's did: all read only.
Checks(pass) ==
  /\ Step("checks")
  /\ IF pass /\ PublicDid("owner") # None THEN Proceed("identity") ELSE Halt
  /\ UNCHANGED <<desk, keystore, secretFile, side, remote, linked, record>>

\* _agent_identity reopens the key that is there, and refuses what is damaged.
Reopen ==
  /\ Step("identity")
  /\ Occupied("agent")
  /\ LET k == Load("agent", side) IN
     IF KeyExists("agent") /\ k # None
     THEN job' = [job EXCEPT !.at = "invalidate", !.key = k, !.did = PublicDid("agent")]
          /\ UNCHANGED overall
     ELSE Halt
  /\ UNCHANGED <<desk, keystore, secretFile, side, remote, linked, record>>

\* Mutant: the passphrase is not kept before the key is made.
MintSideless(k) ==
  /\ Step("identity")
  /\ ~Occupied("agent")
  /\ k \notin used
  /\ used' = used \cup {k}
  /\ job' = [job EXCEPT !.at = "agentpem", !.key = k]
  /\ UNCHANGED <<desk, pem, meta, path, secretFile, side, overall, remote, linked, record>>

\* The first deploy: the passphrase is kept before the key it opens exists.
MintSide(k) ==
  /\ Step("identity")
  /\ ~Occupied("agent")
  /\ k \notin used
  /\ used' = used \cup {k}
  /\ side' = k
  /\ job' = [job EXCEPT !.at = "agentpem", !.key = k]
  /\ UNCHANGED <<desk, pem, meta, path, secretFile, overall, remote, linked, record>>

AgentPem ==
  /\ Step("agentpem")
  /\ WritePem("agent", job.key)
  /\ Proceed("agentmeta")
  /\ UNCHANGED <<desk, used, path, secretFile, side, remote, linked, record>>

AgentMeta ==
  /\ Step("agentmeta")
  /\ WriteMeta("agent", job.key)
  /\ job' = [job EXCEPT !.at = "invalidate", !.did = job.key]
  /\ UNCHANGED overall
  /\ UNCHANGED <<desk, used, path, secretFile, side, remote, linked, record>>

\* Mutant: the old record stands until the new one is written.
InvalidateNot ==
  /\ Step("invalidate")
  /\ Proceed("gateway")
  /\ UNCHANGED <<desk, keystore, secretFile, side, remote, linked, record>>

InvalidateRecord ==
  /\ Step("invalidate")
  /\ record' = Deploying
  /\ Proceed("gateway")
  /\ UNCHANGED <<desk, keystore, secretFile, side, remote, linked>>

\* The parts a command sets, and the step after it.
Sets == [gateway |-> {"did", "model"}, seed |-> {"seed"}, agent |-> {"wake"}]
After == [gateway |-> "seed", seed |-> "fetch", agent |-> "link"]

\* wrangler deploy and wrangler secret put; one that fails, or that the clock
\* cuts off, may have taken effect.
Command(at, works, effect) ==
  /\ Step(at)
  /\ job.did # None
  /\ works => effect
  /\ running' = IF effect
                THEN [part \in Rel!Part |->
                        IF part \notin Sets[at] THEN running[part]
                        ELSE CASE part = "did" -> job.did
                               [] part = "seed" -> job.key
                               [] OTHER -> job.setting]
                ELSE running
  /\ IF works THEN Proceed(After[at]) ELSE Halt
  /\ UNCHANGED <<desk, keystore, secretFile, side, sealed, linked, record>>

\* With an unreadable meta file there is no did to name in the first command.
Unnamed ==
  /\ Step("gateway")
  /\ job.did = None
  /\ Halt
  /\ UNCHANGED <<desk, keystore, secretFile, side, remote, linked, record>>

\* The task secret is read, or made; _task_secret raises on a damaged file.
FetchSecret ==
  /\ Step("fetch")
  /\ IF TaskSecret = {}
     THEN Halt /\ UNCHANGED secretFile
     ELSE \E s \in TaskSecret :
            /\ Keep(s)
            /\ job' = [job EXCEPT !.at = "seal", !.secret = s]
            /\ UNCHANGED overall
  /\ UNCHANGED <<desk, keystore, side, running, sealed, linked, record>>

SealSecret(works, effect) ==
  /\ Step("seal")
  /\ works => effect
  /\ sealed' = IF effect THEN job.secret ELSE sealed
  /\ IF works THEN Proceed("agent") ELSE Halt
  /\ UNCHANGED <<desk, keystore, secretFile, side, running, linked, record>>

\* link_agent, which refuses while another agent is in charge; either way the
\* deploy goes on.
Link(accepts) ==
  /\ Step("link")
  /\ linked' = IF accepts THEN job.did ELSE linked
  /\ Proceed("record")
  /\ UNCHANGED <<desk, keystore, secretFile, side, remote, record>>

\* Mutant: the record of the deploy is not written.
SkipRecord ==
  /\ Step("record")
  /\ Proceed("live")
  /\ UNCHANGED <<desk, keystore, secretFile, side, remote, linked, record>>

WriteRecord ==
  /\ Step("record")
  /\ record' = Rel!Live(job.did, job.setting)
  /\ Proceed("live")
  /\ UNCHANGED <<desk, keystore, secretFile, side, running, sealed, linked>>

Finish ==
  /\ Step("live")
  /\ job' = Idle
  /\ overall' = "live"
  /\ UNCHANGED <<desk, keystore, secretFile, side, remote, linked, record>>

\* _read_overall: what a new process makes of the record.
ReadOverall == IF record \in {None, Deploying} THEN "idle" ELSE "live"

\* The process dies.  A key file that was being written may be torn.
DieDeploying(torn) ==
  LET writing(at) == \/ at = "pem" /\ \E t \in Thread : At(t, "pem")
                     \/ at = "meta" /\ \E t \in Thread : At(t, "meta")
                     \/ at \in {"agentpem", "agentmeta"} /\ Step(at) IN
  /\ job # Idle \/ \E t \in Thread : thread[t] # Idle
  /\ \A at \in torn : writing(at)
  /\ pem' = [owner |-> IF "pem" \in torn THEN Torn ELSE pem["owner"],
             agent |-> IF "agentpem" \in torn THEN Torn ELSE pem["agent"]]
  /\ meta' = [owner |-> IF "meta" \in torn THEN Torn ELSE meta["owner"],
              agent |-> IF "agentmeta" \in torn THEN Torn ELSE meta["agent"]]
  /\ thread' = [t \in Thread |-> Idle]
  /\ job' = Idle
  /\ overall' = ReadOverall
  /\ UNCHANGED <<clock, used, path, secretFile, side, remote, linked, record>>

DeployNext ==
  \/ \E t \in Thread :
       \/ \E k \in Key : BeginKey(t, k)
       \/ OwnerPem(t) \/ OwnerMeta(t)
       \/ \E u \in BOOLEAN : ForgetPath(t, u)
  \/ \E p \in Paths : ChoosePath(p)
  \/ ResetPath
  \/ \E d \in Where : LoseMeta(d)
  \/ ReadSecret \/ DamageSecret
  \/ \E s \in Choice : Start(s)
  \/ \E b \in BOOLEAN : Checks(b)
  \/ Reopen
  \/ \E k \in Key : MintSide(k)
  \/ AgentPem \/ AgentMeta \/ InvalidateRecord
  \/ \E at \in DOMAIN Sets, w, e \in BOOLEAN : Command(at, w, e)
  \/ Unnamed \/ FetchSecret
  \/ \E w, e \in BOOLEAN : SealSecret(w, e)
  \/ \E accepts \in BOOLEAN : Link(accepts)
  \/ WriteRecord \/ Finish
  \/ \E torn \in SUBSET {"pem", "meta", "agentpem", "agentmeta"} : DieDeploying(torn)

DeploySpec == DeskInit /\ DeployInit /\ [][DeployNext]_deployVars
-----------------------------------------------------------------------------
(* Properties.                                                             *)

Files == Key \cup {None, Torn}

DeployTypeOK ==
  /\ \A t \in Thread : thread[t] # Idle =>
       thread[t].at \in {"pem", "meta", "forget"} /\ thread[t].key \in used
  /\ pem \in [Where -> Files] /\ meta \in [Where -> Files]
  /\ side \in used \cup {None}
  /\ used \subseteq Key
  /\ path \in Paths \cup {None}
  /\ secret \in minted \cup {None, Torn}
  /\ job # Idle => job.setting \in Choice /\ {job.did, job.key} \subseteq used \cup {None}
  /\ overall \in {"idle", "running", "failed", "live"}
  /\ sealed \in minted \cup {None} /\ linked \in used \cup {None}

\* A key once made is never overwritten, neither the agent's by a deploy nor the
\* human's by a request that began when it was there: a lone pem left by a crash
\* or a lost meta file is not taken for a fresh start.  (Two requests that both
\* began on an empty keystore do overwrite one another: nothing locks it.)
IdentityKept ==
  [][\A d \in Where : pem[d] \in Key /\ pem'[d] # pem[d] =>
       d = "owner" /\ \E t \in Thread : At(t, "pem") /\ thread[t].found # pem[d]]_deployVars

\* The passphrase that opens the agent's key is always there to open it again.
AgentKeyOpens == pem["agent"] \in Key => side = pem["agent"]

\* There is one task secret, the one the slots are derived from here and, once
\* sealed, in the gateway: a damaged file is not replaced by a second one.
OneSecret == \A s \in minted : minted = {s}

\* What must survive on this disk.
SecretsStay == AgentKeyOpens /\ OneSecret

\* The record is true of the cloud, whatever fails in a deploy and whenever it
\* dies; and a deploy that is told live is recorded, and has sealed the secret.
RecordIsTrue ==
  /\ Rel!RecordTrue
  /\ overall = "live" => record \notin {None, Deploying} /\ sealed # None

ImplementsRelease == Rel!ReleaseSpec
=============================================================================
