------------------------------ MODULE Release ------------------------------
(***************************************************************************)
(* What a deploy promises, without its steps: the record (deploy.json) says *)
(* "live" only of what the cloud runs, because it is invalidated before     *)
(* anything there changes and written last.  Deploy implements this; Panel  *)
(* reads it.                                                               *)
(***************************************************************************)
EXTENDS Integers

CONSTANTS
  Did,        \* agent identities
  Setting,    \* what the owner chooses: a model and a wake interval
  Nothing,    \* not deployed, not recorded
  Deploying   \* the record of a deploy that has not ended

VARIABLES
  running,    \* what the cloud runs: OUR_DID, KEY_SEED, MODEL_NAME, WAKE_MINUTES
  record      \* deploy.json

release == <<running, record>>

Part == {"did", "seed", "model", "wake"}
PartValue(part) == IF part \in {"did", "seed"} THEN Did ELSE Setting
Live(did, setting) == [did |-> did, setting |-> setting]

ReleaseInit ==
  /\ running = [part \in Part |-> Nothing]
  /\ record = Nothing

Invalidate ==
  /\ record' = Deploying
  /\ UNCHANGED running

\* One command sets several parts at once, or, failing, some of them.
Change ==
  /\ record = Deploying
  /\ running' \in [Part -> Did \cup Setting \cup {Nothing}]
  /\ \A part \in Part : running'[part] \in PartValue(part) \cup {Nothing}
  /\ UNCHANGED record

Publish(did, setting) ==
  /\ running.did = did /\ running.seed = did
  /\ running.model = setting /\ running.wake = setting
  /\ record' = Live(did, setting)
  /\ UNCHANGED running

ReleaseNext ==
  \/ Invalidate
  \/ Change
  \/ \E did \in Did, setting \in Setting : Publish(did, setting)

ReleaseSpec == ReleaseInit /\ [][ReleaseNext]_release

\* A record that says live names the agent whose key is sealed in the gateway,
\* and the model and the wake interval that run (deploy_engine: "a failure from
\* here on must not leave a stale 'live' record naming the OLD model").
RecordTrue ==
  \A did \in Did, setting \in Setting :
    record = Live(did, setting) =>
      /\ running.did = did /\ running.seed = did
      /\ running.model = setting /\ running.wake = setting
=============================================================================
