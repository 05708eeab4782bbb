---------------------------- MODULE DeployProofs ----------------------------
(***************************************************************************)
(* Theorems about the deploy and the keystores, for every set of keys,      *)
(* secrets, choices and request threads.                                   *)
(***************************************************************************)
EXTENDS Deploy, TLAPS

\* What Release promises it keeps by itself.
THEOREM ReleaseKeepsRecordTrue == Rel!ReleaseSpec => []Rel!RecordTrue
<1>1. Rel!ReleaseInit => Rel!RecordTrue
  BY DeployAssumption DEF Rel!ReleaseInit, Rel!RecordTrue, Rel!Live
<1>2. Rel!RecordTrue /\ [Rel!ReleaseNext]_(Rel!release) => Rel!RecordTrue'
  <2> SUFFICES ASSUME Rel!RecordTrue, [Rel!ReleaseNext]_(Rel!release),
                      NEW did \in Key, NEW setting \in Choice, record' = Rel!Live(did, setting)
               PROVE  /\ running'.did = did /\ running'.seed = did
                      /\ running'.model = setting /\ running'.wake = setting
    BY DEF Rel!RecordTrue
  <2>1. record' # Deploying
    BY DeployAssumption DEF Rel!Live
  <2>2. CASE Rel!Invalidate
    BY <2>1, <2>2 DEF Rel!Invalidate
  <2>3. CASE Rel!Change
    BY <2>1, <2>3 DEF Rel!Change
  <2>4. ASSUME NEW d \in Key, NEW s \in Choice, Rel!Publish(d, s)
        PROVE  /\ running'.did = did /\ running'.seed = did
               /\ running'.model = setting /\ running'.wake = setting
    <3>1. d = did /\ s = setting
      BY <2>4 DEF Rel!Publish, Rel!Live
    <3>2. QED
      BY <2>4, <3>1 DEF Rel!Publish
  <2>5. CASE UNCHANGED Rel!release
    BY <2>5 DEF Rel!release, Rel!RecordTrue
  <2>6. QED
    BY <2>2, <2>3, <2>4, <2>5 DEF Rel!ReleaseNext
<1>3. QED
  BY <1>1, <1>2, PTL DEF Rel!ReleaseSpec
-----------------------------------------------------------------------------
(* Types.  Every key that is anywhere was generated or imported.           *)

JobSteps == {"checks", "identity", "agentpem", "agentmeta", "invalidate", "gateway", "seed",
             "fetch", "seal", "agent", "link", "record", "live"}
\* The steps after the first command, which names a did.
Named == {"seed", "fetch", "seal", "agent", "link", "record", "live"}
Jobs(keys, secrets) ==
  [at : JobSteps, setting : Choice, did : keys \cup {None}, key : keys \cup {None},
   secret : secrets \cup {None}]

\* A request that makes a key found no pem file.
Requests(keys) == [at : {"pem", "meta", "forget"}, key : keys, found : {None}]

FilesInv ==
  /\ used \subseteq Key /\ minted \subseteq Secret
  /\ thread \in [Thread -> Requests(used) \cup {Idle}]
  /\ pem \in [Where -> used \cup {None, Torn}] /\ meta \in [Where -> used \cup {None, Torn}]
  /\ side \in used \cup {None} /\ linked \in used \cup {None}
  /\ path \in Paths \cup {None}
  /\ secret \in minted \cup {None, Torn} /\ sealed \in minted \cup {None}
  /\ job \in Jobs(used, minted) \cup {Idle}
  /\ job # Idle /\ job.at \in Named => job.did # None
  /\ overall \in {"idle", "running", "failed", "live"}
  /\ running \in [Rel!Part -> Key \cup Choice \cup {None}]
  /\ \A part \in Rel!Part : running[part] \in Rel!PartValue(part) \cup {None}
  /\ record \in {None, Deploying} \cup [did : used, setting : Choice]

LEMMA FilesInit == DeskInit /\ DeployInit => FilesInv
BY DEF DeskInit, DeployInit, FilesInv, Where

\* A step that keeps the job, or moves it, or ends it.
LEMMA FilesStep == FilesInv /\ [DeployNext]_deployVars => FilesInv'
<1> SUFFICES ASSUME FilesInv, [DeployNext]_deployVars PROVE FilesInv'
  OBVIOUS
<1> USE DEF FilesInv, deployVars, desk, deploy, keystore, secretFile, remote, engine, Where,
            Requests, Jobs, JobSteps, Named
<1>1. ASSUME NEW t \in Thread, NEW k \in Key, BeginKey(t, k)
      PROVE  FilesInv'
  BY <1>1 DEF BeginKey, Occupied
<1>2. ASSUME NEW t \in Thread, OwnerPem(t)
      PROVE  FilesInv'
  BY <1>2 DEF OwnerPem, At, Goto, WritePem
<1>3. ASSUME NEW t \in Thread, OwnerMeta(t)
      PROVE  FilesInv'
  BY <1>3 DEF OwnerMeta, At, Goto, WriteMeta
<1>4. ASSUME NEW t \in Thread, NEW unlinks \in BOOLEAN, ForgetPath(t, unlinks)
      PROVE  FilesInv'
  BY <1>4 DEF ForgetPath, Answer
<1>5. ASSUME (\E p \in Paths : ChoosePath(p)) \/ ResetPath
      PROVE  FilesInv'
  BY <1>5 DEF ChoosePath, ResetPath
<1>6. ASSUME NEW d \in Where, LoseMeta(d)
      PROVE  FilesInv'
  BY <1>6 DEF LoseMeta
<1>7. ASSUME ReadSecret \/ DamageSecret
      PROVE  FilesInv'
  BY <1>7 DEF ReadSecret, DamageSecret, TaskSecret, Keep
<1>8. ASSUME NEW s \in Choice, Start(s)
      PROVE  FilesInv'
  BY <1>8 DEF Start
<1>9. ASSUME NEW pass \in BOOLEAN, Checks(pass)
      PROVE  FilesInv'
  BY <1>9 DEF Checks, Step, Proceed, Halt
<1>10. ASSUME Reopen
       PROVE  FilesInv'
  <2>1. CASE UNCHANGED pem /\ job' = Idle /\ overall' = "failed"
    BY <1>10, <2>1 DEF Reopen
  <2>2. ASSUME KeyExists("agent") /\ Load("agent", side) # None
        PROVE  FilesInv'
    <3>1. job \in Jobs(used, minted)
      BY <1>10 DEF Reopen, Step
    <3>2. Load("agent", side) \in used /\ PublicDid("agent") \in used \cup {None}
      BY <2>2, DeployAssumption DEF Load, PublicDid
    <3>3. job' = [job EXCEPT !.at = "invalidate", !.key = Load("agent", side),
                             !.did = PublicDid("agent")]
      BY <1>10, <2>2 DEF Reopen
    <3>4. job' \in Jobs(used, minted) /\ job'.at = "invalidate"
      BY <3>1, <3>2, <3>3
    <3>5. QED
      BY <1>10, <2>2, <3>4 DEF Reopen
  <2>3. QED
    BY <1>10, <2>1, <2>2 DEF Reopen, Halt
<1>11. ASSUME NEW k \in Key, MintSide(k)
       PROVE  FilesInv'
  <2>1. job \in Jobs(used, minted) /\ k \in used'
    BY <1>11 DEF MintSide, Step
  <2>2. job' \in Jobs(used', minted') /\ job'.at \notin Named
    BY <1>11, <2>1 DEF MintSide
  <2>3. used \subseteq used' /\ used' \subseteq Key
    BY <1>11 DEF MintSide
  <2>4. thread' \in [Thread -> Requests(used') \cup {Idle}]
    BY <1>11, <2>3 DEF MintSide
  <2>5. QED
    BY <1>11, <2>2, <2>3, <2>4 DEF MintSide
<1>12. ASSUME AgentPem \/ AgentMeta
       PROVE  FilesInv'
  <2>1. job \in Jobs(used, minted)
    BY <1>12 DEF AgentPem, AgentMeta, Step
  <2>2. job' \in Jobs(used, minted) /\ job'.at \notin Named
    BY <1>12, <2>1 DEF AgentPem, AgentMeta, Proceed
  <2>3. /\ pem' \in [Where -> used \cup {None, Torn}]
        /\ meta' \in [Where -> used \cup {None, Torn}]
    BY <1>12, <2>1 DEF AgentPem, AgentMeta, WritePem, WriteMeta
  <2>4. QED
    BY <1>12, <2>2, <2>3 DEF AgentPem, AgentMeta, Proceed
<1>13. ASSUME InvalidateRecord \/ WriteRecord \/ Finish \/ Unnamed
       PROVE  FilesInv'
  BY <1>13 DEF InvalidateRecord, WriteRecord, Finish, Unnamed, Step, Proceed, Halt, Rel!Live
<1>14. ASSUME NEW at \in DOMAIN Sets, NEW works \in BOOLEAN, NEW effect \in BOOLEAN,
              Command(at, works, effect)
       PROVE  FilesInv'
  <2>1. job \in Jobs(used, minted) /\ job # Idle /\ job.at = at /\ job.did # None
    BY <1>14 DEF Command, Step
  <2>2. /\ running' \in [Rel!Part -> Key \cup Choice \cup {None}]
        /\ \A part \in Rel!Part : running'[part] \in Rel!PartValue(part) \cup {None}
    <3>1. CASE UNCHANGED running
      BY <3>1
    <3>2. ASSUME running' = [part \in Rel!Part |->
                        IF part \notin Sets[at] THEN running[part]
                        ELSE CASE part = "did" -> job.did
                               [] part = "seed" -> job.key
                               [] OTHER -> job.setting]
          PROVE  /\ running' \in [Rel!Part -> Key \cup Choice \cup {None}]
                 /\ \A part \in Rel!Part : running'[part] \in Rel!PartValue(part) \cup {None}
      <4>1. job.did \in Key /\ job.key \in Key \cup {None} /\ job.setting \in Choice
        BY <2>1
      <4>2. \A part \in Rel!Part : running'[part] \in Rel!PartValue(part) \cup {None}
        BY <3>2, <4>1 DEF Sets, Rel!Part, Rel!PartValue
      <4>3. \A part \in Rel!Part : running'[part] \in Key \cup Choice \cup {None}
        BY <4>2 DEF Rel!PartValue
      <4>4. QED
        BY <3>2, <4>2, <4>3
    <3>3. QED
      BY <1>14, <3>1, <3>2 DEF Command
  <2>3. job' \in Jobs(used, minted) \cup {Idle} /\ overall' \in {"failed", overall}
    BY <1>14, <2>1 DEF Command, Sets, After, Proceed, Halt
  <2>4. job' # Idle /\ job'.at \in Named => job'.did # None
    BY <1>14, <2>1 DEF Command, Proceed, Halt
  <2>5. QED
    BY <1>14, <2>2, <2>3, <2>4 DEF Command
<1>15. ASSUME FetchSecret
       PROVE  FilesInv'
  <2>1. CASE TaskSecret = {}
    BY <1>15, <2>1 DEF FetchSecret, Halt
  <2>2. CASE TaskSecret # {}
    <3>1. PICK s \in TaskSecret :
            Keep(s) /\ job' = [job EXCEPT !.at = "seal", !.secret = s] /\ UNCHANGED overall
      BY <1>15, <2>2 DEF FetchSecret
    <3>2. job \in Jobs(used, minted) /\ job # Idle /\ job.at = "fetch"
      BY <1>15 DEF FetchSecret, Step
    <3>3. s \in Secret
      BY DEF TaskSecret
    <3>4. job' \in Jobs(used, minted \cup {s}) /\ job'.did = job.did
      BY <3>1, <3>2
    <3>5. secret' \in minted' /\ minted' \subseteq Secret /\ minted \subseteq minted'
      BY <3>1, <3>3 DEF Keep
    <3>6. job' \in Jobs(used, minted') /\ job'.did # None
      BY <3>1, <3>2, <3>4 DEF Keep
    <3>7. UNCHANGED <<desk, keystore, side, overall, running, sealed, linked, record>>
      BY <1>15, <3>1 DEF FetchSecret
    <3> HIDE DEF Jobs
    <3>8. QED
      BY <3>5, <3>6, <3>7
  <2>3. QED
    BY <2>1, <2>2
<1>16. ASSUME NEW works \in BOOLEAN, NEW effect \in BOOLEAN, SealSecret(works, effect)
       PROVE  FilesInv'
  BY <1>16 DEF SealSecret, Step, Proceed, Halt
<1>17. ASSUME NEW accepts \in BOOLEAN, Link(accepts)
       PROVE  FilesInv'
  BY <1>17 DEF Link, Step, Proceed
<1>18. ASSUME NEW torn \in SUBSET {"pem", "meta", "agentpem", "agentmeta"}, DieDeploying(torn)
       PROVE  FilesInv'
  BY <1>18 DEF DieDeploying, ReadOverall
<1>19. CASE UNCHANGED deployVars
  BY <1>19
<1>20. QED
  BY <1>1, <1>2, <1>3, <1>4, <1>5, <1>6, <1>7, <1>8, <1>9, <1>10, <1>11, <1>12, <1>13, <1>14,
     <1>15, <1>16, <1>17, <1>18, <1>19 DEF DeployNext

LEMMA FilesGiveTypes == FilesInv => DeployTypeOK
<1> SUFFICES ASSUME FilesInv PROVE DeployTypeOK
  OBVIOUS
<1>1. \A t \in Thread : thread[t] # Idle =>
        thread[t].at \in {"pem", "meta", "forget"} /\ thread[t].key \in used
  BY DEF FilesInv, Requests
<1>2. job # Idle => job.setting \in Choice /\ {job.did, job.key} \subseteq used \cup {None}
  BY DEF FilesInv, Jobs
<1>3. pem \in [Where -> Files] /\ meta \in [Where -> Files]
  BY DEF FilesInv, Files
<1>4. QED
  BY <1>1, <1>2, <1>3 DEF FilesInv, DeployTypeOK

\* The key files, the secret, the locals of the deploy and of the requests, and
\* what the cloud runs hold what they are declared to, whatever is torn or lost.
THEOREM DeployTypeCorrect == DeploySpec => []DeployTypeOK
BY FilesInit, FilesStep, FilesGiveTypes, PTL DEF DeploySpec
-----------------------------------------------------------------------------
(* The keystores and the secret.                                           *)

\* The agent's key on disk, in the deploy that made it, and in its sidecar are one.
AgentInv ==
  /\ meta["agent"] \in Key => pem["agent"] = meta["agent"]
  /\ AgentKeyOpens
  /\ job # Idle =>
       /\ job.at = "agentpem" => side = job.key /\ pem["agent"] = None
       /\ job.at = "agentmeta" => pem["agent"] = job.key
       /\ job.at \in {"agentpem", "agentmeta"} => meta["agent"] = None /\ job.key \in Key
       /\ job.at = "invalidate" \/ job.at = "gateway" \/ job.at \in Named =>
            job.key \in Key /\ job.did \in {None, job.key}

\* A secret was made only if there was none, and is kept from then on.
SecretInv == (secret = None => minted = {}) /\ OneSecret

LEMMA KeepInit == DeskInit /\ DeployInit => AgentInv /\ SecretInv
BY DeployAssumption DEF DeskInit, DeployInit, AgentInv, AgentKeyOpens, SecretInv, OneSecret, Where

LEMMA SecretStep == FilesInv /\ SecretInv /\ [DeployNext]_deployVars => SecretInv'
<1> SUFFICES ASSUME FilesInv, SecretInv, [DeployNext]_deployVars PROVE SecretInv'
  OBVIOUS
<1>1. ASSUME NEW s \in TaskSecret, Keep(s)
      PROVE  SecretInv'
  <2>1. s \in Secret /\ s # None /\ (minted = {} \/ minted = {s})
    BY DeployAssumption DEF TaskSecret, FilesInv, SecretInv, OneSecret
  <2>2. QED
    BY <1>1, <2>1 DEF Keep, SecretInv, OneSecret
<1>2. CASE DamageSecret
  BY <1>2, DeployAssumption DEF DamageSecret, SecretInv, OneSecret
<1>3. CASE UNCHANGED <<secret, minted>>
  BY <1>3 DEF SecretInv, OneSecret
<1>4. (\E s \in TaskSecret : Keep(s)) \/ DamageSecret \/ UNCHANGED <<secret, minted>>
  BY DEF DeployNext, deployVars, deploy, secretFile, engine, keystore, BeginKey, OwnerPem,
         OwnerMeta, ForgetPath, ChoosePath, ResetPath, LoseMeta, ReadSecret, Start, Checks, Reopen,
         MintSide, AgentPem, AgentMeta, InvalidateRecord, Command, Unnamed, FetchSecret,
         SealSecret, Link, WriteRecord, Finish, DieDeploying
<1>5. QED
  BY <1>1, <1>2, <1>3, <1>4

\* The human's keystore, the choices and the secret file do not touch the deploy.
Outside == UNCHANGED <<side, job, overall, running, sealed, linked, record>>

LEMMA AgentStep == FilesInv /\ AgentInv /\ [DeployNext]_deployVars => AgentInv'
<1> SUFFICES ASSUME FilesInv, AgentInv, [DeployNext]_deployVars PROVE AgentInv'
  OBVIOUS
<1> USE DEF AgentInv, AgentKeyOpens, Named
<1>1. ASSUME Outside, pem'["agent"] = pem["agent"],
             meta'["agent"] \in {meta["agent"], None}
      PROVE  AgentInv'
  BY <1>1, DeployAssumption DEF Outside
<1>2. ASSUME NEW t \in Thread, OwnerPem(t) \/ OwnerMeta(t)
      PROVE  AgentInv'
  <2>1. pem'["agent"] = pem["agent"] /\ meta'["agent"] = meta["agent"]
    BY <1>2 DEF OwnerPem, OwnerMeta, WritePem, WriteMeta, FilesInv, Where
  <2>2. Outside
    BY <1>2 DEF OwnerPem, OwnerMeta, Outside, engine, remote
  <2>3. QED
    BY <1>1, <2>1, <2>2
<1>3. ASSUME NEW d \in Where, LoseMeta(d)
      PROVE  AgentInv'
  <2>1. pem'["agent"] = pem["agent"] /\ meta'["agent"] \in {meta["agent"], None}
    BY <1>3 DEF LoseMeta, FilesInv, Where
  <2>2. Outside
    BY <1>3 DEF LoseMeta, Outside, engine, remote
  <2>3. QED
    BY <1>1, <2>1, <2>2
<1>4. ASSUME UNCHANGED <<pem, meta, side>>, job' = Idle
      PROVE  AgentInv'
  BY <1>4
<1>5. ASSUME NEW at, NEW next, Step(at), Proceed(next), UNCHANGED <<pem, meta, side>>,
             \/ at \in {"invalidate", "gateway"} \cup Named /\ next \in {"gateway"} \cup Named
             \/ next = "identity"
      PROVE  AgentInv'
  <2>1. job \in Jobs(used, minted)
    BY <1>5 DEF Step, FilesInv
  <2>2. job'.at = next /\ job'.key = job.key /\ job'.did = job.did
    BY <1>5, <2>1 DEF Proceed, Jobs
  <2>3. QED
    BY <1>5, <2>2 DEF Step
<1>6. CASE Reopen
  <2>1. CASE UNCHANGED pem /\ job' = Idle
    BY <1>4, <1>6, <2>1 DEF Reopen, keystore
  <2>2. ASSUME KeyExists("agent"), Load("agent", side) # None,
               job' = [job EXCEPT !.at = "invalidate", !.key = Load("agent", side),
                                  !.did = PublicDid("agent")]
        PROVE  AgentInv'
    <3>1. job \in Jobs(used, minted)
      BY <1>6 DEF Reopen, Step, FilesInv
    <3>2. /\ job'.at = "invalidate" /\ job'.key = Load("agent", side)
          /\ job'.did = PublicDid("agent")
      BY <2>2, <3>1 DEF Jobs
    <3>3. Load("agent", side) = pem["agent"] /\ pem["agent"] \in Key
      BY <2>2 DEF Load
    <3>4. PublicDid("agent") \in {None, pem["agent"]}
      BY DEF PublicDid
    <3>5. UNCHANGED <<pem, meta, side>>
      BY <1>6 DEF Reopen, keystore
    <3>6. QED
      BY <3>2, <3>3, <3>4, <3>5
  <2>3. QED
    BY <1>6, <2>1, <2>2 DEF Reopen, Halt, keystore
<1>7. ASSUME NEW k \in Key, MintSide(k)
      PROVE  AgentInv'
  <2>1. job'.at = "agentpem" /\ job'.key = k
    BY <1>7 DEF MintSide, Step, FilesInv, Jobs
  <2>2. pem["agent"] = None /\ meta["agent"] = None
    BY <1>7 DEF MintSide, Occupied
  <2>3. QED
    BY <1>7, <2>1, <2>2, DeployAssumption DEF MintSide
<1>8. CASE AgentPem
  <2>1. job'.at = "agentmeta" /\ job'.key = job.key
    BY <1>8 DEF AgentPem, Step, Proceed, FilesInv, Jobs
  <2>2. pem'["agent"] = job.key /\ UNCHANGED <<meta, side>>
    BY <1>8 DEF AgentPem, WritePem, FilesInv, Where
  <2>3. QED
    BY <1>8, <2>1, <2>2, DeployAssumption DEF AgentPem, Step
<1>9. CASE AgentMeta
  <2>1. job'.at = "invalidate" /\ job'.key = job.key /\ job'.did = job.key
    BY <1>9 DEF AgentMeta, Step, FilesInv, Jobs
  <2>2. meta'["agent"] = job.key /\ UNCHANGED <<pem, side>>
    BY <1>9 DEF AgentMeta, WriteMeta, FilesInv, Where
  <2>3. QED
    BY <1>9, <2>1, <2>2 DEF AgentMeta, Step
<1>10. ASSUME NEW torn \in SUBSET {"pem", "meta", "agentpem", "agentmeta"}, DieDeploying(torn)
       PROVE  AgentInv'
  <2>1. pem'["agent"] = IF "agentpem" \in torn THEN Torn ELSE pem["agent"]
    BY <1>10 DEF DieDeploying
  <2>2. meta'["agent"] = IF "agentmeta" \in torn THEN Torn ELSE meta["agent"]
    BY <1>10 DEF DieDeploying
  <2>3. "agentpem" \in torn => Step("agentpem")
    BY <1>10 DEF DieDeploying
  <2>4. UNCHANGED side /\ job' = Idle
    BY <1>10 DEF DieDeploying
  <2>5. QED
    BY <2>1, <2>2, <2>3, <2>4, DeployAssumption DEF Step
<1>11. ASSUME NEW s \in Choice, Start(s)
       PROVE  AgentInv'
  BY <1>11 DEF Start, keystore
<1>12. CASE FetchSecret
  <2>1. CASE job' = Idle
    BY <1>4, <1>12, <2>1 DEF FetchSecret, keystore
  <2>2. ASSUME NEW s, job' = [job EXCEPT !.at = "seal", !.secret = s]
        PROVE  AgentInv'
    <3>1. job \in Jobs(used, minted)
      BY <1>12 DEF FetchSecret, Step, FilesInv
    <3>2. job'.at = "seal" /\ job'.key = job.key /\ job'.did = job.did
      BY <2>2, <3>1 DEF Jobs
    <3>3. QED
      BY <1>12, <3>2 DEF FetchSecret, keystore, Step
  <2>3. QED
    BY <1>12, <2>1, <2>2 DEF FetchSecret, Halt
<1>13. ASSUME \/ \E pass \in BOOLEAN : Checks(pass)
              \/ InvalidateRecord \/ WriteRecord \/ Finish \/ Unnamed
              \/ \E at \in DOMAIN Sets, works, effect \in BOOLEAN : Command(at, works, effect)
              \/ \E works, effect \in BOOLEAN : SealSecret(works, effect)
              \/ \E accepts \in BOOLEAN : Link(accepts)
       PROVE  AgentInv'
  <2>1. UNCHANGED <<pem, meta, side>>
    BY <1>13 DEF Checks, InvalidateRecord, WriteRecord, Finish, Unnamed, Command, SealSecret,
                 Link, keystore
  <2>2. \/ job' = Idle
        \/ Step("checks") /\ Proceed("identity")
        \/ Step("invalidate") /\ Proceed("gateway")
        \/ Step("record") /\ Proceed("live")
        \/ \E at \in DOMAIN Sets : Step(at) /\ Proceed(After[at])
        \/ Step("seal") /\ Proceed("agent")
        \/ Step("link") /\ Proceed("record")
    BY <1>13 DEF Checks, InvalidateRecord, WriteRecord, Finish, Unnamed, Command, SealSecret,
                 Link, Halt
  <2>3. \A at \in DOMAIN Sets :
          at \in {"gateway"} \cup Named /\ After[at] \in {"gateway"} \cup Named
    BY DEF Sets, After
  <2>4. QED
    BY <1>4, <1>5, <2>1, <2>2, <2>3
<1>14. ASSUME \/ \E t \in Thread, k \in Key : BeginKey(t, k)
              \/ \E t \in Thread, unlinks \in BOOLEAN : ForgetPath(t, unlinks)
              \/ \E p \in Paths : ChoosePath(p)
              \/ ResetPath \/ ReadSecret \/ DamageSecret
              \/ UNCHANGED deployVars
       PROVE  AgentInv'
  BY <1>1, <1>14 DEF BeginKey, ForgetPath, ChoosePath, ResetPath, ReadSecret, DamageSecret, Outside,
                     deployVars, deploy, engine, remote, keystore
<1>15. QED
  BY <1>2, <1>3, <1>6, <1>7, <1>8, <1>9, <1>10, <1>11, <1>12, <1>13, <1>14 DEF DeployNext

\* What must survive on this disk does: the passphrase of the agent's key, and
\* the one task secret, whatever fails and whenever the process dies.
THEOREM SecretsStayHere == DeploySpec => []SecretsStay
<1>1. AgentInv /\ SecretInv => SecretsStay
  BY DEF AgentInv, SecretInv, SecretsStay
<1>2. QED
  BY <1>1, FilesInit, KeepInit, FilesStep, AgentStep, SecretStep, PTL DEF DeploySpec

LEMMA OtherPemSteps ==
  [DeployNext]_deployVars =>
    \/ UNCHANGED pem
    \/ AgentPem \/ \E t \in Thread : OwnerPem(t)
    \/ \E torn \in SUBSET {"pem", "meta", "agentpem", "agentmeta"} : DieDeploying(torn)
BY DEF DeployNext, deployVars, deploy, keystore, BeginKey, OwnerMeta, WriteMeta, ForgetPath,
       ChoosePath, ResetPath, LoseMeta, ReadSecret, DamageSecret, Start, Checks, Reopen, MintSide,
       AgentMeta, InvalidateRecord, Command, Unnamed, FetchSecret, SealSecret, Link, WriteRecord,
       Finish

\* A key file is only ever written where there was none, except by a second
\* request that also found none.
THEOREM KeysAreKept == DeploySpec => IdentityKept
<1> DEFINE Kept == \A d \in Where : pem[d] \in Key /\ pem'[d] # pem[d] =>
             d = "owner" /\ \E t \in Thread : At(t, "pem") /\ thread[t].found # pem[d]
           KeysInv == FilesInv /\ AgentInv
<1>1. ASSUME KeysInv, [DeployNext]_deployVars
      PROVE  [Kept]_deployVars
  <2> USE DEF Where
  <2>1. \A t \in Thread : At(t, "pem") => thread[t].found = None
    BY <1>1 DEF FilesInv, At, Requests
  <2>2. pem["owner"] \in Key =>
          pem'["owner"] = pem["owner"] \/ \E t \in Thread : At(t, "pem")
    <3>1. ASSUME NEW torn \in SUBSET {"pem", "meta", "agentpem", "agentmeta"}, DieDeploying(torn)
          PROVE  pem'["owner"] = pem["owner"] \/ \E t \in Thread : At(t, "pem")
      BY <3>1 DEF DieDeploying
    <3>2. CASE AgentPem
      BY <1>1, <3>2 DEF AgentPem, WritePem, FilesInv
    <3>3. CASE \E t \in Thread : OwnerPem(t)
      BY <3>3 DEF OwnerPem
    <3>4. QED
      BY <1>1, <3>1, <3>2, <3>3, OtherPemSteps
  <2>3. pem["agent"] \in Key => pem'["agent"] = pem["agent"]
    <3>1. ASSUME NEW torn \in SUBSET {"pem", "meta", "agentpem", "agentmeta"}, DieDeploying(torn),
                 pem["agent"] \in Key
          PROVE  pem'["agent"] = pem["agent"]
      <4>1. ~Step("agentpem")
        BY <1>1, <3>1, DeployAssumption DEF AgentInv, Step
      <4>2. QED
        BY <3>1, <4>1 DEF DieDeploying
    <3>2. ASSUME AgentPem
          PROVE  pem["agent"] \notin Key
      BY <1>1, <3>2, DeployAssumption DEF AgentPem, AgentInv, Step
    <3>3. CASE \E t \in Thread : OwnerPem(t)
      BY <1>1, <3>3 DEF OwnerPem, WritePem, FilesInv
    <3>4. QED
      BY <1>1, <3>1, <3>2, <3>3, OtherPemSteps
  <2>4. QED
    BY <2>1, <2>2, <2>3, DeployAssumption
<1>2. QED
  BY <1>1, FilesInit, KeepInit, FilesStep, AgentStep, PTL DEF DeploySpec, IdentityKept
-----------------------------------------------------------------------------
(* The record and the cloud.                                               *)

\* Between the invalidation and the record the cloud is brought, part by part, to
\* what the record will say.
CloudInv ==
  /\ record \notin {None, Deploying} => sealed # None
  /\ overall = "live" => record \notin {None, Deploying}
  /\ job # Idle =>
       /\ overall = "running"
       /\ job.at \in {"gateway"} \cup (Named \ {"live"}) => record = Deploying
       /\ job.at \in Named => running["did"] = job.did /\ running["model"] = job.setting
       /\ job.at \in Named \ {"seed"} => running["seed"] = job.did
       /\ job.at \in {"link", "record", "live"} => running["wake"] = job.setting
       /\ job.at = "seal" => job.secret # None
       /\ job.at \in {"agent", "link", "record", "live"} => sealed # None
       /\ job.at = "live" => record \notin {None, Deploying}

LEMMA CloudInit == DeskInit /\ DeployInit => CloudInv
BY DEF DeskInit, DeployInit, CloudInv

LEMMA CloudStep == FilesInv /\ AgentInv /\ CloudInv /\ [DeployNext]_deployVars => CloudInv'
<1> SUFFICES ASSUME FilesInv, AgentInv, CloudInv, [DeployNext]_deployVars PROVE CloudInv'
  OBVIOUS
<1> USE DEF CloudInv, Named
<1>1. ASSUME Halt, UNCHANGED record, sealed' # None \/ UNCHANGED sealed
      PROVE  CloudInv'
  BY <1>1 DEF Halt
<1>2. CASE Outside
  BY <1>2 DEF Outside
<1>3. ASSUME NEW s \in Choice, Start(s)
      PROVE  CloudInv'
  BY <1>3 DEF Start, remote
<1>4. ASSUME job # Idle, UNCHANGED <<overall, running, sealed, record>>,
             job'.at \in {"identity", "agentpem", "agentmeta", "invalidate"}
      PROVE  CloudInv'
  BY <1>4
<1>5. ASSUME NEW pass \in BOOLEAN, Checks(pass)
      PROVE  CloudInv'
  <2>1. CASE Halt
    BY <1>1, <1>5, <2>1 DEF Checks, remote
  <2>2. CASE Proceed("identity")
    <3>1. job'.at = "identity"
      BY <1>5, <2>2 DEF Checks, Step, Proceed, FilesInv, Jobs
    <3>2. QED
      BY <1>4, <1>5, <2>2, <3>1 DEF Checks, Step, Proceed, remote
  <2>3. QED
    BY <1>5, <2>1, <2>2 DEF Checks
<1>6. CASE Reopen
  <2>1. CASE Halt
    BY <1>1, <1>6, <2>1 DEF Reopen, remote
  <2>2. ASSUME job' = [job EXCEPT !.at = "invalidate", !.key = Load("agent", side),
                                  !.did = PublicDid("agent")], UNCHANGED overall
        PROVE  CloudInv'
    <3>1. job'.at = "invalidate"
      BY <1>6, <2>2 DEF Reopen, Step, FilesInv, Jobs
    <3>2. QED
      BY <1>4, <1>6, <2>2, <3>1 DEF Reopen, Step, remote
  <2>3. QED
    BY <1>6, <2>1, <2>2 DEF Reopen
<1>7. CASE AgentPem \/ AgentMeta \/ \E k \in Key : MintSide(k)
  <2>1. job \in Jobs(used, minted) /\ job # Idle
    BY <1>7 DEF AgentPem, AgentMeta, MintSide, Step, FilesInv
  <2>2. job'.at \in {"agentpem", "agentmeta", "invalidate"}
    BY <1>7, <2>1 DEF AgentPem, AgentMeta, MintSide, Proceed, Jobs
  <2>3. UNCHANGED <<overall, running, sealed, record>>
    BY <1>7 DEF AgentPem, AgentMeta, MintSide, Proceed, remote
  <2>4. QED
    BY <1>4, <2>1, <2>2, <2>3
<1>8. ASSUME NEW at, NEW next, Step(at), Proceed(next)
      PROVE  /\ job # Idle /\ job.at = at /\ job'.at = next /\ UNCHANGED overall
             /\ job'.key = job.key /\ job'.did = job.did /\ job'.setting = job.setting
             /\ job'.secret = job.secret
  BY <1>8 DEF Step, Proceed, FilesInv, Jobs
<1>9. CASE InvalidateRecord
  BY <1>8, <1>9 DEF InvalidateRecord, remote
<1>10. ASSUME NEW at \in DOMAIN Sets, NEW works \in BOOLEAN, NEW effect \in BOOLEAN,
              Command(at, works, effect)
       PROVE  CloudInv'
  <2>1. CASE Halt
    BY <1>1, <1>10, <2>1 DEF Command
  <2>2. ASSUME Proceed(After[at]), effect
        PROVE  CloudInv'
    <3>1. /\ job # Idle /\ job.at = at /\ job'.at = After[at] /\ UNCHANGED overall
          /\ job'.key = job.key /\ job'.did = job.did /\ job'.setting = job.setting
      BY <1>8, <1>10, <2>2 DEF Command
    <3>2. job.did = job.key /\ job.did # None
      BY <1>10, <3>1 DEF AgentInv, Command, Sets
    <3>3. UNCHANGED <<sealed, record>>
      BY <1>10 DEF Command
    <3>4. running' = [part \in Rel!Part |->
                        IF part \notin Sets[at] THEN running[part]
                        ELSE CASE part = "did" -> job.did
                               [] part = "seed" -> job.key
                               [] OTHER -> job.setting]
      BY <1>10, <2>2 DEF Command
    <3>5. CASE at = "gateway"
      <4>1. running'["did"] = job.did /\ running'["model"] = job.setting
        BY <3>4, <3>5 DEF Rel!Part, Sets
      <4>2. QED
        BY <3>1, <3>3, <3>5, <4>1 DEF After
    <3>6. CASE at = "seed"
      <4>1. /\ running'["seed"] = job.key
            /\ \A part \in {"did", "model", "wake"} : running'[part] = running[part]
        BY <3>4, <3>6 DEF Rel!Part, Sets
      <4>2. QED
        BY <3>1, <3>2, <3>3, <3>6, <4>1 DEF After
    <3>7. CASE at = "agent"
      <4>1. /\ running'["wake"] = job.setting
            /\ \A part \in {"did", "model", "seed"} : running'[part] = running[part]
        BY <3>4, <3>7 DEF Rel!Part, Sets
      <4>2. QED
        BY <3>1, <3>3, <3>7, <4>1 DEF After
    <3>8. QED
      BY <3>5, <3>6, <3>7 DEF Sets
  <2>3. QED
    BY <1>10, <2>1, <2>2 DEF Command
<1>11. CASE Unnamed
  BY <1>1, <1>11 DEF Unnamed, remote
<1>12. CASE FetchSecret
  <2>1. CASE Halt
    BY <1>1, <1>12, <2>1 DEF FetchSecret
  <2>2. ASSUME NEW s \in TaskSecret, job' = [job EXCEPT !.at = "seal", !.secret = s],
               UNCHANGED overall
        PROVE  CloudInv'
    <3>1. job # Idle /\ job.at = "fetch"
      BY <1>12 DEF FetchSecret, Step
    <3>2. /\ job'.at = "seal" /\ job'.secret = s /\ job'.did = job.did
          /\ job'.setting = job.setting
      BY <2>2, <3>1 DEF FilesInv, Jobs
    <3>3. s # None
      BY DeployAssumption DEF TaskSecret, FilesInv
    <3>4. QED
      BY <1>12, <2>2, <3>1, <3>2, <3>3 DEF FetchSecret
  <2>3. QED
    BY <1>12, <2>1, <2>2 DEF FetchSecret
<1>13. ASSUME NEW works \in BOOLEAN, NEW effect \in BOOLEAN, SealSecret(works, effect)
       PROVE  CloudInv'
  <2>1. sealed' # None \/ UNCHANGED sealed
    BY <1>13 DEF SealSecret, Step
  <2>2. CASE Halt
    BY <1>1, <1>13, <2>1, <2>2 DEF SealSecret
  <2>3. ASSUME Proceed("agent"), sealed' = job.secret
        PROVE  CloudInv'
    BY <1>8, <1>13, <2>3 DEF SealSecret
  <2>4. QED
    BY <1>13, <2>2, <2>3 DEF SealSecret
<1>14. ASSUME NEW accepts \in BOOLEAN, Link(accepts)
       PROVE  CloudInv'
  BY <1>8, <1>14 DEF Link, remote
<1>15. CASE WriteRecord
  <2>1. record' = [did |-> job.did, setting |-> job.setting]
    BY <1>15 DEF WriteRecord, Rel!Live
  <2>2. job.did \in Key /\ job.setting \in Choice
    BY <1>15 DEF WriteRecord, Step, FilesInv, Jobs
  <2>3. record' \notin {None, Deploying}
    BY <2>1, <2>2, DeployAssumption
  <2>4. QED
    BY <1>8, <1>15, <2>3 DEF WriteRecord
<1>16. CASE Finish
  BY <1>16 DEF Finish, Step, remote
<1>17. ASSUME NEW torn \in SUBSET {"pem", "meta", "agentpem", "agentmeta"}, DieDeploying(torn)
       PROVE  CloudInv'
  BY <1>17 DEF DieDeploying, ReadOverall, remote
<1>18. ASSUME \/ \E t \in Thread : OwnerPem(t) \/ OwnerMeta(t)
              \/ \E t \in Thread, k \in Key : BeginKey(t, k)
              \/ \E t \in Thread, unlinks \in BOOLEAN : ForgetPath(t, unlinks)
              \/ \E p \in Paths : ChoosePath(p)
              \/ \E d \in Where : LoseMeta(d)
              \/ ResetPath \/ ReadSecret \/ DamageSecret
              \/ UNCHANGED deployVars
       PROVE  Outside
  BY <1>18 DEF OwnerPem, OwnerMeta, BeginKey, ForgetPath, ChoosePath, LoseMeta, ResetPath,
               ReadSecret, DamageSecret, Outside, deployVars, deploy, engine, remote
<1>19. QED
  BY <1>2, <1>3, <1>5, <1>6, <1>7, <1>9, <1>10, <1>11, <1>12, <1>13, <1>14, <1>15, <1>16, <1>17,
     <1>18 DEF DeployNext
-----------------------------------------------------------------------------
(* The refinement: a command is one Change of the cloud, the record is       *)
(* published when all of it agrees, and everything else stutters.          *)

DeployInv == FilesInv /\ AgentInv /\ CloudInv

LEMMA DeployInvHolds == DeploySpec => []DeployInv
<1>1. DeployInv /\ [DeployNext]_deployVars => DeployInv'
  BY FilesStep, AgentStep, CloudStep DEF DeployInv
<1>2. QED
  BY <1>1, FilesInit, KeepInit, CloudInit, PTL DEF DeploySpec, DeployInv

LEMMA ReleaseStep == DeployInv /\ [DeployNext]_deployVars => [Rel!ReleaseNext]_(Rel!release)
<1> SUFFICES ASSUME DeployInv, [DeployNext]_deployVars PROVE [Rel!ReleaseNext]_(Rel!release)
  OBVIOUS
<1>1. CASE InvalidateRecord
  BY <1>1 DEF InvalidateRecord, remote, Rel!ReleaseNext, Rel!Invalidate
<1>2. ASSUME NEW at \in DOMAIN Sets, NEW works \in BOOLEAN, NEW effect \in BOOLEAN,
             Command(at, works, effect)
      PROVE  [Rel!ReleaseNext]_(Rel!release)
  <2>1. UNCHANGED record
    BY <1>2 DEF Command
  <2>2. CASE UNCHANGED running
    BY <2>1, <2>2 DEF Rel!release
  <2>3. CASE effect
    <3>1. record = Deploying
      BY <1>2 DEF Command, Step, Sets, DeployInv, CloudInv, Named
    <3>2. /\ running' \in [Rel!Part -> Key \cup Choice \cup {None}]
          /\ \A part \in Rel!Part : running'[part] \in Rel!PartValue(part) \cup {None}
      BY FilesStep DEF DeployInv, FilesInv
    <3>3. QED
      BY <2>1, <3>1, <3>2 DEF Rel!ReleaseNext, Rel!Change
  <2>4. QED
    BY <1>2, <2>2, <2>3 DEF Command
<1>3. CASE WriteRecord
  <2>1. job.did \in Key /\ job.setting \in Choice
    BY <1>3 DEF WriteRecord, Step, DeployInv, FilesInv, Jobs, Named
  <2>2. Rel!Publish(job.did, job.setting)
    BY <1>3 DEF WriteRecord, Step, DeployInv, CloudInv, Named, Rel!Publish
  <2>3. QED
    BY <2>1, <2>2 DEF Rel!ReleaseNext
<1>4. CASE UNCHANGED <<running, record>>
  BY <1>4 DEF Rel!release
<1>5. \/ InvalidateRecord \/ WriteRecord
      \/ \E at \in DOMAIN Sets, works, effect \in BOOLEAN : Command(at, works, effect)
      \/ UNCHANGED <<running, record>>
  BY DEF DeployNext, deployVars, deploy, engine, remote, BeginKey, OwnerPem, OwnerMeta, ForgetPath,
         ChoosePath, ResetPath, LoseMeta, ReadSecret, DamageSecret, Start, Checks, Reopen, MintSide,
         AgentPem, AgentMeta, Unnamed, FetchSecret, SealSecret, Link, Finish, DieDeploying
<1>6. QED
  BY <1>1, <1>2, <1>3, <1>4, <1>5

\* The row of commands, each of which may fail with or without effect, with a
\* death at any point, is a Release.
THEOREM DeployImplementsRelease == DeploySpec => ImplementsRelease
<1>1. DeskInit /\ DeployInit => Rel!ReleaseInit
  BY DEF DeployInit, Rel!ReleaseInit
<1>2. QED
  BY <1>1, DeployInvHolds, ReleaseStep, PTL DEF DeploySpec, ImplementsRelease, Rel!ReleaseSpec

\* The record is true of the cloud, because a Release keeps it so; and a deploy
\* that is told live is recorded and has sealed the task secret.
THEOREM RecordStaysTrue == DeploySpec => []RecordIsTrue
<1>1. DeployInv => (overall = "live" => record \notin {None, Deploying} /\ sealed # None)
  BY DEF DeployInv, CloudInv
<1>2. QED
  BY <1>1, DeployInvHolds, DeployImplementsRelease, ReleaseKeepsRecordTrue, PTL
     DEF ImplementsRelease, RecordIsTrue
=============================================================================
