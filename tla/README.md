# A formal model of flop-social

TLA+ modules, TLC configurations and TLAPS proofs about the program in `src/`: an agent that acts
on a public network under a grant its owner signs, a vault that holds the agent's key, and a local
dashboard from which the owner grants and stops.

## 1. The system

| component | source | state | operations |
|---|---|---|---|
| Governor (Durable Object) | `agent/src/governor.ts` | SQLite tables `meta` (anchors, active grant, issued high-water), `counters`, `nonces`, `revoked`, `steer_seen` | `configure`, `authorize`, `reserveModel`, `pinGrant`, `applySteerGrant`, `revoke`, `steerGate`, `hasLiveGrant`, `snapshot` |
| Gateway worker | `agent/src/index.ts`, `gateway-core.ts`, `model-proxy.ts` | the signing key; a cached context | `sign`, `complete`, `noteActivity`, `tasks`, `config`, the health note, the cron poll |
| Steer poll | `agent/src/steer-poll.ts` | none | `pollSteer`: newest candidate first, stop at the first one applied |
| Agent pass | `agent/src/agent-core.ts`, `agent-planner.ts`, `agent-index.ts` | a budget, a command queue for one pass | wake throttle, plan, emit, confirm |
| Agent memory (Durable Object) | `agent/src/agent-memory.ts` | bounded tables: learnings, acted jobs, seen jobs, handoff, last think, task runs, recent actions | one synchronous method per operation |
| Dashboard | `dashboard/server.py` | `agent.json`, `grant.json`, `revoked_grants.json`, nonce files, task and settings files, pending and decided approvals; one lock per group; a chat key for ten minutes | link, unlink, sign, stop, re-send, chat, jobs, tasks, settings, approve, reject, keys, deploy |
| Protocol and kibble clients | `dashboard/protocol_client.py`, `kibble_client.py` | none | `set_note` (attempts, read-back), `say`, reads |
| Keystore | `dashboard/keystore.py` | `owner.pem` and its meta file | generate, import, load, export |
| Deploy engine | `dashboard/deploy_engine.py` | a deploy record, a worker thread | connect, start, a linear list of steps |
| Shared forms | `agent/src/shared/*`, `shared/*` | none | canonical bytes, grants, names, dids |
| Pages, tools, tests | `dashboard/web`, `agent/tools`, `tests`, `agent/test` | none of authority | |

How they interact. The dashboard signs a grant with the owner's key and writes it to ONE public note
slot of the owner; anyone can overwrite a note, nobody can forge a grant. The gateway's cron reads the
slot every minute and gives it to the Governor, which keeps the newest one. The agent asks the gateway
to think (`complete`) and to sign (`sign`); each of these is reserved by the Governor before it happens.
A stop is a newer grant that allows nothing.

What is hard, and what makes each part correct:

* **Governor.** Storage is synchronous, so the code between two awaits is atomic, but each check of a
  grant awaits a WebCrypto call between reading the tables and writing them. Correct means: a ceiling
  holds per class and window whatever interleaves; nonces of a scope only rise; nothing is spent under a
  grant that was replaced or revoked meanwhile; an old grant never comes back.
* **Dashboard.** Requests are threads. The agent and the clock are read before the grant lock is
  taken; a request writes up to three files and the network, and may die between any two; files may be
  unreadable. Correct means: the record on disk always covers what may be running; only the stored grant
  reaches the wire; nothing is reported delivered that was not.
* **Kill switch.** Issue order, the slot, sampling by the poll, and the Governor's high-water together
  must make a stop take effect.
* **Gateway.** Unmetered signatures (health, activity) must go dark with the rest under a stop.
* **Agent pass and memory.** Wakes overlap; memory is bounded and evicts; a write to the network may have
  happened although its answer was lost.
* **Keystore, nonces, approvals, deploy.** Sequences of file writes, checks made before a write, and
  counters that must never repeat.

`PROJECT.json` lists the hazards one by one, at their lines, with the property that would catch each.

## 2. Plan

All of it is modelled; the order is by how much depends on the part.

1. `SpendAuthority`, `Governor`, `MCGovernor`, `GovernorProofs`.
2. `DashboardGrants`, `MCDashboardGrants`, `MCGrantThreads`: issuing, stopping, re-sending, linking.
3. `KillSwitch`: the dashboard, the slot, the poll and the Governor composed.
4. `Gateway`, `MCGateway`, `GatewayProofs`: sign, complete, activity and health against a stop; the
   reservation before the effect and the board read before it.
5. `Desk` (threads, the clock, the nonce files) and on it `Consent` and `Approvals`, `Posting`, `Release` and
   `Deploy` (with the keystores), composed for TLC by `MCDesk`.
6. `OwnerNotes`, the signed task and setting notes from the dashboard to the gateway, and on it `Panel`, what the
   dashboard says the agent runs; `AgentPass`, the wakes over the agent's memory; composed by `MCPanel`.

Abstract specifications: the atomic authority, which the Governor implements and the gateway and the kill
switch build on; `Release`, which the deploy implements and the panel reads.

Proofs are kept apart: `GovernorProofs`, `GrantsProofs`, `KillSwitchProofs` (on the two before it), `GatewayProofs`, `DeployProofs`,
`DeskProofs` (`Approvals`, `Posting` and the three parts together, on `DeployProofs`), `NotesProofs` (`OwnerNotes`, `Panel`) and
`PassProofs` (the wakes, and `MCPanel`). Every invariant and action property that a run shows to hold is proved; section 6 says what is not.
What could be proved next is the gateway's calls against `Governor` itself rather than against `SpendAuthority`.

## 3. Modules

### `Governor` (agent/src/governor.ts)

One variable per table or meta row, `calls` for the RPCs suspended in `verifyGrant` with their locals, and
two histories (`ledger`, every reservation answered OK; `everActive`). `authorize`, `reserveModel`,
`pinGrant` and `applySteerGrant` are two actions each: `Begin...` is the code up to the await, `Finish...`
(or `Refuse`) the synchronous code after it. The outcome of `verifyGrant` depends on what was read before
the await, so a grant that does not verify is no step. `configure`, `revoke` and `steerGate` are single
actions. `Restart` is an eviction: tables stay, suspended calls go. `#nowSec` takes the platform clock, or
the caller's in tests: each call reads any time, in any order, so skew and clocks that run backwards are
included.

A grant is a record; `genuine` says whether its signature verifies. Refusal statuses are not told
apart. Two specifications: what the gateway calls and revocations (`SteerSpec`), and every
RPC (`Spec`).

### `SpendAuthority`

What the Governor promises: at most one grant in force; a spend is one step, under that grant, below its
ceiling for the window, with a nonce above every nonce spent in its scope. It has no counters, no
high-waters and no suspended calls. `Governor!ImplementsAuthority` maps `inForce` to `active` and `barred`
to `revoked`.

### `DashboardGrants` (dashboard/server.py, protocol_client.py)

`agentFile`, `record`, `barred` are the three files; `lock` is `_grant_lock`; `req[r]` is a request thread
with the step it does next; `slot` is the note, `late` the writes a client gave up on. A sign or a stop is
`Begin` (agent read), `Build` (clock read, document signed), `Store` (lock taken, record written), `Bar`
(old id revoked), `Put...` up to `Attempts` times, `Confirm` (read-back), `Finish` (outcome recorded, lock
released). A re-send starts at `Put`. `Link`, `Switch`, `Unlink` follow `link_agent` and `unlink_agent`
with the guard `ChangeBlocked`. `Crash` ends all threads, `CannotWrite` one request whose file write raises (its
lock released, what it wrote before left), `Damage` makes a file unreadable. Opening the
key fails at will (`Denied`). `told` and `landed` are histories.

Left out: a grant on disk whose own agent did is damaged, a stored stop with a non-empty allow list
(both need an edited file), and the stop pressed with no agent and no grant, which rewrites a blank record.

### `KillSwitch`

Extends `DashboardGrants` and instantiates `Governor` for the gateway of one agent, `Me`. `PollRead`,
`PollApply` / `PollDrop` and `PollFinish` are `readOwnerGrant`, the call of `applySteerGrant`, and its end.
Both sides read one clock: the runs show what happens without any skew. `Running` is what `hasLiveGrant`
would answer. Three kinds of owner: any (`SystemSpec`), one who never signs twice in a second
(`PatientSpec`), and a patient one who also signs nothing before the last document was reported delivered
and links another agent only once told that this one was stopped, on a dashboard that does not crash
and can write its files (`CarefulSpec`).

### `Gateway` (agent/src/index.ts, gateway-core.ts, model-proxy.ts, protocol-read.ts)

Extends `SpendAuthority`, which the Governor implements, so a reservation is one step. `calls[c]` is a running
RPC: its operation, the step it does next (`at`) and its locals. `sign` is `BeginSign` or `BeginAttest`, `ReadBoard`
for an attestation, `Reserve` (or `Gated`, a lost OK included) and `SignMessage`; `complete` is
`BeginComplete`, `Reserve` or `Gated`, `Invoke` and `PublishHealth`; `noteActivity` is `BeginNote`, `CheckLive`,
`ReadRing`, `SignRing` and `WriteRing`. `Evict` ends a call at any await. The world moves between the
steps: `Steer` (the poll applies a newer document), `Post` (the board changes), `Overwrite` (a stranger
writes the activity slot, or puts an old envelope of ours back). A request that is refused for its shape does nothing
and is no step. `fits`, the number of lines whose encoded URL stays below the limit, is any number up to
`MAX_ACTIVITY_ENTRIES`. `signatures`, `rings`, `reports`, `invoked` and `since` (what a running call has met: the
states of the grant, and the results others had on the board) are histories.

Left out: the secret scan and the clamp of an activity line, the choice of the model, expiry as `hasLiveGrant`
sees it (any call of it may answer no).

### `Desk`, and what stands on it (dashboard/server.py)

The HTTP server runs each request in a thread; `thread[t]` is its step and locals, `Die` the end of the
process, `Tick` and `Rewind` the wall clock. `NextNonce` is `_next_nonce` and its three copies. The modules below
extend it, so that each request is cut wherever another can come between.

**`Consent`** (shared/action.py, shared/grant.py, shared/steer.py). Operators: the string that is signed
(`ActionString`), the bytes on the card (`Shown`), the class of a grant (`GrantClass`), `BuildSteer` and `VerifySteer`.
A Python `ValueError` is a predicate that is false; a digest is a record, so it has no collisions.

**`Approvals`**. `pending` and `decided` are the directories; a proposal may be rewritten while it waits (`Propose`).
`approve` is `Approve` (read, view, commit compared, key opened), `Claim` (the rename, which moves what is there
now) or `ClaimLost`, `Sign`, `Deliver`, `Record`; `reject` skips the middle. `Present` is the verifier, which may be
shown any steer that left, for any proposal and destination. `cards`, `signed`, `answered`, `accepted` are histories.

**`Posting`** (and protocol_client.py, kibble_client.py). The chat window (`UnlockChat`, `LockChat`, `WipeExpired`), `say` with
the passphrase or the held key and `post_job`: `SignLine` draws the nonce, `Send` is one request that may be lost, refused
as stale, or answered 200 for nothing, `Confirm` the read-back, `Tell` the answer. The service (`high`, `landed`) is external.

**`Release`, `Deploy`** (dashboard/deploy_engine.py, keystore.py). `Release` is what a deploy promises: the record
says live only of what runs. `Deploy` has the two keystores file by file (`pem`, `meta`, the passphrase sidecar), the task
secret, and the steps of `_run`: `Checks`, `Reopen` or `MintSide`/`AgentPem`/`AgentMeta`, `InvalidateRecord`, `Command` for
the gateway, the seed and the agent, `FetchSecret`, `SealSecret`, `Link`, `WriteRecord`, `Finish`. A command that fails, or that
the timeout cuts off, may have taken effect. `DieDeploying` may tear the key files being written. `ImplementsRelease`
maps `running` and `record` to themselves.

### `OwnerNotes` and `Panel` (dashboard/server.py, agent/src/index.ts)

`OwnerNotes`: `save_tasks` and `save_cost_config` as `BeginSave`, `SignNote` (lock taken, nonce drawn), `KeepFirst` (the local
file, outcome open), `PutNote` up to `Attempts` times, `ConfirmNote`, `StoreOutcome`; `CannotKeep` is a file write that raises and
ends the request alone. `ReadNote` is the gateway, which keeps no nonce. `held` remembers what each note has held and `putBack`
which notes now hold what a stranger or a late write put over a newer one: such a write sets the mark only if it is older, and the
next save that arrives, or any other write, takes it away. A value is its sizes: the code points and UTF-16 units of its longest text, the bytes of its envelope.

`Panel` extends it with `cost_config_status`: `AskPanel` reads the local file, `ReadRecord` the deploy record and the link,
`ReadSlot` the note, and the answer (`Said`) the health report; between them owner, deploys (the abstract `Release`, two variables
of it), `ModelCall`s, strangers and the clock go on. `noteWas`, `ran` and `latest` are histories.

### `AgentPass` (agent/src/agent-core.ts, agent-planner.ts, agent-memory.ts, agent-index.ts)

A wake is a thread of `Desk`; each call of the memory is one step that may fail. `runPass` is `BeginWake`, `ReadConfig`,
`ReadLast`, `StoreLast`, `MarkSeen`, `ReadIntroduced`, `ReadTasks`; then the planner's commands, each a model call: `Emit`
(refused without a fresh job, twice in a wake, or without budget), `TaskDone`. `emit` goes on as `ReadTail`, `Write` (now,
later, never; a lost answer counts as not sent), `Confirm`, `Introduce`. `runs` is the table `task_runs` with its rowid, so that an eviction
takes the rows the code's ORDER BY takes (`Older`). `DieWake` ends one wake anywhere. What the
model answers is any command.

### The MC modules

`MCGovernor`, `MCDashboardGrants` and `KillSwitch` bound one instance. `MCGrantThreads` and `MCGateway` put two small instances into
one run (`scenario` is chosen first and never changes). `MCDesk` and `MCPanel` compose parts that share no state but
threads and clock: `focus` is chosen first, the others stand still, and each part has all its actions (only `CannotKeep` is left
out beside a panel).

## 4. Runs

| run | question | result |
|---|---|---|
| `governor_spend` | ceilings, nonce order, the grant in force at the instant of a reservation, high-waters, and the refinement of `SpendAuthority`, over the whole RPC surface | holds |
| `governor_steer` | with revocations and restarts: is the grant in force the newest ever applied, and can a superseded one be spent under again? | yes; no |
| `grants_threads` | two threads, crashes, lost and late writes: does the wire follow the disk, is delivery told honestly? One owner, grants of equal length: can an agent that may run be forgotten? | yes; no |
| `grants_stranded` | the same owner with grants of different length | violated |
| `grants_order` | do documents reach the slot in issue order, as the docstring says? | violated |
| `killswitch_patient` | one agent, no two signatures in a second: does a delivered stop take effect? | yes |
| `killswitch_second` | without that patience | violated |
| `killswitch_switch` | with a careful owner who switches to another agent after the stop | violated |
| `gateway_paid` | is every signature and model call reserved, once each, and no nonce signed for two texts? own lines only in a signed ring; nothing gated signed by a call that met no live grant; board-matched attestations only for somebody else's posted result | holds |
| `desk_parts` | approvals: one decision per request, over what was read, that verifies once; posts told honestly; nonces used once; the held key within its window; keys and the task secret never replaced; a deploy record that is true | holds |
| `panel_and_wakes` | notes: the local file never behind the wire, the gateway takes what was signed for that note; panel: nothing shown that is not so; wakes: pace, freshness, tasks, introduction, confirmation | holds |
| `notes_cut` | does the agent get the text the owner saw accepted, as the docstring says? | violated |

**Bounds.** Governor: two suspended calls are enough for every race of a check with a write, because a call
awaits once; two clock readings give two windows, and expiry and future dating between them; ceilings of 1 and
2 and a re-issue with a window twice as long make counters shared and reached; two nonces in one scope (one in `governor_steer`); the grants in
`MCGovernor` include a forgery, another agent's, a too short window, a future-dated stop. `MinWindow` and
`IssuedSkew` are scaled to 1.

DashboardGrants: two threads and three documents (`MaxGrants`) allow a stop and a re-send
around a sign, two attempts per write (three in the code) show a retry; three clock readings (`MaxTime`; one for the two
threads, `MaxThreadTime`) let a grant expire. KillSwitch: a grant and its stop are two documents, a grant for another agent a
third; a grant may outlive the bounded clock, so that an agent that stops does so because it was told, or expire
between the poll that reads it and the one that applies it.

Gateway: two calls at once race at every await; in scenario "paid" a stop with a grant after it, two nonces and
two texts, so a nonce can be asked for twice, and three calls of `complete` (`MaxAsks`) against ceilings of 1 and 2; in "feed" a grant and a
stop, a board that may lose its result or change its worker at any time, three lines (`MaxLines`) and room for two, so that a ring drops one.

Desk: two threads race for one request, one counter, one key. Approvals, in two foci: in `jobs` a request that can
be re-filed with another vote, and a RESULT with its own hash; in `places` one request that can be re-filed as a
NOTE_WRITE, a SAY, a SAY into another room, or a card with no destination. Posting: four rooms, one without nonces and one reserved; two
signed lines (`MaxLines`) is the least that can share a nonce. Deploy: two keys, two choices, two secrets, as many makers of keys as threads
(`MaxCreators`). Two clock readings are before and after a window; times are scaled, so `Life` and `Window` are 1.

Notes: two saves (`MaxSaves`) of two values per kind, of which one is too long for the envelope, two attempts; the clock stands still, so that
every nonce comes from the floor, the case the file is for; a setting draws two nonces, a playbook three (one of them refused). Panel: a report lives 0 or 1 reading, the clock has 2 (`MaxAge`), one model call
(`MaxCalls`). Wakes: three (`MaxWakes`) in two threads; intervals of 1 and 2 against a clock of 3; `MaxSeen` and `MaxRuns`
are 1 (2048 and 64 in the code), so every second job or task evicts one; two calls of the model and three writes, one of which is the presence note, reach both
budgets. `Small` leaves out, by focus, what that focus does not ask about (a second save beside a panel, a second agent, late
writes), and `Opening` and `Left` start the wakes of a focus at the steps it is about; the comments there say which.

Runs allow the system to stop (`CHECK_DEADLOCK FALSE`): owners need not act and bounds are reached.
Request threads, agents and slots are symmetric in the runs of safety properties.

**Fairness** (`KillSwitch!Polling`). The cron fires every minute (`agent/wrangler.jsonc`), so reads and the
configuration are weakly fair; an eviction may interrupt any poll but not every poll, so the steps after a read are strongly
fair. The dashboard, its owner and the clock are under no fairness. The runs assume that no write arrives
after its client gave up (`PromptNext`); one that did, over a stop, would undo it in the same way as a switch.
Nothing else here must happen: approvals, posts, saves and deploys end when the human sees an error, and a wake that dies is
simply followed by the next, so their properties are of safety.

## 5. What the runs found

1. **A stop can tie.** Issue times are seconds and nothing keeps them above the last one. A stop signed in
   the second of a grant already applied is published, read back, reported stopped, and refused for
   ever by the high-water (`killswitch_second`).
2. **One slot for all agents.** After a delivered stop the guard lets the owner switch and sign for another agent,
   which overwrites the stop before the next poll. The owner need not be hasty: the run's owner acts only on
   what the dashboard reported (`killswitch_switch`).
3. **The guard looks at the stored grant only.** A long grant in the slot, replaced on disk by a shorter one that
   never left, is forgotten once the shorter one expires (`grants_stranded`).
4. **The issue time is read outside the lock** (`grants_order`).
5. **Two lengths of one text.** A task text of characters outside the basic plane is measured in code points by the
   dashboard and cut in UTF-16 units by the gateway, after the signature (`notes_cut`).

Met while modelling, with no run:

* `index.ts:327` signs the health note after every `complete`, a gated one included; a comment at 368-370 says that a stop means
  dark on every signing surface. The dashboard needs the note to show the agent as paused, so the comment is too wide.
* `pinGrant` (called by tests only) has no high-water gate, and neither it nor `applySteerGrant` looks at revocations again after
  its await, so a revoked grant may become active; nothing can be spent under it (`SpendInForce`).
* Two `create_key` requests that both find an empty keystore overwrite one another; the docstring says the store refuses to
  overwrite (`keystore.py:83-98`). `IdentityKept` states the exception.
* A RESULT that brings a `result_hash` is signed over that hash, and its text is shown without comparing the two
  (`action.py:177-207`). `SignedWasRead` states the exception.
* A card with an empty destination can be approved: the request is claimed, then `build_steer` raises and it is decided without an
  outcome (`server.py:1591-1598`, `steer.py:52`).
* A nonce file that is lost while the clock was set back lets nonces repeat (`server.py:267-281`); the histories `steerLost` and
  `sayLost` state the exception. Two sends to one room may reach it in the other order, and the lower nonce is refused as stale
  (`high` in `Posting`).
* The reader of the configuration and task notes keeps no nonce, although `save_cost_config` says "The nonce rises so an older
  setting cannot be replayed over a newer one" (`server.py:1231-1237`, `index.ts:124-170`): whoever may write the note can put an older
  envelope back. `AppliedIsNewest` holds while the note is not so set back (`putBack`), whatever was put back before.
* When the gateway cannot read the setting note it runs the deployed model for that call (`index.ts:312-313`), while the panel, which
  can, shows the signed one as running.
* `introduce-once` (`agent-memory.ts:49-52`) does not survive a lost answer to the write, a wake that dies between the write and the
  flag, or a flag that cannot be read or written; `unsure` is that exception. A task ledger that cannot be read makes every task due
  again (`agent-core.ts:525-533`). A job whose `markSeen` answer is lost, or that was beyond the 20 the prompt shows, is never fresh again.

## 6. Proofs

Every theorem is of the specification it names, for every value of the constants; an invariant named below is inductive
together with the types of its module (`TypeInv`, `ItemsInv`, `LinesInv`, `FilesInv` of the deploy, `NotesTypeInv`).

`GovernorProofs` proves, for every set of grants, callers, classes, scopes and nonces and every clock:

* `TypeCorrect`. `TypeInv` adds to `TypeOK` that a suspended `authorize` holds a class and a scope and a
  suspended `reserveModel` no scope, and that the ledger is finite.
* `SpendsInForce`. `VouchInv`: the anchors never change once set, and every grant that is active or held by a
  suspended call verified under them. With one document per id (`GrantIdsUnique`), the id compared after the await is
  enough to know that the grant verified before it is the active one.
* `CeilingsHeld`. `LedgerInv`: the counter of a class and window is the number of reservations in it, and each
  reservation carries a serial number; the n-th of a window was reserved while the counter was n - 1.
* `NoncesInOrder`. `NonceInv`: the high-water of a scope bounds every nonce reserved in it.
* `HighWatersRise`, `NewestIsActive`, `SupersededStaysDead`: from `TypeInv` and, for the last, that on these calls
  (all but `pinGrant` and `steerGate`) the active grant's issue time is the high-water.
* `GovernorImplementsAuthority`: with all of these, every reservation is one `Spend`, every applied grant one
  `Install`, every revocation one `Bar`, and all else stutters.

`GatewayProofs` proves, for every set of callers, classes, scopes, nonces, texts, grants and posts:

* `TypeCorrect`, with the lemma that `Fit` returns a ring of at most `MaxRing` lines.
* `SignaturesPaid`, `NoncesUnambiguous`. `PaidInv`: a call between its reservation and its signature holds the serial
  number of a reservation with its class, scope and nonce, which no other call and no signature holds; the nonces
  of a scope rise with the serial numbers. Without the clause about running calls the property is not inductive:
  two calls could sign for one reservation.
* `ModelCallsPaid`. `ModelInv`: the invocations made and the calls about to make one are together at most the reservations of
  the model; it counts calls, so it needs finite `Caller` and cardinalities.
* `GatedSurfacesDark`, `MatchesOthersWork`. `MetInv`: a call past `CheckLive`, or past its reservation, has met a live
  grant; a call whose class is board-matched has met its text in another's hands.

* `RingsHoldOwnLines`. `RingInv`: each call of `noteActivity` has a line of its own, every ring signed, about to be signed or in the
  slot is sound, and a line whose call has not read the slot is in no ring yet. The last clause is what makes the append keep
  lines distinct.

`GrantsProofs` proves, for any number of threads, agents, grant lengths and attempts, and any damaged files:

* `GrantsTypeCorrect`, `ToldHasLanded`: a request about to report a delivery has read its document back.
* `StoredNeverBarred`, `WireShowsDisk`. `FilesInv`: who holds the lock holds it alone, ids in use were handed out, the id of a
  document that waits for the lock is nowhere else, and the record is the lock holder's own. Neither property is inductive without
  the freshness of the waiting ids: a waiting document could be the one another request is revoking.
* `OwnersNeverStrand` and, for a dashboard with a single thread, `OneOwnerStrandsNobody`. Four hypotheses: grants of one length and none
  empty (`EqualGrants`), one request at a time, nothing delivered late. `ScenarioSpec` of `MCGrantThreads` gives the last two
  where its scenario is an owner's, whichever thread acts (`OnlyThread`). Each is needed: `grants_stranded` lifts the lengths, and with
  two threads, with `Allows = {TRUE, FALSE}` or with `Spec` in place of `PromptSpec` in its configuration (and `Lives = {1}`) TLC also finds an agent stranded.
  `OwnerInv`: a live slot belongs to the agent linked and to the record on disk, unless those files are unreadable, and the document on disk or in a request's hands was
  issued no earlier than the slot's, so, all lengths being equal, it expires no earlier.

`KillSwitchProofs` proves, of the dashboard, the slot, the polls and the Governor together:

* `SystemRunsDashboard`, `SystemRunsGovernor`: the system is a behaviour of `PromptSpec` and of `Gov!SteerSpec`, so what is proved of
  either half holds in it.
* `StopsStay`: once the Governor has applied a stop, the agent runs again only under a permissive grant that the owner signed
  after it. It holds even if writes arrive late (`LateSpec`, of which `SystemSpec` is a part: `SystemStopsStay`). `DrawnInv`: ids are drawn with the
  reading of the clock, so a later id was not issued earlier; `GovInv`: what the Governor holds was in the slot, and its active grant is strictly newer than all it
  applied before.
* `ToldStopIsNext`, for an owner of one agent (`Agents = {Me}`) who asks one thing at a time and never signs twice in a second (`PatientSpec`): when a stop
  was reported delivered and the agent still runs, and no newer grant has reached the slot, the slot holds a stop that the Governor will apply, whatever crashes. This is the
  safety half of `StopTakesEffect`; the other half is that polls go on. `SlotInv`: the slot moves on to later documents only and holds the
  last one reported delivered, or a later one; `StrictInv`: no two documents have one issue time. With two documents in a second, or
  a second agent in the one slot, TLC finds it false (in the configurations of `killswitch_second` and `killswitch_switch`).

`DeskProofs` proves, for any requests, proposals, threads, rooms and clock:

* Approvals. `DecidedOnce` and `EveryRequestAccounted` (`ClaimInv`: a request leaves
  `pending` for good, one thread owns it, and until that one records the outcome nothing else is known of it), `OnlyReadIsSigned` (`ReadInv`: what is
  claimed was on a card, to the byte of what is signed), `AcceptedOnlyAsSigned` (`WireInv`), `ApprovalNoncesSignOnce` (`SteerNonceInv`: while its file
  lives, the counter is above every nonce used). `ApprovalsTypeCorrect` with the bounds of nonces (`SteerBounds`): a nonce is above
  the clock by at most the number of requests that have drawn one (`Drawn`), each of which is claimed once.
* Postings. `NoncesSignOnce` (`SayNonceInv`); `HeldKeyInTime` (`HeldInv`: a held key expires when the human was told it would, and
  what began without the passphrase began before that); `ToldHasLanded` (`LandInv`: a thread about to tell has found its line, and the service, which takes no nonce twice in a room, lists a nonce it took with that line's words only). In a room whose listing
  omits the nonces only the words identify a line, and there the proof needs that a job's words are never those of a chat: the job line holds a
  fresh random id (`kibble_client.py`), which `Matches` says. `PostingTypeCorrect` with its bounds (`LineBounds`; `CountInv` counts lines
  signed and lines to be signed).
* Together, of `MCDesk`: `DeskTypeCorrect`, and `EachNonceSignsOnce` of both nonce files. `FocusInv`: the part in focus keeps its invariants, the others are as they began.

`DeployProofs` proves, for any keys, choices, secrets and requests:

* `DeployImplementsRelease` and, through it, `RecordStaysTrue`: every command is a `Change`, the two writes of the record an `Invalidate` and a
  `Publish`, all else stutters. `CloudInv`: between the two, the parts set so far are those the record will name. Without it the write of the record need not be a `Publish`.
  `ReleaseKeepsRecordTrue` is the abstract half.
* `KeysAreKept`, `SecretsStayHere`. `AgentInv`: the agent's key on disk, in the deploy that made it and in its sidecar are one; `SecretInv`: a secret
  was made only if there was none. `DeployTypeCorrect`.

`NotesProofs` proves, for any values, threads, attempts and strangers:

* `FilesAreHonest`. `LockInv`: who holds the lock holds it alone with the nonce the counter stands at, and what it is about to send is in the file.
  `HeldInv`: a read-back that succeeds saw the envelope on its note.
* `OnlySignedIsApplied`; `NewestIsApplied`. `RiseInv`: a note that is not set back holds the newest of its kind it ever held. For a save that
  arrives this follows from `LockInv` (its nonce is the counter, which is above all that was sent); for a write of somebody else from what sets the mark.
* `NotesTyped`, `PanelTyped` (lemmas). `BoundInv`: a save makes at most `Attempts` writes, and counts none before its first.
* `PanelTellsTheTruth`. `CloudInv`: a record that says live is of what the cloud runs; `AskInv`: each of the reads of an answer in
  progress equals what held at its own step. It is an invariant of partial answers, since no two reads are of one state.

`PassProofs` proves, for any number of overlapping wakes that may fail or die at each step:

* `PassTypeCorrect`, with both tables inside their bounds; and `PanelTypeCorrect`, the types of notes, panel and wakes in
  every focus of `MCPanel` (`FocusInv`, as for the desk).
* `MemoryServes`. Pace (`PaceInv`): unless raced, one wake at most is past the throttle and not yet stored. Freshness (`MarkInv`): a job in the table
  was fresh once more than it was dropped. Introduction (`KnownInv`): a greeting that is out is on the flag, or its wake has still to set it. Tasks (`RowsInv`):
  each row is the last run of its task, and a run is remembered until `MaxRuns` other tasks ran since. An eviction takes the oldest rows first, so
  the ids of the rows that stay above it are that many tasks run since; `SmallestOf`, `RowsFit` and `RowStays` make this counting precise
  with cardinalities and an injection. Where one reading of the clock holds several runs, the order needs the rowid: by `last_run` alone a newer row could be evicted before an older one.
* `ConfirmedWasWritten`. `NonceInv`: a nonce is one line's, and nobody has seen it before its write; `BaseInv`: what was public when the tail was
  read does not hold the line to be written.

**Assumptions.** Each is an ASSUME of the module it is about, evaluated by TLC in the runs that extend it. For the Governor the shape of a grant, ids drawn once
(`dashboard/server.py:755`), natural bounds; elsewhere natural or positive bounds, the ranges of constant functions (`Period`, `Fresh`, `Values`), finite
`Caller`, `Job` and `Rid` where something is counted, a clock that shows at least one time (`MaxTime`) and a save that tries at least once (`Attempts`; `WRITE_ATTEMPTS` is 3), texts that are no longer in code points than in UTF-16 units nor in those than in bytes, kibble messages about known
jobs; and that null values (`None`, `Idle`, `Junk`, `Torn`, `Absent`, ...) are outside the sets they stand beside and differ where the code tells them apart. None
restricts what the system does.

**Model-checked only.** `StopTakesEffect`: the prover does not reach fairness and ENABLED; its safety half is `ToldStopIsNext`.
`AgentGetsWhatOwnerSees`, `SlotInIssueOrder` and the other properties of the violated runs, which do not hold. Most theorems are of a
part's own specification (`ApprovalsSpec`, `PanelSpec`, ...); in the MC modules the parts share no variable but threads and clock and one of them
moves, so a behaviour of the composition is one of the part in focus (`FocusStep` of `DeskProofs` and of `PassProofs`).

## 7. Not modelled

* **Data.** The byte layout of signed messages, encodings, dids and names, URLs, clamps and wordings, the sweeping of chat
  text, the secret scan. A signature is a record that says what it covers.
* **The agent's reading.** Research, the sandbox and the prompt (learnings, handoff, recent and acted lines; `hasActed` is never called): they
  choose what the model sees, and the model here may answer anything.
* **The browser and the shell.** `connect`, the pages, and a `wrangler` that outlives the timeout that killed its parent: such a command would be
  one more late effect, which `RecordIsTrue` does not allow for.
* **Skew.** A report or a document dated in the future by a clock that differs between machines, except in the Governor, where each
  call reads any time.
* **Files.** A decided record is written in one step (the code does not replace it atomically); hands that edit a file, rather than damage
  or remove it; the removal of the task secret; `save_config`, which nothing depends on.
* **Displays.** The activity and the room feeds, `read_board`, `list_rooms`: each verifies or normalises and shows, with no state of its own.
