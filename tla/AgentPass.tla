----------------------------- MODULE AgentPass -----------------------------
(***************************************************************************)
(* The agent's wakes (agent-core.ts, agent-planner.ts, agent-index.ts) and  *)
(* the memory they share (agent-memory.ts).  A wake is a thread: cron starts *)
(* one each minute whether or not the last has ended, each call of the       *)
(* memory is one atomic step of the Durable Object, and between any two of   *)
(* them other wakes run.  A call may fail with or without effect, and a wake *)
(* may die anywhere.  What only goes into the prompt (learnings, handoff,    *)
(* recent and acted lines) is left out: the model may do anything with it.   *)
(***************************************************************************)
EXTENDS Desk, Sequences

CONSTANTS
  Job,          \* jobs on the board
  Task,         \* the owner's tasks
  Period,       \* how often each is due, in readings of the clock; 0 for once
  Message,      \* what the planner may say or post: [shape, verb, job, words]
  Every,        \* wake intervals, in readings of the clock
  MaxSeen,      \* MAX_SEEN
  MaxRuns,      \* MAX_TASK_RUNS
  WriteBudget,  \* writes in one wake, the presence note included
  ModelBudget,  \* commands of the planner in one wake
  MaxWakes      \* bound: wakes begun

ASSUME PassAssumption ==
  /\ IsFiniteSet(Job)
  /\ Every \subseteq Nat \ {0}
  /\ Period \in [Task -> Nat]
  /\ {MaxSeen, MaxRuns, WriteBudget, ModelBudget, MaxWakes} \subseteq Nat \ {0}
  /\ \A m \in Message : m.shape = "kibble" => m.job \in Job

\* recentDigest leaves out the words of a result.
RecentDigest(m) == IF m.shape = "say" THEN m ELSE [m EXCEPT !.words = None]

\* A line a wake is sending: its words, its nonce, how long the room was before
\* it was written, and the baseline, if the tail could be read.
Sending == [message : Message, nonce : Nat, tail : Nat, base : Nat \cup {None}]

Informed == {"tasks", "plan", "tail", "write", "proof", "introduce"}
Steps == {"config", "last", "store", "mark", "flag"} \cup Informed

\* The locals of a wake: what it was told, what it may still do, what it did.
Wake ==
  [at : Steps, now : Nat, every : Every \cup {0}, fresh : SUBSET Job, introduced : BOOLEAN,
   spoke : BOOLEAN, due : SUBSET Task, ledger : BOOLEAN, before : Nat, looked : Nat,
   writes : 0 .. WriteBudget, calls : 0 .. ModelBudget,
   emitted : SUBSET {RecentDigest(m) : m \in Message}, sends : Sending \cup {None}]

ASSUME WakeAssumption == None \notin Sending /\ Idle \notin Wake

VARIABLES
  lastThink,    \* table last_think; 0 if empty
  seen,         \* table seen: the time each job was inserted
  introduced,   \* the flag
  runs,         \* table task_runs: its rows
  public,       \* the lines of this agent on the network, in order
  flying,       \* lines still to arrive there
  begun,        \* wakes begun
  thinks,       \* history: the wakes that passed the throttle, as they stored it
  unpaced,      \* history: the throttle was raced, or its memory failed
  offered,      \* history: to how many wakes each job was fresh
  dropped,      \* history: how often each job was evicted from seen
  signedSo,     \* history: lines signed so far; also their nonces
  unsure,       \* history: a wake may have spoken without remembering it
  done          \* history: the runs recorded, in order

pacing == <<lastThink, begun, thinks, unpaced>>
marking == <<seen, offered, dropped>>
speaking == <<introduced, public, flying, signedSo, unsure>>
tasking == <<runs, done>>
passes == <<pacing, marking, speaking, tasking>>
passVars == <<desk, passes>>

PassInit ==
  /\ lastThink = 0
  /\ seen = [j \in {} |-> 0]
  /\ introduced = FALSE
  /\ runs = {}
  /\ public = <<>>
  /\ flying = {}
  /\ begun = 0
  /\ thinks = <<>>
  /\ unpaced = FALSE
  /\ offered = [j \in Job |-> 0]
  /\ dropped = [j \in Job |-> 0]
  /\ signedSo = 0
  /\ unsure = FALSE
  /\ done = <<>>

-----------------------------------------------------------------------------
(* runPass, up to the planner.                                             *)

BeginWake(t) ==
  /\ thread[t] = Idle
  /\ begun < MaxWakes
  /\ begun' = begun + 1
  /\ thread' = [thread EXCEPT ![t] =
       [at |-> "config", now |-> clock, every |-> 0, fresh |-> {},
        introduced |-> FALSE, spoke |-> FALSE, due |-> {}, ledger |-> FALSE, before |-> 0, looked |-> 0,
        writes |-> WriteBudget, calls |-> ModelBudget, emitted |-> {}, sends |-> None]]
  /\ UNCHANGED <<clock, lastThink, thinks, unpaced, marking, speaking, tasking>>

\* The wake interval: the owner's, or the default.
ReadConfig(t, every) ==
  /\ At(t, "config")
  /\ thread' = [thread EXCEPT ![t].at = "last", ![t].every = every]
  /\ UNCHANGED <<clock, passes>>

Throttled(w, last) == last > 0 /\ w.now - last < w.every

\* A last think that cannot be read is none.
ReadLast(t, reads) ==
  LET last == IF reads THEN lastThink ELSE 0 IN
  /\ At(t, "last")
  /\ IF Throttled(thread[t], last)
     THEN Answer(t) /\ UNCHANGED unpaced
     ELSE /\ Goto(t, "store")
          /\ unpaced' = (unpaced \/ ~reads \/ \E u \in Thread : At(u, "store"))
  /\ UNCHANGED <<clock, lastThink, begun, thinks, marking, speaking, tasking>>

\* The throttle is set, or not; the presence note costs one write.
StoreLast(t, works) ==
  /\ At(t, "store")
  /\ lastThink' = IF works THEN thread[t].now ELSE lastThink
  /\ unpaced' = (unpaced \/ ~works)
  /\ thinks' = Append(thinks, [start |-> thread[t].now, every |-> thread[t].every])
  /\ thread' = [thread EXCEPT ![t].at = "mark", ![t].writes = @ - 1]
  /\ UNCHANGED <<clock, begun, marking, speaking, tasking>>

\* markSeen, on whatever the board held when it was read.  What is not in the
\* table is inserted and fresh; then the oldest rows above MAX_SEEN go, with no
\* order among those of one second.  If the answer is lost nothing is fresh.
MarkSeen(t, listed, answers) ==
  LET new == listed \ DOMAIN seen
      all == [j \in DOMAIN seen \cup new |-> IF j \in new THEN clock ELSE seen[j]]
      over == Cardinality(DOMAIN all) - MaxSeen IN
  /\ At(t, "mark")
  /\ \E gone \in SUBSET DOMAIN all :
       /\ Cardinality(gone) = IF over > 0 THEN over ELSE 0
       /\ \A i \in gone, j \in DOMAIN all \ gone : all[i] <= all[j]
       /\ seen' = [j \in DOMAIN all \ gone |-> all[j]]
       /\ dropped' = [j \in Job |-> IF j \in gone THEN dropped[j] + 1 ELSE dropped[j]]
  /\ offered' = [j \in Job |-> IF j \in new /\ answers THEN offered[j] + 1 ELSE offered[j]]
  /\ thread' = [thread EXCEPT ![t].at = "flag", ![t].fresh = IF answers THEN new ELSE {}]
  /\ UNCHANGED <<clock, pacing, speaking, tasking>>

\* A line of ours that no wake is sending any more.
Spoken == \E i \in DOMAIN public :
  /\ public[i].message.shape = "say"
  /\ \A u \in Thread : thread[u] # Idle /\ thread[u].sends # None =>
       thread[u].sends.nonce # public[i].nonce

\* getIntroduced: no answer is a no.
ReadIntroduced(t, reads) ==
  /\ At(t, "flag")
  /\ thread' = [thread EXCEPT ![t].at = "tasks", ![t].spoke = Spoken,
                              ![t].introduced = reads /\ introduced]
  /\ unsure' = (unsure \/ ~reads)
  /\ UNCHANGED <<clock, introduced, public, flying, signedSo, pacing, marking, tasking>>

\* dueTasks: never run, or run one period ago.
Due(id) == \A x \in runs :
  x.id = id => Period[id] > 0 /\ clock - x.at >= Period[id]

\* The playbook may be any, or none; a ledger that cannot be read is empty.
ReadTasks(t, playbook, reads) ==
  /\ At(t, "tasks")
  /\ thread' = [thread EXCEPT ![t].at = "plan",
                              ![t].due = {id \in playbook : reads => Due(id)},
                              ![t].ledger = reads, ![t].before = Len(done),
                              ![t].looked = clock]
  /\ UNCHANGED <<clock, passes>>

-----------------------------------------------------------------------------
(* The planner: each command costs a model call.                           *)

Planning(t) == At(t, "plan") /\ thread[t].calls > 0

\* done, a model that fails, no calls left.
EndWake(t) ==
  /\ At(t, "plan")
  /\ Answer(t)
  /\ UNCHANGED <<clock, passes>>

\* Only a job that is fresh in this wake may be claimed.
MayEmit(t, m) ==
  /\ m.verb = "CLAIM" => m.job \in thread[t].fresh
  /\ RecentDigest(m) \notin thread[t].emitted
  /\ thread[t].writes > 0

\* emit, as far as the gateway's answer.
Emit(t, m, signs) ==
  /\ Planning(t)
  /\ IF ~MayEmit(t, m)
     THEN thread' = [thread EXCEPT ![t].calls = @ - 1] /\ UNCHANGED signedSo
     ELSE IF ~signs
     THEN /\ thread' = [thread EXCEPT ![t].calls = @ - 1, ![t].writes = @ - 1]
          /\ UNCHANGED signedSo
     ELSE /\ signedSo' = signedSo + 1
          /\ thread' = [thread EXCEPT
               ![t].at = "tail", ![t].calls = @ - 1, ![t].writes = @ - 1,
               ![t].sends = [message |-> m, nonce |-> signedSo + 1, tail |-> 0, base |-> None]]
  /\ UNCHANGED <<clock, introduced, public, flying, unsure, pacing, marking, tasking>>

\* The row of a task that was done before is replaced, under a new rowid.
Recorded(run) == {x \in runs : x.id # run.id} \cup {run}

\* ORDER BY last_run, rowid.
Older(x, y) == x.at < y.at \/ (x.at = y.at /\ x.row < y.row)

\* recordTaskRun, of any id the model names; the oldest row above MAX_TASK_RUNS
\* goes.  A refused or failed call has no effect.
TaskDone(t, id, effect) ==
  LET all == Recorded([id |-> id, at |-> clock, row |-> Len(done) + 1]) IN
  /\ Planning(t)
  /\ thread' = [thread EXCEPT ![t].calls = @ - 1]
  /\ IF effect
     THEN /\ runs' = IF Cardinality(all) <= MaxRuns THEN all
                    ELSE {x \in all : \E y \in all : Older(y, x)}
          /\ done' = Append(done, [id |-> id, at |-> clock])
     ELSE UNCHANGED tasking
  /\ UNCHANGED <<clock, pacing, marking, speaking>>

-----------------------------------------------------------------------------
(* sendSignedWire, and what emit remembers of it.                          *)

Line(t) == [message |-> thread[t].sends.message, nonce |-> thread[t].sends.nonce]
Says(t) == thread[t].sends.message.shape = "say"

\* The tail of the room before the write, if it can be read.
ReadTail(t, reads) ==
  /\ At(t, "tail")
  /\ thread' = [thread EXCEPT ![t].at = "write", ![t].sends.tail = Len(public),
                              ![t].sends.base = IF reads THEN Len(public) ELSE None]
  /\ UNCHANGED <<clock, passes>>

\* The write arrives now, later or never; anything but a 200 counts as not sent.
Write(t, arrives, ok) ==
  /\ At(t, "write")
  /\ public' = IF arrives = "now" THEN Append(public, Line(t)) ELSE public
  /\ flying' = IF arrives = "later" THEN flying \cup {Line(t)} ELSE flying
  /\ IF ok
     THEN Goto(t, "proof") /\ UNCHANGED unsure
     ELSE /\ thread' = [thread EXCEPT ![t].at = "plan", ![t].sends = None]
          /\ unsure' = (unsure \/ (Says(t) /\ arrives # "never"))
  /\ UNCHANGED <<clock, introduced, signedSo, pacing, marking, tasking>>

Arrive(x) ==
  /\ public' = Append(public, x)
  /\ flying' = flying \ {x}
  /\ UNCHANGED <<desk, introduced, signedSo, unsure, pacing, marking, tasking>>

\* Mutant: without a baseline, any line with this text will do.
ProvesByText(t, i, echoes) ==
  \/ echoes /\ public[i].nonce = thread[t].sends.nonce
  \/ /\ thread[t].sends.base # None => i > thread[t].sends.base
     /\ public[i].message = thread[t].sends.message

\* The nonce, where the host echoes it, or a newer line with this text.
Proves(t, i, echoes) ==
  \/ echoes /\ public[i].nonce = thread[t].sends.nonce
  \/ /\ thread[t].sends.base # None
     /\ i > thread[t].sends.base
     /\ public[i].message = thread[t].sends.message

\* Mutant: what is not confirmed is not remembered.
AfterConfirm(t, confirmed) == IF Says(t) /\ confirmed THEN "introduce" ELSE "plan"

\* After a line is sent, confirmed or not.
AfterSend(t, confirmed) == IF Says(t) THEN "introduce" ELSE "plan"

Confirmed(t, reads, echoes) == reads /\ \E i \in DOMAIN public : Proves(t, i, echoes)

\* The last of the reads that look for the line, and emittedThisTick; earlier
\* ones that find nothing change nothing.  Confirmed lines go to the feed.
Confirm(t, reads, echoes) ==
  LET next == AfterSend(t, Confirmed(t, reads, echoes)) IN
  /\ At(t, "proof")
  /\ thread' = [thread EXCEPT ![t].at = next,
                              ![t].emitted = @ \cup {RecentDigest(thread[t].sends.message)},
                              ![t].sends = IF next = "plan" THEN None ELSE @]
  /\ UNCHANGED <<clock, introduced, public, flying, signedSo, unsure, pacing, marking, tasking>>

\* setIntroduced, best effort.
Introduce(t, works) ==
  /\ At(t, "introduce")
  /\ introduced' = (introduced \/ works)
  /\ unsure' = (unsure \/ ~works)
  /\ thread' = [thread EXCEPT ![t].at = "plan", ![t].sends = None]
  /\ UNCHANGED <<clock, public, flying, signedSo, pacing, marking, tasking>>

\* A wake dies; the memory stays.
DieWake(t) ==
  /\ thread[t] # Idle
  /\ Answer(t)
  /\ unsure' = (unsure \/ At(t, "proof") \/ At(t, "introduce"))
  /\ UNCHANGED <<clock, introduced, public, flying, signedSo, pacing, marking, tasking>>

PassNext ==
  \/ \E t \in Thread :
       \/ BeginWake(t) \/ EndWake(t) \/ DieWake(t)
       \/ \E e \in Every : ReadConfig(t, e)
       \/ \E b \in BOOLEAN :
            \/ ReadLast(t, b) \/ StoreLast(t, b) \/ ReadIntroduced(t, b)
            \/ ReadTail(t, b) \/ Introduce(t, b)
            \/ \E m \in Message : Emit(t, m, b)
            \/ \E id \in Task : TaskDone(t, id, b)
            \/ \E S \in SUBSET Job : MarkSeen(t, S, b)
            \/ \E S \in SUBSET Task : ReadTasks(t, S, b)
            \/ \E arrives \in {"now", "later", "never"} : Write(t, arrives, b)
            \/ \E echoes \in BOOLEAN : Confirm(t, b, echoes)
  \/ \E x \in flying : Arrive(x)
  \/ Tick /\ UNCHANGED passes

PassSpec == DeskInit /\ PassInit /\ [][PassNext]_passVars
-----------------------------------------------------------------------------
(* Properties.                                                             *)

PassTypeOK ==
  /\ thread \in [Thread -> Wake \cup {Idle}]
  /\ \A t \in Thread : thread[t] # Idle =>
       /\ thread[t].now \in 1 .. clock
       /\ thread[t].sends # None <=> thread[t].at \in {"tail", "write", "proof", "introduce"}
  /\ lastThink \in 0 .. clock
  /\ DOMAIN seen \subseteq Job /\ Cardinality(DOMAIN seen) <= MaxSeen
  /\ \A x \in runs : x.id \in Task /\ x.at \in 1 .. clock
  /\ Cardinality(runs) <= MaxRuns
  /\ \A i \in DOMAIN public : public[i].message \in Message /\ public[i].nonce <= signedSo

\* Wakes that overlap, or read their interval late, still think no more often
\* than the interval: only two that are between reading and storing the last
\* think at once, or a memory that fails there, break it.
Paced ==
  unpaced \/ \A i, j \in DOMAIN thinks :
    i < j => thinks[j].start - thinks[i].start >= thinks[j].every

\* A job is fresh, and so may be claimed, in one wake only, however wakes overlap
\* and die; it comes back only after an eviction.
FreshOnce == \A j \in Job : offered[j] <= 1 + dropped[j]

\* Once a line of ours is public, every later wake is told that it has introduced
\* itself, confirmed or not (runPass: gating it on a read-back "would
\* re-introduce us in public every wake"), unless the answer to the write was
\* lost, a wake died holding it, or the flag could not be read or written.
IntroductionIsKnown ==
  unsure \/ \A t \in Thread :
    thread[t] # Idle /\ thread[t].at \in Informed =>
      (thread[t].spoke => thread[t].introduced)

\* A task recorded as done, with fewer than MAX_TASK_RUNS others recorded since,
\* is not due before its period is over, and never if it is to be done once, in a
\* wake that could read the ledger after it.
DoneStaysDone ==
  \A t \in Thread : thread[t] # Idle /\ thread[t].at \in Informed /\ thread[t].ledger =>
    \A i \in 1 .. thread[t].before :
      /\ Cardinality({done[k].id : k \in i .. thread[t].before}) <= MaxRuns
      /\ done[i].id \in thread[t].due
      => Period[done[i].id] > 0 /\ thread[t].looked - done[i].at >= Period[done[i].id]

\* What the agent's memory is for.
MemoryHolds == Paced /\ FreshOnce /\ IntroductionIsKnown /\ DoneStaysDone

\* A line reported confirmed is public, and got there after its baseline was
\* read: no identical older line confirms it (sendSignedWire: "never a stale
\* identical prior post").
ConfirmedIsThere ==
  \A t \in Thread, echoes \in BOOLEAN :
    At(t, "proof") /\ Confirmed(t, TRUE, echoes) =>
      \E i \in DOMAIN public :
        i > thread[t].sends.tail /\ public[i].message = thread[t].sends.message
=============================================================================
