----------------------------- MODULE KillSwitch -----------------------------
(***************************************************************************)
(* The kill switch end to end: the dashboard signs and publishes, the note  *)
(* slot carries one document for the owner, whichever agent it is for, and  *)
(* the gateway of agent Me polls the slot once a minute (Gateway.scheduled, *)
(* pollSteer) and hands what it reads to its Governor.                      *)
(*                                                                         *)
(* The dashboard is DashboardGrants, extended; the Governor of Me is an     *)
(* instance of Governor, of which the polling RPC is used.  Both sides read *)
(* the same clock.                                                          *)
(***************************************************************************)
EXTENDS DashboardGrants

CONSTANTS
  Me,           \* the agent whose gateway is modelled
  NoAnchor      \* an object that was never configured

ASSUME KillSwitchAssumption == Me \in Agents

VARIABLES
  polled,       \* the note a poll has read and not yet handed over
  anchor, active, grantHigh, lastApplied, revoked, counters, nonceHigh,
  steerHigh, calls, ledger, everActive      \* the Governor of Me

dashboard == vars
governor == <<anchor, active, grantHigh, lastApplied, revoked, counters,
              nonceHigh, steerHigh, calls, ledger, everActive>>
system == <<dashboard, polled, governor>>

\* The document as the gateway parses it.
Grant(d) ==
  [id |-> d.id, owner |-> "owner", agent |-> d.agent, issued |-> d.issued,
   expiry |-> d.expiry, window |-> 1, genuine |-> TRUE,
   allow |-> [k \in IF d.live THEN {"MODEL"} ELSE {} |-> 1]]

Gov == INSTANCE Governor WITH
  Grants <- {Grant(d) : d \in Doc}, NoGrant <- NoDoc, Owners <- {"owner"},
  Class <- {"MODEL"}, Scope <- {}, NoScope <- NoDoc, Nonce <- {}, SteerNonce <- {},
  Caller <- {"poll"}, MinWindow <- 1, IssuedSkew <- 0

SystemInit ==
  /\ Init
  /\ polled = NoDoc
  /\ Gov!Init

\* #buildCtx configures the Governor before anything else is asked of it.
Configure ==
  /\ anchor = NoAnchor
  /\ Gov!Configure("owner", Me)
  /\ UNCHANGED <<dashboard, polled>>

\* readOwnerGrant: an empty slot or a failed read is no candidate.
PollRead ==
  /\ anchor # NoAnchor
  /\ polled = NoDoc
  /\ slot # NoDoc
  /\ polled' = slot
  /\ UNCHANGED <<dashboard, governor>>

\* The candidate verifies and waits in applySteerGrant ...
PollApply ==
  /\ polled # NoDoc
  /\ Gov!BeginApplySteerGrant("poll", Grant(polled), clock)
  /\ polled' = NoDoc
  /\ UNCHANGED dashboard

\* ... or it does not (another agent's, or expired).
PollDrop ==
  /\ polled # NoDoc
  /\ ~Gov!VerifyGrant(Grant(polled), clock)
  /\ polled' = NoDoc
  /\ UNCHANGED <<dashboard, governor>>

PollFinish ==
  /\ Gov!FinishApplySteerGrant("poll") \/ Gov!Refuse("poll")
  /\ UNCHANGED <<dashboard, polled>>

\* The isolate of the gateway, or the object, goes away in the middle of a poll.
Evict ==
  /\ polled # NoDoc \/ calls["poll"] # Idle
  /\ polled' = NoDoc
  /\ Gov!Restart
  /\ UNCHANGED dashboard

Gateway == Configure \/ PollRead \/ PollApply \/ PollDrop \/ PollFinish \/ Evict

Dashboard == PromptNext /\ UNCHANGED <<polled, governor>>

\* The owner waits for the next second before signing again.
AllOlder ==
  \A d \in landed \cup late \cup ({Stored} \ {NoDoc}) : d.issued < clock

PatientDashboard == Dashboard /\ (nextId' # nextId => AllOlder)

\* ... signs nothing before the last document was reported delivered, and links
\* no agent but Me until told that Me was stopped; the dashboard does not crash
\* and can write its files.
CarefulDashboard ==
  /\ PatientDashboard
  /\ ~Crash /\ \A r \in Req : ~CannotWrite(r)
  /\ nextId' # nextId => record = Blank \/ Stored \in told
  /\ agentFile' \in {NoAgent, Me} \/ \E s \in told : s.agent = Me /\ ~s.live

\* The cron fires every minute and an eviction does not hit every poll; the
\* dashboard, and the clock, may stop at any time.
Polling ==
  /\ WF_system(Configure)
  /\ WF_system(PollRead)
  /\ SF_system(PollApply)
  /\ SF_system(PollDrop)
  /\ SF_system(PollFinish)

SystemSpec == SystemInit /\ [][Dashboard \/ Gateway]_system /\ Polling

PatientSpec == SystemInit /\ [][PatientDashboard \/ Gateway]_system /\ Polling

CarefulSpec == SystemInit /\ [][CarefulDashboard \/ Gateway]_system /\ Polling

-----------------------------------------------------------------------------
(* Properties.                                                             *)

\* The agent may think, or act, at this moment.
Running == Gov!ActiveVerifies(clock) /\ ~Gov!IsStop(active)

\* The owner was told that document i, a stop for Me, was delivered ...
ToldStopped(i) == \E s \in told : s.id = i /\ s.agent = Me /\ ~s.live

\* ... and has signed and published a new permissive grant for Me since.
Resumed(i) == \E d \in landed : d.id > i /\ d.agent = Me /\ d.live

\* "Within a minute the vault stops thinking and acting, and stays stopped"
\* (README.md): once a stop is reported delivered, the agent soon stops for
\* good, unless the owner grants again.
StopTakesEffect ==
  \A i \in Id : ToldStopped(i) ~> [](~Running \/ Resumed(i))
=============================================================================
