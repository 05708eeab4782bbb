-------------------------- MODULE MCGrantThreads ---------------------------
(***************************************************************************)
(* Two instances of DashboardGrants in one run: two threads that serve one  *)
(* agent over a network that delivers late, and one owner, one request at a *)
(* time, with two agents and files that get damaged.                       *)
(***************************************************************************)
EXTENDS MCDashboardGrants

CONSTANT MaxThreadTime  \* bound: last reading of the clock for the two threads

VARIABLE scenario

Threads == [name : {"threads"}, threads : {Req}, agents : {{a} : a \in Agents}]
Owner == [name : {"owner"}, threads : {{r} : r \in Req}, agents : {Agents}]

ScenarioInit == Init /\ scenario \in Threads \cup Owner

ThreadsStep ==
  /\ Next
  /\ clock' <= MaxThreadTime
  /\ agentFile' # Unreadable /\ record' # Unreadable /\ barred' # Unreadable

OwnerStep ==
  \/ \E r \in scenario.threads : Ask(r) \/ Step(r)
  \/ Crash \/ Damage \/ Tick

ScenarioNext ==
  /\ UNCHANGED scenario
  /\ IF scenario \in Owner THEN OwnerStep ELSE ThreadsStep
  /\ agentFile' \in scenario.agents \cup {NoAgent, Unreadable}
  /\ \A r \in Req : req'[r] # Idle => req'[r].agent \in scenario.agents \cup {NoAgent}

ScenarioSpec == ScenarioInit /\ [][ScenarioNext]_<<vars, scenario>>

\* The owner's own requests, one after the other and with crashes and damaged
\* files in between, never forget an agent whose permissive grant is in the slot
\* (_agent_change_blocked).  A write that arrives late may still bring one back.
OwnerNeverStrands == scenario \in Owner => NeverStranded
=============================================================================
