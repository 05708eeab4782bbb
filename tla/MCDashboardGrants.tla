-------------------------- MODULE MCDashboardGrants --------------------------
(***************************************************************************)
(* Instances of DashboardGrants for TLC.                                   *)
(***************************************************************************)
EXTENDS DashboardGrants, TLC

\* Requests and agents are interchangeable.
Interchangeable == Permutations(Req) \cup Permutations(Agents)
=============================================================================
