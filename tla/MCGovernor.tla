----------------------------- MODULE MCGovernor -----------------------------
(***************************************************************************)
(* Instances of Governor for TLC.  Times are scaled: the window floor and  *)
(* the skew are 1, so two clock readings cover two windows, a grant that   *)
(* expires between them, and one dated too far ahead of the first only.    *)
(***************************************************************************)
EXTENDS Governor, TLC

Doc(id, issued, expiry, window, allow) ==
  [id |-> id, owner |-> "owner", agent |-> "agent", issued |-> issued,
   expiry |-> expiry, window |-> window, allow |-> allow, genuine |-> TRUE]

Nothing == [k \in {} |-> 0]

GWide  == Doc("wide", 1, 1, 1, [SAY |-> 2, MODEL |-> 1])
\* Newer, with a lower ceiling and a window twice as long.
GTight == Doc("tight", 2, 1, 2, [SAY |-> 1])
GStop  == Doc("stop", 2, 1, 1, Nothing)
\* Dated beyond the skew for a call that reads 0, with a window below the
\* floor, which only a STOP may have.
GLateStop  == Doc("late", 2, 1, 0, Nothing)
\* Expires before the second reading.
GBrief == Doc("brief", 1, 0, 1, [SAY |-> 1])
\* A stranger's copy of a real id with a wider ceiling: it does not verify.
GForged == [GWide EXCEPT !.genuine = FALSE, !.allow = [SAY |-> 3]]
\* Genuine, by the same owner, for another agent.
GOther == [GWide EXCEPT !.id = "other", !.agent = "other", !.issued = 2]
\* A window below the floor.
GShort == Doc("short", 2, 1, 0, [SAY |-> 2])

SpendGrants == {GWide, GTight, GForged}
SteerGrants == {GWide, GStop, GBrief, GLateStop, GOther, GShort}

Slots == Permutations(Caller)
=============================================================================
