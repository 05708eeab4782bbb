------------------------------ MODULE MCGateway ------------------------------
(***************************************************************************)
(* Instances of Gateway for TLC, two in one run: in "paid", messages and     *)
(* model calls around a STOP and a grant after it; in "feed", attestations   *)
(* and activity lines around a grant and a STOP, while the board changes.   *)
(***************************************************************************)
EXTENDS Gateway, TLC

VARIABLE scenario

Doc(id, issued, allow) == [id |-> id, issued |-> issued, allow |-> allow]

GOne == Doc("one", 1, [k \in Class |-> 1])
GTwo == Doc("two", 3, [k \in Class |-> 2])
GStop == Doc("stop", 2, [k \in {} |-> 0])

AllGrants == {GOne, GStop, GTwo}
AllClasses == {"SAY", Match, NoMatch, Model}

\* One result, posted by us or by another, or none.
Result == CHOOSE t \in Text : TRUE
SomePosts == [text : {Result}, ours : BOOLEAN] \cup {[text |-> NoText, ours |-> FALSE]}

\* What each scenario leaves out.
Paid ==
  /\ inForce' # GOne /\ noted' = 0 /\ UNCHANGED board
  /\ \A c \in Caller : calls'[c] # Idle => calls'[c].klass \in {"SAY", Model}
Feed ==
  /\ inForce' # GTwo /\ asked' = 0
  /\ \A c \in Caller :
       calls'[c] # Idle => calls'[c].klass \in {Match, NoMatch, NoClass} /\ calls'[c].nonce < 2

ScenarioInit == GatewayInit /\ scenario \in {"paid", "feed"}

ScenarioNext ==
  /\ UNCHANGED scenario
  /\ GatewayNext
  /\ IF scenario = "paid" THEN Paid ELSE Feed

ScenarioSpec == ScenarioInit /\ [][ScenarioNext]_<<all, scenario>>

Slots == Permutations(Caller)
=============================================================================
