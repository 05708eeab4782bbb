------------------------------ MODULE MCPanel ------------------------------
(***************************************************************************)
(* The owner's notes, the panel over them, and the agent's wakes, one part  *)
(* at a time.  Focus "notes" has both notes and no panel; "panel" has a      *)
(* panel whose sources change, "health" one whose reports age; the others   *)
(* are wakes: "pace" up to the throttle, "mark" as they mark jobs, "speak"  *)
(* as they write, "tasks" as they run tasks.                               *)
(***************************************************************************)
EXTENDS Panel, AgentPass, TLC

CONSTANTS a1, j1, k1, k2

VARIABLE focus

Plain == [points |-> 1, units |-> 1, bytes |-> 1]
Other == [points |-> 1, units |-> 1, bytes |-> 2]
Huge == [points |-> 2, units |-> 2, bytes |-> 9]
Emoji == [points |-> 2, units |-> 4, bytes |-> 8]
Sizes == [tasks |-> {Plain, Huge}, config |-> {Plain, Other}]
Wide == [tasks |-> {Emoji}, config |-> {Plain, Other}]
FreshOf == (Plain :> 0) @@ (Other :> 1)

Hello == [shape |-> "say", verb |-> None, job |-> None, words |-> "hello"]
Kibble(verb, words) == [shape |-> "kibble", verb |-> verb, job |-> j1, words |-> words]
Messages == {Hello, Kibble("CLAIM", None), Kibble("RESULT", "x"), Kibble("RESULT", "y")}
Periods == (k1 :> 0) @@ (k2 :> 1)

Wakes == {"pace", "mark", "speak", "tasks"}
Foci == {"notes", "panel", "health"} \cup Wakes

SpecInit == DeskInit /\ PanelInit /\ PassInit /\ focus \in Foci

-----------------------------------------------------------------------------
(* What each focus on the wakes leaves out.                                *)

Awake == {t \in Thread : thread[t] # Idle}
Steps0 == {"config", "last", "store"}
Opening ==
  [pace |-> {}, mark |-> Steps0 \cup {"flag", "tasks"},
   speak |-> Steps0 \cup {"mark"}, tasks |-> Steps0 \cup {"mark", "flag"}]

\* The steps of a wake before those in focus are not interleaved with others.
OpensFirst == \A t \in Awake : thread[t].at \in Opening[focus] => thread'[t] # thread[t]

NoTasks == \A t \in Awake : thread'[t] # Idle => thread'[t].due = {} /\ ~thread'[t].ledger
OnlyClaims ==
  \A t \in Awake : thread'[t] # Idle /\ thread'[t].calls < ModelBudget =>
    thread'[t].at = "tail" /\ thread'[t].sends.message.verb = "CLAIM"
NoEmits == \A t \in Awake : thread'[t] # Idle => thread'[t].writes >= WriteBudget - 1

Left ==
  CASE focus = "pace" -> NoTasks /\ UNCHANGED <<marking, speaking, tasking>>
    [] focus = "mark" -> NoTasks /\ OnlyClaims /\ UNCHANGED <<unpaced, unsure, public, tasking>>
    [] focus = "speak" -> NoTasks /\ UNCHANGED <<clock, marking, tasking>>
    [] focus = "tasks" -> NoEmits /\ UNCHANGED <<unpaced, marking, speaking>>

Next ==
  /\ UNCHANGED focus
  /\ \/ focus = "notes" /\ NotesNext /\ UNCHANGED <<panel, passes>>
     \/ focus \in {"panel", "health"} /\ PanelNext /\ UNCHANGED passes
     \/ focus \in Wakes /\ PassNext /\ OpensFirst /\ Left /\ UNCHANGED <<notes, panel>>
  \* A file that cannot be written looks to a panel like a save that rests there
  \* (PanelTellsTheTruth is proved without this bound).
  /\ focus \in {"panel", "health"} => \A t \in Thread : ~CannotKeep(t)

Spec == SpecInit /\ [][Next]_<<focus, panelVars, passes>>

TypeOK == IF focus \in Wakes THEN PassTypeOK ELSE NotesTypeOK /\ PanelTypeOK

-----------------------------------------------------------------------------
\* The bounds of the notes and the panel: settings do not differ where only
\* their nonces matter, and draw two (a playbook, which may be refused after its
\* nonce was drawn, three); one save at a time beside a panel; no model call
\* where the panel's sources change, and one save and one deploy where its
\* reports age.
OneSaver == Cardinality({t \in Awake : thread[t].kind # "panel"}) <= 1
OneTry == \A t \in Thread : At(t, "put") => thread[t].tries = 0
OneAgent == cloud # None => cloud.agent = a1
Small ==
  /\ focus = "notes" =>
       /\ Cardinality(late) <= 1 /\ noteNonce["config"] # 3
       /\ \A t \in Awake : thread[t].value # Other
  /\ focus = "panel" =>
       /\ OneSaver /\ OneTry /\ OneAgent /\ late = {} /\ reports = {} /\ clock = 1
       /\ health = None /\ (deployFile = Junk => out = {})
  /\ focus = "health" =>
       /\ OneSaver /\ OneTry /\ OneAgent /\ deployFile # Junk /\ Cardinality(out) <= 1 /\ late = {}
       /\ noteNonce["config"] \in {None, 1}
       /\ cloud # None => cloud.setting = Plain
       /\ clock > 1 => reports # {}
  \* The bounds of the wakes: two intervals where it is the throttle that
  \* matters; two wakes, or two lines, where what they share is one flag.
  /\ focus = "pace" => \A t \in Awake : thread[t].at # "flag"
  /\ focus \in Wakes \ {"pace"} => \A t \in Awake : thread[t].every <= 1
  /\ focus = "mark" => signedSo <= 1 /\ \A t \in Awake : thread[t].at # "write"
  /\ focus = "speak" => signedSo <= 2 /\ begun <= 2
  /\ focus = "tasks" => begun <= 2 /\ Len(done) <= 3 /\ clock <= 2

Symmetry == Permutations(Thread)
=============================================================================
