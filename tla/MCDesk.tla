------------------------------- MODULE MCDesk -------------------------------
(***************************************************************************)
(* Approvals, postings and the deploy, one part at a time: focus is chosen  *)
(* first, and the other parts then stand still.  Approvals have two foci:   *)
(* two requests about jobs, and one about a place that may be wrong.       *)
(***************************************************************************)
EXTENDS Approvals, Posting, Deploy, TLC

CONSTANTS r1, r2

VARIABLE focus

Useful == Proposal("ATTEST", "job", Nil, Nil, "good", Digest("good"), TRUE, "lobby")
Useless == [Useful EXCEPT !.useful = FALSE]
Nowhere == Proposal("CLAIM", "job", Nil, Nil, Nil, Nil, Nil, Nil)
Loose == Proposal("RESULT", "job", Nil, Nil, "", Digest("good"), Nil, "lobby")
Memo == Proposal("NOTE_WRITE", Nil, "lobby", "job", "good", Nil, Nil, "lobby")
Said == Proposal("SAY", Nil, "lobby", Nil, "good", Nil, Nil, "lobby")
Stray == [Said EXCEPT !.dest = "job"]
Filings == (r1 :> {Useful, Useless, Nowhere, Memo, Said, Stray}) @@ (r2 :> {Loose})

Approving == {"jobs", "places"}
Batch == [jobs |-> {Useful, Useless, Loose}, places |-> {Memo, Said, Stray, Nowhere}]

SpecInit ==
  /\ DeskInit /\ ApprovalsInit /\ PostingInit /\ DeployInit
  /\ focus \in Approving \cup {"posting", "deploy"}

DeskNext ==
  /\ UNCHANGED focus
  /\ \/ /\ focus \in Approving /\ ApprovalsNext /\ UNCHANGED <<posting, deploy>>
        /\ \A r \in Rid : pending'[r] \in Batch[focus] \cup {None}
     \/ focus = "posting" /\ PostingNext /\ UNCHANGED <<approvals, deploy>>
     \/ focus = "deploy" /\ DeployNext /\ UNCHANGED <<approvals, posting>>

Spec == SpecInit /\ [][DeskNext]_<<focus, desk, approvals, posting, deploy>>

\* The locals of a request have the shape of the part that serves it.
TypeOK ==
  /\ focus \in Approving => ApprovalsTypeOK
  /\ focus = "posting" => PostingTypeOK
  /\ focus = "deploy" => DeployTypeOK

\* Both nonce files, the steers' and the lines'.
NoncesUsedOnce == NoncesNeverReused /\ OneNonceOneLine

Symmetry == Permutations(Thread)
=============================================================================
