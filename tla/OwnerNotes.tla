----------------------------- MODULE OwnerNotes -----------------------------
(***************************************************************************)
(* What the owner signs for the agent besides grants: the task playbook and *)
(* the model-and-wake setting (server.py, save_tasks and save_cost_config). *)
(* Each is kept in a local file and signed into a note of its own, which    *)
(* anyone can overwrite; the gateway verifies what it reads there           *)
(* (index.ts, readOwnerTasks and readOwnerConfig).  The clock stands still:  *)
(* every save falls into one reading of it.                                *)
(***************************************************************************)
EXTENDS Desk

CONSTANTS
  Values,       \* the playbooks and the settings, each by its size: the code
                \* points and UTF-16 units of its longest text, the bytes of
                \* its envelope
  MaxLen,       \* MAX_TASK_LEN
  MaxEnvelope,  \* MAX_ENVELOPE
  Attempts,     \* WRITE_ATTEMPTS
  MaxSaves,     \* bound: envelopes signed
  Junk          \* a note that is no signed envelope

\* What tasks.json and cost_config.json say under "published".
Outcome == {None, TRUE, FALSE}

ASSUME NotesAssumption ==
  /\ DOMAIN Values = {"tasks", "config"}
  /\ \A v \in Values["tasks"] \cup Values["config"] : /\ {v.points, v.units, v.bytes} \subseteq Nat
       /\ v.points <= v.units /\ v.units <= v.bytes
  /\ {MaxLen, MaxEnvelope, MaxSaves} \subseteq Nat /\ Attempts \in Nat \ {0}
  /\ Junk # None /\ None \notin BOOLEAN
  /\ {Junk, None} \cap [kind : DOMAIN Values, value : Values["tasks"] \cup Values["config"],
                       nonce : Nat] = {}
  /\ None \notin [value : Values["tasks"] \cup Values["config"],
                  published : Outcome, nonce : Nat]

VARIABLES
  noteNonce,    \* task_nonce, config_nonce
  local,        \* tasks.json, cost_config.json; with the nonce as history
  slot,         \* the notes
  late,         \* writes that have not arrived yet
  out,          \* history: envelopes that were sent
  held,         \* history: envelopes their note held
  applied,      \* what the gateway last took from each note
  putBack       \* history: the notes a stranger or a late write has set back

wireVars == <<slot, late, held, putBack>>
notes == <<noteNonce, local, wireVars, out, applied>>
notesVars == <<desk, notes>>

Kind == {"tasks", "config"}

NotesInit ==
  /\ noteNonce = [k \in Kind |-> None]
  /\ local = [k \in Kind |-> None]
  /\ slot = [k \in Kind |-> None]
  /\ late = {}
  /\ out = {}
  /\ held = {}
  /\ applied = [k \in Kind |-> None]
  /\ putBack = {}

Envelope(k, v, n) == [kind |-> k, value |-> v, nonce |-> n]
Saves == Cardinality({t \in Thread : thread[t] # Idle}) + Cardinality(out)

-----------------------------------------------------------------------------
\* _validate_tasks counts code points.
Valid(k, v) == k = "tasks" => v.points <= MaxLen

\* Everything before the lock: what is linked, the key, the passphrase.
BeginSave(t, k, v) ==
  /\ thread[t] = Idle
  /\ Saves < MaxSaves
  /\ Valid(k, v)
  /\ thread' = [thread EXCEPT ![t] =
       [at |-> "wait", kind |-> k, value |-> v, nonce |-> 0, tries |-> 0, ok |-> FALSE]]
  /\ UNCHANGED <<clock, notes>>

\* Mutant: saves do not exclude one another.
NoLock(k) == TRUE

\* _task_lock and _cost_lock.
LockFree(k) == \A u \in Thread : thread[u] # Idle /\ thread[u].kind = k => thread[u].at = "wait"

\* The nonce and the signature; a playbook whose envelope does not fit one note
\* is refused here, the nonce spent.
SignNote(t) ==
  LET k == thread[t].kind
      n == NextNonce(noteNonce[k]) IN
  /\ At(t, "wait")
  /\ LockFree(k)
  /\ n <= MaxSaves + 1
  /\ noteNonce' = [noteNonce EXCEPT ![k] = n]
  /\ IF k = "tasks" /\ thread[t].value.bytes > MaxEnvelope
     THEN Answer(t)
     ELSE thread' = [thread EXCEPT ![t].at = "keep", ![t].nonce = n]
  /\ UNCHANGED <<clock, local, wireVars, out, applied>>

File(t, published) ==
  [value |-> thread[t].value, published |-> published, nonce |-> thread[t].nonce]

\* Mutant: the file is written once, when the outcome is known.
KeepLater(t) ==
  /\ At(t, "keep")
  /\ Goto(t, "put")
  /\ UNCHANGED <<clock, notes>>

\* The file first, its outcome open.
KeepFirst(t) ==
  /\ At(t, "keep")
  /\ local' = [local EXCEPT ![thread[t].kind] = File(t, None)]
  /\ Goto(t, "put")
  /\ UNCHANGED <<clock, noteNonce, wireVars, out, applied>>

Sent(t) == Envelope(thread[t].kind, thread[t].value, thread[t].nonce)

Genuine(k, note) == note # Junk /\ note.kind = k

\* What the note has held is newer.
SetsBack(k, note) == Genuine(k, note) /\ \E e \in held : e.kind = k /\ e.nonce > note.nonce

Settle(k, note) ==
  /\ slot' = [slot EXCEPT ![k] = note]
  /\ held' = IF Genuine(k, note) THEN held \cup {note} ELSE held

\* A note written by someone else than a save in progress.
SettleForeign(k, note) ==
  /\ Settle(k, note)
  /\ putBack' = IF SetsBack(k, note) THEN putBack \cup {k} ELSE putBack \ {k}

\* Mutant: one attempt too many.
TriesAgainLater(tries) == tries <= Attempts

TriesAgain(tries) == tries < Attempts

\* set_note, one attempt: it arrives now, later or never; a 200 goes on to the
\* read-back, a lost answer or a transient status is tried again.
PutNote(t, arrives, answer) ==
  LET k == thread[t].kind IN
  /\ At(t, "put")
  /\ answer = "refused" => arrives = "never"
  /\ out' = out \cup {Sent(t)}
  /\ IF arrives = "now"
     THEN Settle(k, Sent(t)) /\ putBack' = putBack \ {k}
     ELSE UNCHANGED <<slot, held, putBack>>
  /\ late' = IF arrives = "later" THEN late \cup {Sent(t)} ELSE late
  /\ thread' = [thread EXCEPT
       ![t].tries = @ + 1,
       ![t].at = CASE answer = "ok" -> "confirm"
                   [] answer = "refused" -> "store"
                   [] answer = "lost" -> IF TriesAgain(thread[t].tries + 1) THEN "put" ELSE "store"]
  /\ UNCHANGED <<clock, noteNonce, local, applied>>

\* The read-back, which may fail, must find this very envelope.
ConfirmNote(t, reads) ==
  /\ At(t, "confirm")
  /\ thread' = [thread EXCEPT ![t].at = "store",
                              ![t].ok = reads /\ slot[thread[t].kind] = Sent(t)]
  /\ UNCHANGED <<clock, notes>>

\* The file again, with the outcome; the lock is released and the answer given.
StoreOutcome(t) ==
  /\ At(t, "store")
  /\ local' = [local EXCEPT ![thread[t].kind] = File(t, thread[t].ok)]
  /\ Answer(t)
  /\ UNCHANGED <<clock, noteNonce, wireVars, out, applied>>

\* The file cannot be written (_write_json raises): the request ends alone.
CannotKeep(t) ==
  /\ At(t, "keep") \/ At(t, "store")
  /\ Answer(t)
  /\ UNCHANGED <<clock, notes>>

-----------------------------------------------------------------------------
(* The world around.                                                       *)

ArriveLate(e) ==
  /\ SettleForeign(e.kind, e)
  /\ late' = late \ {e}
  /\ UNCHANGED <<desk, noteNonce, local, out, applied>>

\* Anyone may write any note: junk, or an envelope seen in whichever note.
Overwrite(k, note) ==
  /\ slot[k] # note
  /\ SettleForeign(k, note)
  /\ UNCHANGED <<desk, noteNonce, local, late, out, applied>>

\* Mutant: the signature does not cover the namespace and the key of the note.
VerifiedAnywhere(k, note) == note \notin {None, Junk}

\* The signature covers namespace, key, nonce and payload.
Verified(k, note) == note \notin {None, Junk} /\ note.kind = k

\* readOwnerTasks cuts a text to MAX_TASK_LEN units.
AgentGets(k, v) ==
  IF k = "tasks" /\ v.units > MaxLen THEN [v EXCEPT !.units = MaxLen] ELSE v

\* A pass asks the gateway for tasks and setting; a read that fails gives none,
\* and nothing is remembered of the nonce.
ReadNote(k, reads) ==
  /\ applied' = [applied EXCEPT ![k] =
       IF reads /\ Verified(k, slot[k])
       THEN [slot[k] EXCEPT !.value = AgentGets(k, @)]
       ELSE None]
  /\ UNCHANGED <<desk, noteNonce, local, wireVars, out>>

SaveStep(t) ==
  \/ SignNote(t) \/ KeepFirst(t) \/ StoreOutcome(t) \/ CannotKeep(t)
  \/ \E reads \in BOOLEAN : ConfirmNote(t, reads)
  \/ \E arrives \in {"now", "later", "never"}, answer \in {"ok", "lost", "refused"} :
       PutNote(t, arrives, answer)

NotesNext ==
  \/ \E t \in Thread :
       \/ \E k \in Kind : \E v \in Values[k] : BeginSave(t, k, v)
       \/ SaveStep(t)
  \/ \E e \in late : ArriveLate(e)
  \/ \E k \in Kind, note \in {Junk} \cup held : Overwrite(k, note)
  \/ \E k \in Kind, reads \in BOOLEAN : ReadNote(k, reads)
  \/ Die /\ UNCHANGED notes

NotesSpec == DeskInit /\ NotesInit /\ [][NotesNext]_notesVars

-----------------------------------------------------------------------------
(* Properties.                                                             *)

Nonces == 1 .. MaxSaves + 1

NotesTypeOK ==
  /\ \A t \in Thread : thread[t] # Idle /\ thread[t].kind \in Kind =>
       /\ thread[t].at \in {"wait", "keep", "put", "confirm", "store"}
       /\ thread[t].value \in Values[thread[t].kind]
       /\ thread[t].tries \in 0 .. Attempts
  /\ noteNonce \in [Kind -> Nonces \cup {None}]
  /\ \A k \in Kind : local[k] # None =>
       local[k].value \in Values[k] /\ local[k].published \in Outcome
  /\ \A e \in out : e.kind \in Kind /\ e.value \in Values[e.kind] /\ e.nonce \in Nonces
  /\ late \subseteq out
  /\ \A k \in Kind : slot[k] \in out \cup {Junk, None}

\* The local file is never behind what left the machine: what the agent could
\* have read is there, whoever saves at once and wherever the process dies
\* (save_tasks: "The local tasks.json is our source of truth").
LocalIsSource ==
  \A e \in out : local[e.kind] # None /\ local[e.kind].nonce >= e.nonce

\* A file that says published names an envelope its note really held.
PublishedWasHeld ==
  \A k \in Kind : local[k] # None /\ local[k].published = TRUE =>
    Envelope(k, local[k].value, local[k].nonce) \in held

\* What the local files say.
LocalIsHonest == LocalIsSource /\ PublishedWasHeld

\* The gateway takes from a note only what the owner signed for that very note,
\* also when an envelope of the other note is copied into it.
AppliedWasSigned ==
  \A k \in Kind : applied[k] # None =>
    \E e \in out : e.kind = k /\ e.nonce = applied[k].nonce
                   /\ applied[k].value = AgentGets(k, e.value)

\* What the gateway takes from a note is the newest the note ever held, whatever
\* saves race, are tried again or die half-way, and whatever strangers and late
\* writes did to the note before; it is an older one only while the note holds
\* what one of those put over a newer one, and no later save has reached it (the
\* reader keeps no nonce).
AppliedIsNewest ==
  [][\A k \in Kind \ putBack' : applied'[k] \notin {None, applied[k]}
       => \A e \in held' : e.kind = k => e.nonce <= applied'[k].nonce]_notesVars

\* What the owner saw accepted is what the agent gets (_validate_tasks: "no
\* silent post-signature truncation").
AgentGetsWhatOwnerSees ==
  \A k \in Kind : applied[k] # None => applied[k].value \in Values[k]
=============================================================================
