---------------------------- MODULE NotesProofs ----------------------------
(***************************************************************************)
(* Theorems about the owner's notes and about the panel that reads them,    *)
(* for every set of request threads, agents, playbooks and settings.       *)
(***************************************************************************)
EXTENDS Panel, TLAPS

Value == Values["tasks"] \cup Values["config"]
Envelopes == [kind : Kind, value : Value, nonce : Nat]
Save ==
  [at : {"wait", "keep", "put", "confirm", "store"}, kind : Kind, value : Value, nonce : Nat,
   tries : Nat, ok : BOOLEAN]
Runnings == [agent : Agent, setting : Setting] \cup {None}
Ask ==
  [at : {"record", "slot", "health"}, kind : {"panel"}, latest : Readings, mine : Readings,
   deployed : Readings, linked : Agent \cup {None}, ran : Runnings, note : Readings,
   noteWas : Readings]

NotesTypeInv ==
  /\ clock \in Nat
  /\ thread \in [Thread -> Save \cup Ask \cup {Idle}]
  /\ \A t \in Thread : thread[t] # Idle /\ thread[t].kind \in Kind =>
       thread[t].value \in Values[thread[t].kind]
  /\ noteNonce \in [Kind -> Nat \cup {None}]
  /\ local = [k \in Kind |-> local[k]]
  /\ \A k \in Kind : local[k] # None => local[k].value \in Values[k]
  /\ out \subseteq Envelopes /\ \A e \in out : e.value \in Values[e.kind]
  /\ late \subseteq out /\ held \subseteq out
  /\ slot \in [Kind -> out \cup {Junk, None}]
  /\ applied = [k \in Kind |-> applied[k]]

Saving(t) == thread[t] # Idle /\ thread[t].kind \in Kind
Holds(t) == Saving(t) /\ thread[t].at # "wait"

\* Who holds a lock holds it alone, with the nonce the counter stands at, and
\* what it is about to send is in the file; so the file is ahead of the note.
LockInv ==
  /\ \A t, u \in Thread : Holds(t) /\ Holds(u) /\ thread[t].kind = thread[u].kind => t = u
  /\ \A e \in out : noteNonce[e.kind] \in Nat /\ e.nonce <= noteNonce[e.kind]
  /\ \A t \in Thread : Holds(t) =>
       /\ noteNonce[thread[t].kind] = thread[t].nonce
       /\ thread[t].at # "keep" => local[thread[t].kind] = File(t, None)
  /\ LocalIsSource

\* A read-back that succeeds has seen the envelope on its note.
HeldInv ==
  /\ \A k \in Kind : slot[k] \notin {None, Junk} /\ slot[k].kind = k => slot[k] \in held
  /\ \A t \in Thread : Saving(t) /\ thread[t].ok = TRUE =>
       thread[t].at = "store" /\ Sent(t) \in held
  /\ PublishedWasHeld

\* A note that has not been set back holds the newest of its kind it ever held.
RiseInv ==
  \A k \in Kind \ putBack : slot[k] \notin {None, Junk} /\ slot[k].kind = k =>
    \A e \in held : e.kind = k => e.nonce <= slot[k].nonce

NotesInv == NotesTypeInv /\ LockInv /\ HeldInv /\ AppliedWasSigned /\ RiseInv
-----------------------------------------------------------------------------
(* Records.                                                                *)

LEMMA KindOf ==
  /\ \A s \in Save : s.kind \in Kind
  /\ \A s \in Ask : s.kind \notin Kind /\ s.at \notin {"wait", "keep", "put", "confirm", "store"}
BY DEF Save, Ask, Kind

\* A thread that saves is a save, with all its fields.
LEMMA SavingIsSave ==
  ASSUME NotesTypeInv, NEW t \in Thread, Saving(t)
  PROVE  /\ thread[t] \in Save /\ thread[t].kind \in Kind /\ thread[t].nonce \in Nat
         /\ thread[t].tries \in Nat /\ thread[t].value \in Values[thread[t].kind]
BY KindOf DEF NotesTypeInv, Saving, Save

\* Only a save is at a step of a save.
LEMMA AtIsSaving ==
  ASSUME NotesTypeInv, NEW t \in Thread, NEW step \in {"wait", "keep", "put", "confirm", "store"},
         At(t, step)
  PROVE  Saving(t) /\ thread[t].at = step
BY KindOf DEF NotesTypeInv, Saving, At

\* What a save sends is an envelope.
LEMMA SentIsEnvelope ==
  ASSUME NotesTypeInv, NEW t \in Thread, Saving(t)
  PROVE  /\ Sent(t) \in Envelopes /\ Sent(t).kind = thread[t].kind
         /\ Sent(t).nonce = thread[t].nonce /\ Sent(t).value = thread[t].value
         /\ Sent(t).value \in Values[Sent(t).kind]
         /\ Sent(t) # Junk /\ Sent(t) # None
<1>1. /\ Sent(t).kind = thread[t].kind /\ Sent(t).nonce = thread[t].nonce
      /\ Sent(t).value = thread[t].value
  BY DEF Sent, Envelope
<1>2. thread[t].value \in Value
  BY SavingIsSave DEF Save
<1>3. Sent(t) \in Envelopes
  BY <1>2, SavingIsSave DEF Sent, Envelope, Envelopes
<1>4. QED
  BY <1>1, <1>3, SavingIsSave, NotesAssumption DEF Envelopes, Value, Kind

LEMMA OutIsNoJunk == ASSUME NotesTypeInv PROVE Junk \notin out /\ None \notin out
BY NotesAssumption DEF NotesTypeInv, Envelopes, Value, Kind

\* An outcome can be stored, and a file is not absent.
LEMMA FileIsThere ==
  ASSUME NotesTypeInv, NEW t \in Thread, Saving(t), NEW p \in Outcome
  PROVE  /\ File(t, p) # None /\ File(t, p).nonce = thread[t].nonce
         /\ File(t, p).value = thread[t].value /\ File(t, p).published = p
<1>1. thread[t].value \in Value /\ thread[t].nonce \in Nat
  BY SavingIsSave DEF Save
<1>2. File(t, p) \in [value : Value, published : Outcome, nonce : Nat]
  BY <1>1 DEF File
<1>3. File(t, p) # None
  BY <1>2, NotesAssumption DEF Value
<1>4. QED
  BY <1>3 DEF File

LEMMA OkIsOutcome == ASSUME NotesTypeInv, NEW t \in Thread, Saving(t) PROVE thread[t].ok \in Outcome
<1>1. thread[t].ok \in BOOLEAN
  BY SavingIsSave DEF Save
<1>2. QED
  BY <1>1, Zenon DEF Outcome

\* A nonce is above the last one, whatever the clock says.
LEMMA NonceRises ==
  ASSUME NEW last \in Nat \cup {None}, clock \in Nat
  PROVE  NextNonce(last) \in Nat /\ (last \in Nat => NextNonce(last) > last)
BY DeskAssumption DEF NextNonce
-----------------------------------------------------------------------------
(* One step of one thread.                                                 *)

OthersRest(t) == \A u \in Thread \ {t} : thread'[u] = thread[u]

\* Nothing but thread t changes, and if it still holds a lock it holds the same.
LEMMA ThreadStep ==
  ASSUME NotesInv, NEW t \in Thread, UNCHANGED notes, clock' \in Nat,
         thread' \in [Thread -> Save \cup Ask \cup {Idle}], OthersRest(t),
         Saving(t)' => thread'[t].value \in Values[thread'[t].kind],
         Holds(t)' => /\ Holds(t) /\ thread'[t].kind = thread[t].kind
                      /\ thread'[t].value = thread[t].value /\ thread'[t].nonce = thread[t].nonce
                      /\ thread'[t].at # "keep" => thread[t].at # "keep",
         Saving(t)' /\ thread'[t].ok = TRUE => thread'[t].at = "store" /\ Sent(t)' \in held
  PROVE  NotesInv'
<1> USE DEF NotesInv, notes, wireVars, OthersRest
<1>1. NotesTypeInv'
  BY KindOf DEF NotesTypeInv, Saving
<1>2. \A u \in Thread \ {t} : /\ Saving(u)' <=> Saving(u)
                              /\ Holds(u)' <=> Holds(u)
                              /\ File(u, None)' = File(u, None) /\ Sent(u)' = Sent(u)
  BY DEF Saving, Holds, File, Sent, Envelope
<1>3. Holds(t)' => File(t, None)' = File(t, None)
  BY DEF File
<1>4. LocalIsSource' /\ PublishedWasHeld' /\ AppliedWasSigned' /\ RiseInv'
  BY DEF LockInv, HeldInv, LocalIsSource, PublishedWasHeld, AppliedWasSigned, RiseInv
<1>5. \A u, v \in Thread : Holds(u)' /\ Holds(v)' /\ thread'[u].kind = thread'[v].kind => u = v
  BY <1>2 DEF LockInv
<1>6. \A u \in Thread : Holds(u)' =>
        /\ noteNonce[thread'[u].kind] = thread'[u].nonce
        /\ thread'[u].at # "keep" => local[thread'[u].kind] = File(u, None)'
  BY <1>2, <1>3 DEF LockInv
<1>7. LockInv'
  BY <1>4, <1>5, <1>6 DEF LockInv
<1>8. HeldInv'
  BY <1>2, <1>4 DEF HeldInv
<1>9. QED
  BY <1>1, <1>4, <1>7, <1>8

LEMMA BeginStep ==
  ASSUME NotesInv, NEW t \in Thread, NEW k \in Kind, NEW v \in Values[k], BeginSave(t, k, v)
  PROVE  NotesInv'
<1> DEFINE r == [at |-> "wait", kind |-> k, value |-> v, nonce |-> 0, tries |-> 0, ok |-> FALSE]
<1>1. r \in Save
  BY DEF Save, Value, Kind
<1>2. r.at = "wait" /\ r.kind = k /\ r.value = v /\ r.ok = FALSE
  OBVIOUS
<1>3. thread' = [thread EXCEPT ![t] = r] /\ UNCHANGED <<clock, notes>>
  BY DEF BeginSave
<1> HIDE DEF r
<1>4. thread' \in [Thread -> Save \cup Ask \cup {Idle}] /\ thread'[t] = r /\ OthersRest(t)
  BY <1>1, <1>3 DEF NotesInv, NotesTypeInv, OthersRest
<1>5. QED
  BY <1>2, <1>3, <1>4, ThreadStep DEF NotesInv, NotesTypeInv, Saving, Holds

LEMMA ConfirmStep ==
  ASSUME NotesInv, NEW t \in Thread, NEW reads \in BOOLEAN, ConfirmNote(t, reads)
  PROVE  NotesInv'
<1> DEFINE ok == reads /\ slot[thread[t].kind] = Sent(t)
           r == [thread[t] EXCEPT !.at = "store", !.ok = ok]
<1>1. Saving(t) /\ thread[t].at = "confirm" /\ thread[t] \in Save
  BY AtIsSaving, SavingIsSave DEF NotesInv, ConfirmNote
<1>2. ok \in BOOLEAN
  OBVIOUS
<1>3. ok => Sent(t) \in held
  BY <1>1, SentIsEnvelope, SavingIsSave DEF NotesInv, HeldInv
<1>4. thread' = [thread EXCEPT ![t] = r] /\ UNCHANGED <<clock, notes>>
  BY DEF ConfirmNote
<1> HIDE DEF ok
<1>5. /\ r \in Save /\ r.at = "store" /\ r.ok = ok /\ r.kind = thread[t].kind
      /\ r.value = thread[t].value /\ r.nonce = thread[t].nonce
  BY <1>1, <1>2 DEF Save
<1> HIDE DEF r
<1>6. thread' \in [Thread -> Save \cup Ask \cup {Idle}] /\ thread'[t] = r /\ OthersRest(t)
  BY <1>4, <1>5 DEF NotesInv, NotesTypeInv, OthersRest
<1>7. Sent(t)' = Sent(t)
  BY <1>5, <1>6 DEF Sent, Envelope
<1>8. r.ok = TRUE => Sent(t)' \in held
  BY <1>2, <1>3, <1>5, <1>7
<1>9. Holds(t) /\ thread[t].at # "keep"
  BY <1>1 DEF Holds
<1>10. thread'[t].value \in Values[thread'[t].kind]
  BY <1>1, <1>5, <1>6, SavingIsSave DEF NotesInv
<1>11. QED
  BY <1>4, <1>5, <1>6, <1>8, <1>9, <1>10, ThreadStep DEF NotesInv, NotesTypeInv

LEMMA SignStep == ASSUME NotesInv, NEW t \in Thread, SignNote(t) PROVE NotesInv'
<1> DEFINE k == thread[t].kind
           n == NextNonce(noteNonce[k])
           r == [thread[t] EXCEPT !.at = "keep", !.nonce = n]
<1>1. Saving(t) /\ thread[t].at = "wait" /\ thread[t] \in Save /\ k \in Kind
         /\ thread[t].value \in Values[k]
  BY AtIsSaving, SavingIsSave DEF NotesInv, SignNote
<1>2. n \in Nat /\ (noteNonce[k] \in Nat => n > noteNonce[k])
  BY <1>1, NonceRises DEF NotesInv, NotesTypeInv
<1>3. /\ noteNonce' = [noteNonce EXCEPT ![k] = n]
      /\ thread' = [thread EXCEPT ![t] = Idle] \/ thread' = [thread EXCEPT ![t] = r]
      /\ LockFree(k) /\ UNCHANGED <<clock, local, slot, late, held, putBack, out, applied>>
  BY DEF SignNote, Answer, wireVars
<1> HIDE DEF n
<1>4. /\ r \in Save /\ r.at = "keep" /\ r.kind = k /\ r.value = thread[t].value
      /\ r.nonce = n /\ r.ok = thread[t].ok
  BY <1>1, <1>2 DEF Save
<1> HIDE DEF k, r
<1>5. /\ thread' \in [Thread -> Save \cup Ask \cup {Idle}] /\ thread'[t] \in {Idle, r} /\ OthersRest(t)
      /\ noteNonce' \in [Kind -> Nat \cup {None}] /\ noteNonce'[k] = n
      /\ \A j \in Kind \ {k} : noteNonce'[j] = noteNonce[j]
  BY <1>1, <1>2, <1>3, <1>4 DEF NotesInv, NotesTypeInv, OthersRest
<1>6. NotesTypeInv'
  BY <1>1, <1>3, <1>4, <1>5, KindOf DEF NotesInv, NotesTypeInv, Saving, OthersRest, k
<1>7. \A u \in Thread \ {t} : /\ Holds(u)' <=> Holds(u)
                              /\ Saving(u)' <=> Saving(u)
                              /\ File(u, None)' = File(u, None) /\ Sent(u)' = Sent(u)
  BY <1>5 DEF Saving, Holds, File, Sent, Envelope, OthersRest
<1>8. \A u \in Thread : Holds(u) => thread[u].kind # k
  BY <1>3 DEF LockFree, Holds, Saving
<1>9. LockInv'
  <2>1. \A u, v \in Thread : Holds(u)' /\ Holds(v)' /\ thread'[u].kind = thread'[v].kind => u = v
    <3>1. Holds(t)' => thread'[t].kind = k
      BY <1>4, <1>5 DEF Holds, Saving
    <3>2. \A u \in Thread \ {t} : Holds(u)' => thread'[u].kind # k
      BY <1>5, <1>7, <1>8 DEF OthersRest
    <3>3. QED
      BY <1>5, <1>7, <3>1, <3>2 DEF NotesInv, LockInv, OthersRest
  <2>2. \A e \in out' : noteNonce'[e.kind] \in Nat /\ e.nonce <= noteNonce'[e.kind]
    <3> SUFFICES ASSUME NEW e \in out PROVE noteNonce'[e.kind] \in Nat /\ e.nonce <= noteNonce'[e.kind]
      BY <1>3
    <3>1. e.kind \in Kind /\ e.nonce \in Nat
      BY DEF NotesInv, NotesTypeInv, Envelopes
    <3>2. noteNonce[e.kind] \in Nat /\ e.nonce <= noteNonce[e.kind]
      BY DEF NotesInv, LockInv
    <3>3. CASE e.kind = k
      BY <1>2, <1>5, <3>1, <3>2, <3>3
    <3>4. CASE e.kind # k
      BY <1>5, <3>1, <3>2, <3>4
    <3>5. QED
      BY <3>3, <3>4
  <2>3. ASSUME NEW u \in Thread \ {t}, Holds(u)'
        PROVE  /\ noteNonce'[thread'[u].kind] = thread'[u].nonce
               /\ thread'[u].at # "keep" => local'[thread'[u].kind] = File(u, None)'
    <3>1. Holds(u) /\ thread'[u] = thread[u]
      BY <1>5, <1>7, <2>3 DEF OthersRest
    <3>2. thread[u].kind \in Kind \ {k}
      BY <1>8, <3>1 DEF Holds, Saving
    <3>3. QED
      BY <1>3, <1>5, <1>7, <3>1, <3>2 DEF NotesInv, LockInv
  <2>4. Holds(t)' => noteNonce'[thread'[t].kind] = thread'[t].nonce /\ thread'[t].at = "keep"
    BY <1>4, <1>5 DEF Holds, Saving
  <2>5. LocalIsSource'
    BY <1>3 DEF NotesInv, LockInv, LocalIsSource
  <2>6. \A u \in Thread : Holds(u)' =>
          /\ noteNonce'[thread'[u].kind] = thread'[u].nonce
          /\ thread'[u].at # "keep" => local'[thread'[u].kind] = File(u, None)'
    BY <2>3, <2>4
  <2>7. QED
    BY <2>1, <2>2, <2>5, <2>6 DEF LockInv
<1>10. HeldInv'
  <2>1. Saving(t)' => thread'[t].ok # TRUE
    BY <1>1, <1>4, <1>5 DEF NotesInv, HeldInv, Saving
  <2>2. ASSUME NEW u \in Thread, Saving(u)', thread'[u].ok = TRUE
        PROVE  thread'[u].at = "store" /\ Sent(u)' \in held
    <3>1. u # t
      BY <2>1, <2>2
    <3>2. thread'[u] = thread[u] /\ Saving(u) /\ Sent(u)' = Sent(u)
      BY <1>5, <1>7, <2>2, <3>1 DEF OthersRest
    <3>3. QED
      BY <2>2, <3>2 DEF NotesInv, HeldInv
  <2>3. PublishedWasHeld'
    BY <1>3 DEF NotesInv, HeldInv, PublishedWasHeld
  <2>4. \A j \in Kind : slot'[j] \notin {None, Junk} /\ slot'[j].kind = j => slot'[j] \in held'
    BY <1>3 DEF NotesInv, HeldInv
  <2>5. QED
    BY <1>3, <2>2, <2>3, <2>4 DEF HeldInv
<1>11. AppliedWasSigned' /\ RiseInv'
  BY <1>3 DEF NotesInv, AppliedWasSigned, RiseInv
<1>12. QED
  BY <1>6, <1>9, <1>10, <1>11 DEF NotesInv

\* A thread's step that writes its file, with nothing yet said of the outcome or
\* with the outcome.
LEMMA FileStep ==
  ASSUME NotesInv, NEW t \in Thread, Holds(t), NEW p \in Outcome, NEW r \in Save \cup {Idle},
         p = TRUE => Sent(t) \in held,
         local' = [local EXCEPT ![thread[t].kind] = File(t, p)],
         thread' = [thread EXCEPT ![t] = r],
         r # Idle => /\ p = None /\ r.kind = thread[t].kind /\ r.value = thread[t].value
                     /\ r.nonce = thread[t].nonce /\ r.ok # TRUE,
         UNCHANGED <<clock, noteNonce, wireVars, out, applied>>
  PROVE  NotesInv'
<1> DEFINE k == thread[t].kind
<1>1. Saving(t) /\ thread[t] \in Save /\ k \in Kind /\ thread[t].value \in Values[k]
         /\ thread[t].nonce \in Nat
  BY SavingIsSave DEF NotesInv, Holds
<1>2. /\ thread' \in [Thread -> Save \cup Ask \cup {Idle}] /\ thread'[t] = r /\ OthersRest(t)
  BY DEF NotesInv, NotesTypeInv, OthersRest
<1>3. /\ local' = [j \in Kind |-> local'[j]] /\ local'[k] = File(t, p)
      /\ \A j \in Kind \ {k} : local'[j] = local[j]
  BY <1>1 DEF NotesInv, NotesTypeInv
<1>4. /\ File(t, p) # None /\ File(t, p).nonce = thread[t].nonce
      /\ File(t, p).value = thread[t].value /\ File(t, p).published = p
  BY <1>1, FileIsThere DEF NotesInv
<1>5. NotesTypeInv'
  BY <1>1, <1>2, <1>3, <1>4, KindOf DEF NotesInv, NotesTypeInv, Saving, OthersRest, wireVars
<1>6. \A u \in Thread \ {t} : /\ Holds(u)' <=> Holds(u)
                              /\ Saving(u)' <=> Saving(u)
                              /\ File(u, None)' = File(u, None) /\ Sent(u)' = Sent(u)
  BY <1>2 DEF Saving, Holds, File, Sent, Envelope, OthersRest
<1>7. \A u \in Thread \ {t} : Holds(u) => thread[u].kind \in Kind \ {k}
  BY DEF NotesInv, LockInv, Holds, Saving
<1>8. r # Idle => File(t, None)' = File(t, None)
  BY <1>2 DEF File
<1>9. noteNonce[k] = thread[t].nonce
  BY DEF NotesInv, LockInv
<1>10. LockInv'
  <2>1. \A u, v \in Thread : Holds(u)' /\ Holds(v)' /\ thread'[u].kind = thread'[v].kind => u = v
    <3>1. Holds(t)' => thread'[t].kind = k
      BY <1>2 DEF Holds, Saving
    <3>2. QED
      BY <1>2, <1>6, <1>7, <3>1 DEF NotesInv, LockInv, OthersRest
  <2>2. \A e \in out' : noteNonce'[e.kind] \in Nat /\ e.nonce <= noteNonce'[e.kind]
    BY DEF NotesInv, LockInv
  <2>3. ASSUME NEW u \in Thread \ {t}, Holds(u)'
        PROVE  /\ noteNonce'[thread'[u].kind] = thread'[u].nonce
               /\ thread'[u].at # "keep" => local'[thread'[u].kind] = File(u, None)'
    BY <1>2, <1>3, <1>6, <1>7, <2>3 DEF NotesInv, LockInv, OthersRest
  <2>4. Holds(t)' => /\ noteNonce'[thread'[t].kind] = thread'[t].nonce
                     /\ local'[thread'[t].kind] = File(t, None)'
    BY <1>2, <1>3, <1>8, <1>9 DEF Holds, Saving
  <2>5. LocalIsSource'
    <3> SUFFICES ASSUME NEW e \in out PROVE local'[e.kind] # None /\ local'[e.kind].nonce >= e.nonce
      BY DEF LocalIsSource
    <3>1. e.kind \in Kind
      BY DEF NotesInv, NotesTypeInv, Envelopes
    <3>2. CASE e.kind = k
      <4>1. e.nonce <= noteNonce[k] /\ noteNonce[k] \in Nat /\ e.nonce \in Nat
        BY <3>2 DEF NotesInv, LockInv, NotesTypeInv, Envelopes
      <4>2. QED
        BY <1>3, <1>4, <1>9, <3>2, <4>1
    <3>3. CASE e.kind # k
      BY <1>3, <3>1, <3>3 DEF NotesInv, LockInv, LocalIsSource
    <3>4. QED
      BY <3>2, <3>3
  <2>6. QED
    BY <2>1, <2>2, <2>3, <2>4, <2>5 DEF LockInv
<1>11. HeldInv'
  <2>1. PublishedWasHeld'
    <3>1. p = TRUE => Envelope(k, local'[k].value, local'[k].nonce) \in held
      BY <1>3, <1>4 DEF Sent
    <3>2. QED
      BY <1>3, <1>4, <3>1 DEF NotesInv, HeldInv, PublishedWasHeld, wireVars
  <2>2. Saving(t)' => thread'[t].ok # TRUE
    BY <1>2 DEF Saving
  <2>3. QED
    BY <1>2, <1>6, <2>1, <2>2 DEF NotesInv, HeldInv, OthersRest, wireVars
<1>12. AppliedWasSigned' /\ RiseInv'
  BY DEF NotesInv, AppliedWasSigned, RiseInv, wireVars
<1>13. QED
  BY <1>5, <1>10, <1>11, <1>12 DEF NotesInv

LEMMA KeepStep == ASSUME NotesInv, NEW t \in Thread, KeepFirst(t) PROVE NotesInv'
<1> DEFINE r == [thread[t] EXCEPT !.at = "put"]
<1>1. Saving(t) /\ thread[t].at = "keep" /\ thread[t] \in Save
  BY AtIsSaving, SavingIsSave DEF NotesInv, KeepFirst
<1>2. /\ r \in Save /\ r.kind = thread[t].kind /\ r.value = thread[t].value
      /\ r.nonce = thread[t].nonce /\ r.ok = thread[t].ok
  BY <1>1 DEF Save
<1>3. r.ok # TRUE
  BY <1>1, <1>2 DEF NotesInv, HeldInv
<1>4. Holds(t) /\ None \in Outcome
  BY <1>1 DEF Holds, Outcome
<1> None # TRUE
  BY NotesAssumption
<1>5. thread' = [thread EXCEPT ![t] = r]
  BY DEF KeepFirst, Goto
<1> HIDE DEF r
<1>6. QED
  BY <1>2, <1>3, <1>4, <1>5, FileStep DEF KeepFirst

LEMMA StoreStep == ASSUME NotesInv, NEW t \in Thread, StoreOutcome(t) PROVE NotesInv'
<1>1. Saving(t) /\ thread[t].at = "store"
  BY AtIsSaving DEF NotesInv, StoreOutcome
<1>2. thread[t].ok = TRUE => Sent(t) \in held
  BY <1>1 DEF NotesInv, HeldInv
<1>3. Holds(t) /\ thread[t].ok \in Outcome
  BY <1>1, OkIsOutcome DEF Holds, NotesInv
<1>4. QED
  BY <1>2, <1>3, FileStep DEF StoreOutcome, Answer

LEMMA PutStep ==
  ASSUME NotesInv, NEW t \in Thread, NEW arrives \in {"now", "later", "never"},
         NEW answer \in {"ok", "lost", "refused"}, PutNote(t, arrives, answer)
  PROVE  NotesInv'
<1> DEFINE k == thread[t].kind
           e == Sent(t)
           to == CASE answer = "ok" -> "confirm"
                   [] answer = "refused" -> "store"
                   [] answer = "lost" -> IF TriesAgain(thread[t].tries + 1) THEN "put" ELSE "store"
           n == thread[t].tries + 1
           r == [thread[t] EXCEPT !.tries = n, !.at = to]
<1>1. Saving(t) /\ thread[t].at = "put" /\ thread[t] \in Save /\ k \in Kind
         /\ thread[t].value \in Values[k] /\ thread[t].nonce \in Nat /\ thread[t].tries \in Nat
  BY AtIsSaving, SavingIsSave DEF NotesInv, PutNote
<1>2. to \in {"put", "confirm", "store"} /\ n \in Nat
  BY <1>1
<1>3. /\ thread' = [thread EXCEPT ![t] = r]
      /\ out' = out \cup {e} /\ late' \subseteq late \cup {e}
      /\ \/ slot' = [slot EXCEPT ![k] = e] /\ held' = held \cup {e} /\ putBack' = putBack \ {k}
         \/ UNCHANGED <<slot, held, putBack>>
      /\ UNCHANGED <<clock, noteNonce, local, applied>>
  BY <1>1, SentIsEnvelope DEF NotesInv, PutNote, Settle, Genuine
<1> HIDE DEF to, n
<1>4. /\ r \in Save /\ r.at = to /\ r.kind = k /\ r.value = thread[t].value
      /\ r.nonce = thread[t].nonce /\ r.ok = thread[t].ok
  BY <1>1, <1>2 DEF Save
<1>5. /\ e \in Envelopes /\ e.kind = k /\ e.nonce = thread[t].nonce /\ e.value \in Values[k]
      /\ e # Junk /\ e # None
  BY <1>1, SentIsEnvelope DEF NotesInv
<1>6. e = Envelope(k, thread[t].value, thread[t].nonce)
  BY DEF Sent
<1> HIDE DEF k, r, e
<1>7. thread' \in [Thread -> Save \cup Ask \cup {Idle}] /\ thread'[t] = r /\ OthersRest(t)
  BY <1>3, <1>4 DEF NotesInv, NotesTypeInv, OthersRest
<1>8. NotesTypeInv'
  <2>1. \A u \in Thread : thread'[u] # Idle /\ thread'[u].kind \in Kind =>
          thread'[u].value \in Values[thread'[u].kind]
    BY <1>1, <1>4, <1>7 DEF NotesInv, NotesTypeInv, OthersRest
  <2>2. slot' \in [Kind -> out' \cup {Junk, None}] /\ held' \subseteq out' /\ late' \subseteq out'
    BY <1>1, <1>3 DEF NotesInv, NotesTypeInv
  <2>3. out' \subseteq Envelopes /\ \A x \in out' : x.value \in Values[x.kind]
    BY <1>3, <1>5 DEF NotesInv, NotesTypeInv
  <2>4. QED
    BY <1>3, <1>7, <2>1, <2>2, <2>3 DEF NotesInv, NotesTypeInv
<1>9. \A u \in Thread : /\ Holds(u)' => Holds(u)
                        /\ Saving(u)' => Saving(u)
                        /\ File(u, None)' = File(u, None) /\ Sent(u)' = Sent(u)
                        /\ thread'[u].kind = thread[u].kind /\ thread'[u].nonce = thread[u].nonce
                        /\ thread'[u].ok = thread[u].ok
  <2>1. \A u \in Thread \ {t} : thread'[u] = thread[u]
    BY <1>7 DEF OthersRest
  <2>2. QED
    BY <1>1, <1>2, <1>4, <1>7, <2>1 DEF Saving, Holds, File, Sent, Envelope, k
<1>10. Holds(t)
  BY <1>1 DEF Holds
<1>11. noteNonce[k] = e.nonce /\ noteNonce[k] \in Nat /\ local[k] = File(t, None)
  BY <1>1, <1>5, <1>10 DEF NotesInv, LockInv, k
<1>12. LockInv'
  <2>1. \A u, v \in Thread : Holds(u)' /\ Holds(v)' /\ thread'[u].kind = thread'[v].kind => u = v
    BY <1>9 DEF NotesInv, LockInv
  <2>2. \A x \in out' : noteNonce'[x.kind] \in Nat /\ x.nonce <= noteNonce'[x.kind]
    BY <1>3, <1>5, <1>11 DEF NotesInv, LockInv
  <2>3. ASSUME NEW u \in Thread, Holds(u)'
        PROVE  /\ noteNonce'[thread'[u].kind] = thread'[u].nonce
               /\ thread'[u].at # "keep" => local'[thread'[u].kind] = File(u, None)'
    <3>1. CASE u = t
      BY <1>3, <1>5, <1>9, <1>11, <3>1 DEF k
    <3>2. CASE u # t
      BY <1>3, <1>7, <1>9, <2>3, <3>2 DEF NotesInv, LockInv, OthersRest
    <3>3. QED
      BY <3>1, <3>2
  <2>4. LocalIsSource'
    <3>1. local[k] # None /\ local[k].nonce = e.nonce
      BY <1>1, <1>5, <1>11, FileIsThere DEF NotesInv, Outcome
    <3>2. local[k].nonce >= e.nonce
      BY <1>11, <3>1
    <3>3. QED
      BY <1>3, <1>5, <3>1, <3>2 DEF NotesInv, LockInv, LocalIsSource
  <2>5. QED
    BY <2>1, <2>2, <2>3, <2>4 DEF LockInv
<1>13. HeldInv'
  <2>1. held \subseteq held'
    BY <1>3
  <2>2. \A j \in Kind : slot'[j] \notin {None, Junk} /\ slot'[j].kind = j => slot'[j] \in held'
    <3>1. CASE UNCHANGED <<slot, held>>
      BY <3>1 DEF NotesInv, HeldInv
    <3>2. CASE slot' = [slot EXCEPT ![k] = e] /\ held' = held \cup {e}
      BY <3>2 DEF NotesInv, NotesTypeInv, HeldInv
    <3>3. QED
      BY <1>3, <3>1, <3>2
  <2>3. \A u \in Thread : Saving(u)' /\ thread'[u].ok = TRUE => thread'[u].at = "store" /\ Sent(u)' \in held'
    <3>1. thread[t].ok # TRUE
      BY <1>1 DEF NotesInv, HeldInv
    <3>2. QED
      BY <1>7, <1>9, <2>1, <3>1 DEF NotesInv, HeldInv, OthersRest
  <2>4. PublishedWasHeld'
    BY <1>3, <2>1 DEF NotesInv, HeldInv, PublishedWasHeld
  <2>5. QED
    BY <2>2, <2>3, <2>4 DEF HeldInv
<1>14. AppliedWasSigned'
  BY <1>3 DEF NotesInv, AppliedWasSigned
<1>15. RiseInv'
  <2>1. CASE UNCHANGED <<slot, held, putBack>>
    BY <2>1 DEF NotesInv, RiseInv
  <2>2. CASE slot' = [slot EXCEPT ![k] = e] /\ held' = held \cup {e} /\ putBack' = putBack \ {k}
    <3> SUFFICES ASSUME NEW j \in Kind \ putBack', slot'[j] \notin {None, Junk}, slot'[j].kind = j,
                        NEW x \in held', x.kind = j
                 PROVE  x.nonce <= slot'[j].nonce
      BY DEF RiseInv
    <3>1. CASE j = k
      <4>1. slot'[j] = e
        BY <1>1, <2>2, <3>1 DEF NotesInv, NotesTypeInv
      <4>2. x = e \/ x.nonce <= noteNonce[k]
        BY <2>2, <3>1 DEF NotesInv, LockInv, NotesTypeInv
      <4>3. QED
        BY <1>11, <4>1, <4>2
    <3>2. CASE j # k
      <4>1. slot'[j] = slot[j] /\ j \notin putBack /\ x \in held
        BY <1>5, <2>2, <3>2 DEF NotesInv, NotesTypeInv
      <4>2. QED
        BY <4>1 DEF NotesInv, RiseInv
    <3>3. QED
      BY <3>1, <3>2
  <2>3. QED
    BY <1>3, <2>1, <2>2
<1>16. QED
  BY <1>8, <1>12, <1>13, <1>14, <1>15 DEF NotesInv
-----------------------------------------------------------------------------
(* The world around.                                                       *)

\* Someone, or a late write, puts an envelope that was sent, or junk, on a note.
LEMMA PutBackStep ==
  ASSUME NotesInv, NEW k \in Kind, NEW note \in out \cup {Junk}, SettleForeign(k, note),
         late' \subseteq late, UNCHANGED <<desk, noteNonce, local, out, applied>>
  PROVE  NotesInv'
<1> USE DEF desk
<1>1. note \in out \/ note = Junk
  OBVIOUS
<1>2. /\ slot' = [slot EXCEPT ![k] = note]
      /\ held' = IF Genuine(k, note) THEN held \cup {note} ELSE held
      /\ putBack' = IF SetsBack(k, note) THEN putBack \cup {k} ELSE putBack \ {k}
  BY DEF SettleForeign, Settle
<1>3. held' = held \/ (note \in out /\ held' = held \cup {note})
  BY <1>1, <1>2 DEF Genuine
<1>4. NotesTypeInv'
  BY <1>1, <1>2, <1>3 DEF NotesInv, NotesTypeInv
<1>5. LockInv'
  BY DEF NotesInv, LockInv, Holds, Saving, LocalIsSource, File
<1>6. HeldInv'
  <2>1. \A j \in Kind : slot'[j] \notin {None, Junk} /\ slot'[j].kind = j => slot'[j] \in held'
    <3>1. slot'[k] \notin {None, Junk} /\ slot'[k].kind = k => slot'[k] \in held'
      BY <1>2 DEF NotesInv, NotesTypeInv, Genuine
    <3>2. QED
      BY <1>2, <1>3, <3>1 DEF NotesInv, NotesTypeInv, HeldInv
  <2>2. QED
    BY <1>3, <2>1 DEF NotesInv, HeldInv, PublishedWasHeld, Saving, Sent, Envelope
<1>7. AppliedWasSigned'
  BY DEF NotesInv, AppliedWasSigned
<1>8. RiseInv'
  <2> SUFFICES ASSUME NEW j \in Kind \ putBack', slot'[j] \notin {None, Junk}, slot'[j].kind = j,
                      NEW e \in held', e.kind = j
               PROVE  e.nonce <= slot'[j].nonce
    BY DEF RiseInv
  <2>1. CASE j = k
    <3>1. slot'[k] = note /\ Genuine(k, note) /\ note.nonce \in Nat
      BY <1>1, <1>2, <2>1 DEF NotesInv, NotesTypeInv, Genuine, Envelopes
    <3>2. ~SetsBack(k, note)
      BY <1>2, <2>1
    <3>3. e = note \/ (e \in held /\ e.nonce \in Nat)
      BY <1>2, <3>1 DEF NotesInv, NotesTypeInv, Envelopes
    <3>4. QED
      BY <2>1, <3>1, <3>2, <3>3 DEF SetsBack
  <2>2. CASE j # k
    <3>1. slot'[j] = slot[j] /\ j \notin putBack
      BY <1>2, <2>2 DEF NotesInv, NotesTypeInv
    <3>2. e \in held
      BY <1>2, <2>2 DEF Genuine
    <3>3. QED
      BY <3>1, <3>2 DEF NotesInv, RiseInv
  <2>3. QED
    BY <2>1, <2>2
<1>9. QED
  BY <1>4, <1>5, <1>6, <1>7, <1>8 DEF NotesInv

LEMMA ReadStep == ASSUME NotesInv, NEW k \in Kind, NEW reads \in BOOLEAN, ReadNote(k, reads) PROVE NotesInv'
<1> USE DEF desk, wireVars
<1> DEFINE got == [slot[k] EXCEPT !.value = AgentGets(k, @)]
<1>1. UNCHANGED <<clock, thread, noteNonce, local, slot, late, held, putBack, out>>
  BY DEF ReadNote
<1>2. \/ applied' = [applied EXCEPT ![k] = None]
      \/ Verified(k, slot[k]) /\ applied' = [applied EXCEPT ![k] = got]
  BY DEF ReadNote
<1>3. applied' = [j \in Kind |-> applied'[j]] /\ \A j \in Kind \ {k} : applied'[j] = applied[j]
  BY <1>2 DEF NotesInv, NotesTypeInv
<1>4. NotesTypeInv'
  BY <1>1, <1>3 DEF NotesInv, NotesTypeInv
<1>5. LockInv' /\ HeldInv'
  BY <1>1 DEF NotesInv, LockInv, Holds, Saving, LocalIsSource, File, HeldInv, PublishedWasHeld, Sent, Envelope
<1>6. applied'[k] # None =>
        /\ slot[k] \in out /\ slot[k].kind = k
        /\ applied'[k].nonce = slot[k].nonce /\ slot[k].nonce \in Nat
        /\ applied'[k].value = AgentGets(k, slot[k].value)
  <2>1. CASE applied' = [applied EXCEPT ![k] = None]
    BY <2>1 DEF NotesInv, NotesTypeInv
  <2>2. CASE Verified(k, slot[k]) /\ applied' = [applied EXCEPT ![k] = got]
    <3>1. slot[k] \in out /\ slot[k].kind = k /\ applied'[k] = got
      BY <2>2 DEF Verified, NotesInv, NotesTypeInv
    <3>2. slot[k] \in Envelopes
      BY <3>1 DEF NotesInv, NotesTypeInv
    <3>3. /\ got.nonce = slot[k].nonce /\ got.value = AgentGets(k, slot[k].value)
          /\ slot[k].nonce \in Nat
      BY <3>2 DEF Envelopes
    <3>4. QED
      BY <3>1, <3>3
  <2>3. QED
    BY <1>2, <2>1, <2>2
<1>7. AppliedWasSigned'
  BY <1>1, <1>3, <1>6 DEF NotesInv, AppliedWasSigned
<1>8. RiseInv'
  BY <1>1 DEF NotesInv, RiseInv
<1>9. QED
  BY <1>4, <1>5, <1>7, <1>8 DEF NotesInv

\* The process dies: its threads are gone.
LEMMA DieStep == NotesInv /\ Die /\ UNCHANGED notes => NotesInv'
<1> SUFFICES ASSUME NotesInv, Die, UNCHANGED notes PROVE NotesInv'
  OBVIOUS
<1>1. \A t \in Thread : ~Saving(t)' /\ ~Holds(t)'
  BY DEF Die, Saving, Holds
<1>2. thread' \in [Thread -> {Idle}] /\ UNCHANGED clock
  BY DEF Die
<1>3. NotesTypeInv'
  BY <1>2 DEF NotesInv, NotesTypeInv, notes, wireVars
<1>4. LockInv' /\ HeldInv'
  BY <1>1 DEF NotesInv, LockInv, HeldInv, LocalIsSource, PublishedWasHeld, notes, wireVars
<1>5. AppliedWasSigned' /\ RiseInv'
  BY DEF NotesInv, AppliedWasSigned, RiseInv, notes, wireVars
<1>6. QED
  BY <1>3, <1>4, <1>5 DEF NotesInv

\* The file cannot be written: the thread is idle again, with what it had done.
LEMMA CannotKeepStep == ASSUME NotesInv, NEW t \in Thread, CannotKeep(t) PROVE NotesInv'
<1>1. /\ thread' \in [Thread -> Save \cup Ask \cup {Idle}] /\ thread'[t] = Idle /\ OthersRest(t)
      /\ clock' \in Nat /\ UNCHANGED notes
  BY DEF CannotKeep, Answer, NotesInv, NotesTypeInv, OthersRest
<1>2. ~Saving(t)' /\ ~Holds(t)'
  BY <1>1 DEF Saving, Holds
<1>3. QED
  BY <1>1, <1>2, ThreadStep

LEMMA SaveSteps == ASSUME NotesInv, NEW t \in Thread, SaveStep(t) PROVE NotesInv'
BY SignStep, KeepStep, PutStep, ConfirmStep, StoreStep, CannotKeepStep DEF SaveStep

LEMMA OverwriteStep ==
  ASSUME NotesInv, NEW k \in Kind, NEW note \in {Junk} \cup held, Overwrite(k, note)
  PROVE  NotesInv'
<1>1. note \in out \cup {Junk}
  BY DEF NotesInv, NotesTypeInv
<1>2. QED
  BY <1>1, PutBackStep DEF Overwrite

LEMMA ArriveStep == ASSUME NotesInv, NEW e \in late, ArriveLate(e) PROVE NotesInv'
<1>1. e \in out \cup {Junk} /\ e.kind \in Kind
  BY DEF NotesInv, NotesTypeInv, Envelopes
<1>2. QED
  BY <1>1, PutBackStep DEF ArriveLate

LEMMA NotesInvInit == DeskInit /\ NotesInit => NotesInv
<1> SUFFICES ASSUME DeskInit, NotesInit PROVE NotesInv
  OBVIOUS
<1>1. \A t \in Thread : ~Saving(t) /\ ~Holds(t)
  BY DEF DeskInit, Saving, Holds
<1>2. thread \in [Thread -> {Idle}] /\ clock = 1
  BY DEF DeskInit
<1>3. NotesTypeInv
  BY <1>2 DEF NotesInit, NotesTypeInv
<1>4. LockInv /\ HeldInv
  BY <1>1 DEF NotesInit, LockInv, HeldInv, LocalIsSource, PublishedWasHeld
<1>5. AppliedWasSigned /\ RiseInv
  BY NotesAssumption DEF NotesInit, AppliedWasSigned, RiseInv
<1>6. QED
  BY <1>3, <1>4, <1>5 DEF NotesInv

LEMMA NotesInvStep == NotesInv /\ [NotesNext]_notesVars => NotesInv'
<1> SUFFICES ASSUME NotesInv, [NotesNext]_notesVars PROVE NotesInv'
  OBVIOUS
<1>1. CASE UNCHANGED notesVars
  BY <1>1 DEF notesVars, notes, wireVars, desk, NotesInv, NotesTypeInv, LockInv, HeldInv, LocalIsSource,
              PublishedWasHeld, AppliedWasSigned, RiseInv, Holds, Saving, File, Sent, Envelope
<1>2. QED
  BY <1>1, BeginStep, SaveSteps, ArriveStep, OverwriteStep, ReadStep, DieStep DEF NotesNext
-----------------------------------------------------------------------------
(* What follows for the notes.                                             *)

\* The local files are never behind what left the machine, and claim as
\* published only what its note held.
THEOREM FilesAreHonest == NotesSpec => []LocalIsHonest
<1>1. NotesInv => LocalIsHonest
  BY DEF NotesInv, LockInv, HeldInv, LocalIsHonest
<1>2. QED
  BY <1>1, NotesInvInit, NotesInvStep, PTL DEF NotesSpec

\* The gateway takes from a note only what the owner signed for that note.
THEOREM OnlySignedIsApplied == NotesSpec => []AppliedWasSigned
<1>1. NotesInv => AppliedWasSigned
  BY DEF NotesInv
<1>2. QED
  BY <1>1, NotesInvInit, NotesInvStep, PTL DEF NotesSpec

\* What the gateway takes from a note is the newest the note ever held, whichever
\* saves race, are tried again or die, and whatever was done to the note before,
\* unless the note holds what a stranger or a late write put over a newer one.
THEOREM NewestIsApplied == NotesSpec => AppliedIsNewest
<1>1. NotesInv /\ [NotesNext]_notesVars =>
        [\A k \in Kind \ putBack' : applied'[k] \notin {None, applied[k]}
           => \A e \in held' : e.kind = k => e.nonce <= applied'[k].nonce]_notesVars
  <2> SUFFICES ASSUME NotesInv, NotesNext, NEW k \in Kind \ putBack',
                      applied'[k] \notin {None, applied[k]}, NEW e \in held', e.kind = k
               PROVE  e.nonce <= applied'[k].nonce
    OBVIOUS
  <2>1. ASSUME NEW j \in Kind, NEW reads \in BOOLEAN, ReadNote(j, reads)
        PROVE  e.nonce <= applied'[k].nonce
    <3>1. k \notin putBack /\ e \in held
      BY <2>1 DEF ReadNote, wireVars
    <3>2. Verified(k, slot[k]) /\ applied'[k] = [slot[k] EXCEPT !.value = AgentGets(k, @)]
      BY <2>1 DEF ReadNote, NotesInv, NotesTypeInv
    <3>3. slot[k] \in Envelopes
      BY <3>2 DEF Verified, NotesInv, NotesTypeInv
    <3>4. applied'[k].nonce = slot[k].nonce
      BY <3>2, <3>3 DEF Envelopes
    <3>5. e.nonce <= slot[k].nonce
      BY <3>1, <3>2 DEF Verified, NotesInv, RiseInv
    <3>6. QED
      BY <3>4, <3>5
  <2>2. applied' = applied
        \/ \E j \in Kind, reads \in BOOLEAN : ReadNote(j, reads)
    BY DEF NotesNext, BeginSave, notes, SaveStep, SignNote, KeepFirst, StoreOutcome, CannotKeep,
       ConfirmNote, PutNote, ArriveLate, Overwrite
  <2>3. QED
    BY <2>1, <2>2
<1>2. QED
  BY <1>1, NotesInvInit, NotesInvStep, PTL DEF NotesSpec, AppliedIsNewest
-----------------------------------------------------------------------------
(* The types of the notes.                                                 *)

\* What the steps of a save say of the attempts it has made.
TriesFit(t) ==
  Saving(t) =>
    /\ thread[t].tries <= Attempts
    /\ thread[t].at \in {"wait", "keep"} => thread[t].tries = 0
    /\ thread[t].at = "put" => thread[t].tries < Attempts

\* The bounds of nonces and attempts, and the outcomes the files know.
BoundInv ==
  /\ noteNonce \in [Kind -> Nonces \cup {None}]
  /\ \A k \in Kind : local[k] # None => local[k].published \in Outcome
  /\ \A e \in out : e.nonce \in Nonces
  /\ \A t \in Thread : TriesFit(t)

\* One thread goes on, and nothing else that has a bound changes.
LEMMA BoundRests ==
  ASSUME BoundInv, UNCHANGED <<noteNonce, local, out>>,
         NEW t \in Thread, OthersRest(t), TriesFit(t)'
  PROVE  BoundInv'
<1>1. \A u \in Thread : TriesFit(u)'
  BY DEF BoundInv, OthersRest, TriesFit, Saving
<1>2. QED
  BY <1>1 DEF BoundInv

LEMMA BoundBegin ==
  ASSUME NotesInv, BoundInv, NEW t \in Thread, NEW k \in Kind, NEW v \in Values[k],
         BeginSave(t, k, v)
  PROVE  BoundInv'
<1>1. /\ thread'[t].tries = 0 /\ thread'[t].at = "wait" /\ OthersRest(t)
      /\ UNCHANGED <<noteNonce, local, out>>
  BY DEF BeginSave, notes, OthersRest, NotesInv, NotesTypeInv
<1>2. TriesFit(t)'
  BY <1>1, NotesAssumption DEF TriesFit
<1>3. QED
  BY <1>1, <1>2, BoundRests

LEMMA BoundSign ==
  ASSUME NotesInv, BoundInv, NEW t \in Thread, SignNote(t)
  PROVE  BoundInv'
<1> DEFINE k == thread[t].kind
           n == NextNonce(noteNonce[k])
<1>1. /\ Saving(t) /\ thread[t].at = "wait" /\ thread[t] \in Save /\ k \in Kind
      /\ thread[t].tries = 0
  BY AtIsSaving, SavingIsSave DEF SignNote, NotesInv, BoundInv, TriesFit
<1>2. n \in Nonces
  <2>1. noteNonce[k] \in Nat \cup {None} /\ clock \in Nat
    BY <1>1 DEF NotesInv, NotesTypeInv
  <2>2. n \in Nat /\ n >= 1
    BY <2>1, DeskAssumption DEF NextNonce
  <2>3. n <= MaxSaves + 1 /\ MaxSaves \in Nat
    BY NotesAssumption DEF SignNote
  <2>4. QED
    BY <2>2, <2>3 DEF Nonces
<1>3. noteNonce' = [noteNonce EXCEPT ![k] = n] /\ local' = local /\ out' = out
  BY DEF SignNote
<1>4. /\ OthersRest(t)
      /\ thread'[t] = Idle \/ (thread'[t].at = "keep" /\ thread'[t].tries = thread[t].tries)
  BY <1>1 DEF SignNote, Answer, OthersRest, NotesInv, NotesTypeInv, Save
<1> HIDE DEF n, k
<1>5. noteNonce' \in [Kind -> Nonces \cup {None}]
  BY <1>1, <1>2, <1>3 DEF BoundInv
<1>6. TriesFit(t)'
  BY <1>1, <1>4, NotesAssumption DEF TriesFit, Saving
<1>7. \A u \in Thread : TriesFit(u)'
  BY <1>4, <1>6 DEF BoundInv, OthersRest, TriesFit, Saving
<1>8. QED
  BY <1>3, <1>5, <1>7 DEF BoundInv

\* The file is written, before or after the note.
LEMMA BoundFile ==
  ASSUME NotesInv, BoundInv, NEW t \in Thread, Saving(t), NEW p \in Outcome,
         local' = [local EXCEPT ![thread[t].kind] = File(t, p)],
         noteNonce' = noteNonce, out' = out, OthersRest(t), TriesFit(t)'
  PROVE  BoundInv'
<1>1. thread[t].kind \in Kind /\ File(t, p).published = p
  BY SavingIsSave, FileIsThere DEF NotesInv
<1>2. \A k \in Kind : local'[k] # None => local'[k].published \in Outcome
  BY <1>1 DEF BoundInv, NotesInv, NotesTypeInv
<1>3. \A u \in Thread : TriesFit(u)'
  BY DEF BoundInv, OthersRest, TriesFit, Saving
<1>4. QED
  BY <1>2, <1>3 DEF BoundInv

LEMMA BoundKeep ==
  ASSUME NotesInv, BoundInv, NEW t \in Thread, KeepFirst(t) \/ StoreOutcome(t)
  PROVE  BoundInv'
<1>1. /\ Saving(t) /\ thread[t] \in Save /\ thread[t].ok \in Outcome
  BY AtIsSaving, SavingIsSave, OkIsOutcome DEF KeepFirst, StoreOutcome, NotesInv
<1>2. noteNonce' = noteNonce /\ out' = out
  BY DEF KeepFirst, StoreOutcome
<1>3. CASE KeepFirst(t)
  <2>1. thread[t].at = "keep" /\ thread[t].tries = 0
    BY <1>1, <1>3 DEF KeepFirst, At, BoundInv, TriesFit
  <2>2. OthersRest(t) /\ thread'[t].at = "put" /\ thread'[t].tries = thread[t].tries
    BY <1>1, <1>3 DEF KeepFirst, Goto, OthersRest, NotesInv, NotesTypeInv, Save
  <2>3. TriesFit(t)'
    BY <2>1, <2>2, NotesAssumption DEF TriesFit
  <2>4. None \in Outcome /\ local' = [local EXCEPT ![thread[t].kind] = File(t, None)]
    BY <1>3 DEF KeepFirst, Outcome
  <2>5. QED
    BY <1>1, <1>2, <2>2, <2>3, <2>4, BoundFile
<1>4. CASE StoreOutcome(t)
  <2>1. OthersRest(t) /\ thread'[t] = Idle
    BY <1>4 DEF StoreOutcome, Answer, OthersRest, NotesInv, NotesTypeInv
  <2>2. TriesFit(t)'
    BY <2>1 DEF TriesFit, Saving
  <2>3. local' = [local EXCEPT ![thread[t].kind] = File(t, thread[t].ok)]
    BY <1>4 DEF StoreOutcome
  <2>4. QED
    BY <1>1, <1>2, <2>1, <2>2, <2>3, BoundFile
<1>5. QED
  BY <1>3, <1>4

LEMMA BoundPut ==
  ASSUME NotesInv, BoundInv, NEW t \in Thread, NEW arrives,
         NEW answer \in {"ok", "lost", "refused"}, PutNote(t, arrives, answer)
  PROVE  BoundInv'
<1>1. /\ Saving(t) /\ Holds(t) /\ thread[t].at = "put" /\ thread[t] \in Save
      /\ thread[t].kind \in Kind /\ thread[t].nonce \in Nat
      /\ thread[t].tries \in Nat /\ thread[t].tries < Attempts
  BY AtIsSaving, SavingIsSave DEF PutNote, NotesInv, BoundInv, TriesFit, Holds
<1>2. Sent(t).nonce \in Nonces
  <2>1. Sent(t).nonce = thread[t].nonce /\ noteNonce[thread[t].kind] = thread[t].nonce
    BY <1>1, SentIsEnvelope DEF NotesInv, LockInv
  <2>2. QED
    BY <1>1, <2>1, DeskAssumption DEF BoundInv
<1>3. out' = out \cup {Sent(t)} /\ noteNonce' = noteNonce /\ local' = local
  BY DEF PutNote
<1> DEFINE next == CASE answer = "ok" -> "confirm"
                     [] answer = "refused" -> "store"
                     [] answer = "lost" -> IF TriesAgain(thread[t].tries + 1) THEN "put" ELSE "store"
<1>4. /\ next \in {"confirm", "store", "put"}
      /\ next = "put" => thread[t].tries + 1 < Attempts
  BY DEF TriesAgain
<1>5. thread' = [thread EXCEPT ![t].tries = @ + 1, ![t].at = next]
  BY DEF PutNote
<1> HIDE DEF next
<1>6. OthersRest(t) /\ thread'[t].at = next /\ thread'[t].tries = thread[t].tries + 1
  BY <1>1, <1>5 DEF OthersRest, NotesInv, NotesTypeInv, Save
<1>7. TriesFit(t)'
  BY <1>1, <1>4, <1>6, NotesAssumption DEF TriesFit
<1>8. \A u \in Thread : TriesFit(u)'
  BY <1>6, <1>7 DEF BoundInv, OthersRest, TriesFit, Saving
<1>9. \A e \in out' : e.nonce \in Nonces
  BY <1>2, <1>3 DEF BoundInv
<1>10. QED
  BY <1>3, <1>8, <1>9 DEF BoundInv

LEMMA BoundConfirm ==
  ASSUME NotesInv, BoundInv, NEW t \in Thread, NEW reads \in BOOLEAN, ConfirmNote(t, reads)
  PROVE  BoundInv'
<1>1. Saving(t) /\ thread[t] \in Save
  BY AtIsSaving, SavingIsSave DEF ConfirmNote, NotesInv
<1>2. /\ OthersRest(t) /\ thread'[t].at = "store" /\ thread'[t].tries = thread[t].tries
      /\ UNCHANGED <<noteNonce, local, out>>
  BY <1>1 DEF ConfirmNote, OthersRest, NotesInv, NotesTypeInv, Save, notes
<1>3. TriesFit(t)'
  BY <1>1, <1>2 DEF BoundInv, TriesFit
<1>4. QED
  BY <1>2, <1>3, BoundRests

LEMMA BoundSave ==
  ASSUME NotesInv, BoundInv, NEW t \in Thread, SaveStep(t)
  PROVE  BoundInv'
<1>1. CASE CannotKeep(t)
  <2>1. OthersRest(t) /\ ~Saving(t)' /\ UNCHANGED <<noteNonce, local, out>>
    BY <1>1 DEF CannotKeep, Answer, notes, OthersRest, Saving, NotesInv, NotesTypeInv
  <2>2. QED
    BY <2>1, BoundRests DEF TriesFit
<1>2. QED
  BY <1>1, BoundSign, BoundKeep, BoundPut, BoundConfirm DEF SaveStep

\* No save goes on.
LEMMA BoundQuiet ==
  ASSUME BoundInv, UNCHANGED <<noteNonce, local, out>>,
         \A t \in Thread : thread'[t] = thread[t] \/ ~Saving(t)'
  PROVE  BoundInv'
<1>1. \A t \in Thread : TriesFit(t)'
  BY DEF BoundInv, TriesFit, Saving
<1>2. QED
  BY <1>1 DEF BoundInv

LEMMA BoundInit == DeskInit /\ NotesInit => BoundInv
BY DEF DeskInit, NotesInit, BoundInv, TriesFit, Saving

LEMMA BoundStep == NotesInv /\ BoundInv /\ [NotesNext]_notesVars => BoundInv'
<1> SUFFICES ASSUME NotesInv, BoundInv, [NotesNext]_notesVars PROVE BoundInv'
  OBVIOUS
<1>1. CASE \/ \E e \in late : ArriveLate(e)
           \/ \E k \in Kind, note \in {Junk} \cup held : Overwrite(k, note)
           \/ \E k \in Kind, reads \in BOOLEAN : ReadNote(k, reads)
           \/ UNCHANGED notesVars
  <2>1. UNCHANGED <<noteNonce, local, out, thread>>
    BY <1>1 DEF ArriveLate, Overwrite, ReadNote, notesVars, notes, desk
  <2>2. QED
    BY <2>1, BoundQuiet
<1>2. CASE Die /\ UNCHANGED notes
  BY <1>2, BoundQuiet DEF Die, notes, Saving
<1>3. QED
  BY <1>1, <1>2, BoundBegin, BoundSave DEF NotesNext

LEMMA NotesTyped == NotesInv /\ BoundInv => NotesTypeOK
<1> SUFFICES ASSUME NotesInv, BoundInv PROVE NotesTypeOK
  OBVIOUS
<1>1. ASSUME NEW t \in Thread, thread[t] # Idle, thread[t].kind \in Kind
      PROVE  /\ thread[t].at \in {"wait", "keep", "put", "confirm", "store"}
             /\ thread[t].value \in Values[thread[t].kind]
             /\ thread[t].tries \in 0 .. Attempts
  <2>1. Saving(t)
    BY <1>1 DEF Saving
  <2>2. thread[t] \in Save /\ thread[t].tries \in Nat /\ thread[t].value \in Values[thread[t].kind]
    BY <2>1, SavingIsSave DEF NotesInv
  <2>3. thread[t].tries <= Attempts
    BY <2>1 DEF BoundInv, TriesFit
  <2>4. QED
    BY <2>2, <2>3, NotesAssumption DEF Save
<1>2. QED
  BY <1>1 DEF NotesTypeOK, NotesInv, NotesTypeInv, BoundInv, Envelopes

-----------------------------------------------------------------------------
(* The panel.                                                              *)

\* A record that says live is of what the cloud runs.
CloudInv ==
  /\ agentFile \in Agent \cup {None}
  /\ cloud \in Runnings
  /\ deployFile \notin {None, Deploying, Junk} =>
       cloud # None /\ deployFile = Promise!Live(cloud.agent, cloud.setting)
  /\ health \in reports \cup {None, Junk}

Asks(t) == thread[t] # Idle /\ thread[t].kind = "panel"

\* What an answer in progress has read so far.
AskInv ==
  \A t \in Thread : Asks(t) =>
    /\ thread[t].latest = thread[t].mine
    /\ thread[t].at # "record" =>
         /\ thread[t].deployed \in Setting \cup {Absent, Unknown}
         /\ thread[t].deployed \in Setting =>
              thread[t].ran = Runs(thread[t].linked, thread[t].deployed)
    /\ thread[t].at = "health" =>
         /\ thread[t].note \in {thread[t].noteWas, Unknown}
         /\ thread[t].noteWas \in Setting \cup {Absent}

PanelInv == NotesInv /\ CloudInv /\ AskInv

LEMMA Marks ==
  /\ Absent \notin Setting /\ Unknown \notin Setting /\ None \notin Setting
  /\ Absent # Unknown /\ Absent # None /\ Unknown # None
BY PanelAssumption

\* A verified note of the settings holds a setting.
LEMMA SlotHoldsSetting == NotesInv /\ Verified("config", slot["config"]) => slot["config"].value \in Setting
BY DEF NotesInv, NotesTypeInv, Verified, Kind, Setting

\* The newest save is in the file, so what the panel reads there is the newest.
LEMMA LatestIsMine ==
  NotesInv => OwnersLatest = IF local["config"] = None THEN None ELSE local["config"].value
<1> SUFFICES ASSUME NotesInv PROVE OwnersLatest = IF local["config"] = None THEN None ELSE local["config"].value
  OBVIOUS
<1> DEFINE mine == {e \in out : e.kind = "config"}
<1>1. \A e \in mine : local["config"] # None /\ local["config"].nonce >= e.nonce
  BY DEF NotesInv, LockInv, LocalIsSource
<1>2. local["config"] = None => mine = {}
  BY <1>1
<1>3. QED
  BY <1>1, <1>2 DEF OwnersLatest

\* A step of an answer: one thread asks, goes on asking or is done.
LEMMA AskStep ==
  ASSUME PanelInv, NEW t \in Thread, NEW r \in Ask \cup {Idle},
         thread' = [thread EXCEPT ![t] = r], UNCHANGED <<clock, notes, panel>>,
         r # Idle =>
           /\ r.latest = r.mine
           /\ r.at # "record" =>
                /\ r.deployed \in Setting \cup {Absent, Unknown}
                /\ r.deployed \in Setting => r.ran = Runs(r.linked, r.deployed)
           /\ r.at = "health" =>
                r.note \in {r.noteWas, Unknown} /\ r.noteWas \in Setting \cup {Absent}
  PROVE  PanelInv'
<1>1. thread' \in [Thread -> Save \cup Ask \cup {Idle}] /\ thread'[t] = r /\ OthersRest(t)
  BY DEF PanelInv, NotesInv, NotesTypeInv, OthersRest
<1>2. ~Saving(t)' /\ ~Holds(t)'
  BY <1>1, KindOf DEF Saving, Holds
<1>3. NotesInv'
  BY <1>1, <1>2, ThreadStep DEF PanelInv, NotesInv, NotesTypeInv
<1>4. CloudInv'
  BY DEF PanelInv, CloudInv, panel, Promise!Live
<1>5. AskInv'
  BY <1>1 DEF PanelInv, AskInv, Asks, OthersRest
<1>6. QED
  BY <1>3, <1>4, <1>5 DEF PanelInv

\* A thread that asks.
LEMMA AskingIsAsk ==
  ASSUME NotesInv, NEW t \in Thread, NEW step \in {"record", "slot", "health"}, At(t, step)
  PROVE  Asks(t) /\ thread[t] \in Ask /\ thread[t].at = step
BY DEF NotesInv, NotesTypeInv, At, Asks, Save, Ask

LEMMA AskPanelStep == ASSUME PanelInv, NEW t \in Thread, AskPanel(t) PROVE PanelInv'
<1> DEFINE mine == IF local["config"] = None THEN None ELSE local["config"].value
           r == [at |-> "record", kind |-> "panel", latest |-> OwnersLatest, mine |-> mine,
                 deployed |-> None, linked |-> None, ran |-> None, note |-> None, noteWas |-> None]
<1>1. OwnersLatest = mine /\ mine \in Readings
  BY LatestIsMine DEF PanelInv, NotesInv, NotesTypeInv, Readings, Setting, Kind
<1> HIDE DEF mine
<1>2. r \in Ask /\ r.latest = r.mine /\ r.at = "record"
  BY <1>1 DEF Ask, Readings, Runnings
<1>3. thread' = [thread EXCEPT ![t] = r] /\ UNCHANGED <<clock, notes, panel>>
  BY DEF AskPanel, mine
<1> HIDE DEF r
<1>4. QED
  BY <1>2, <1>3, AskStep

LEMMA ReadRecordStep == ASSUME PanelInv, NEW t \in Thread, ReadRecord(t) PROVE PanelInv'
<1> DEFINE d == Deployed(agentFile, deployFile)
           r == [thread[t] EXCEPT !.at = "slot", !.deployed = d, !.linked = agentFile, !.ran = cloud]
<1>1. Asks(t) /\ thread[t] \in Ask
  BY AskingIsAsk DEF PanelInv, ReadRecord
<1>2. d \in Setting \cup {Absent, Unknown} /\ (d \in Setting => cloud = Runs(agentFile, d))
  <2>1. CASE deployFile = Junk
    BY <2>1, Marks DEF Deployed
  <2>2. CASE deployFile # Junk /\ (deployFile \in {None, Deploying} \/ agentFile = None \/ deployFile.did # agentFile)
    BY <2>2, Marks DEF Deployed
  <2>3. CASE /\ deployFile # Junk
             /\ ~(deployFile \in {None, Deploying} \/ agentFile = None \/ deployFile.did # agentFile)
    <3>1. /\ cloud \in [agent : Agent, setting : Setting]
          /\ deployFile = Promise!Live(cloud.agent, cloud.setting)
      BY <2>3 DEF PanelInv, CloudInv, Runnings
    <3>2. deployFile.did = cloud.agent /\ deployFile.setting = cloud.setting
      BY <3>1 DEF Promise!Live
    <3>3. d = cloud.setting /\ agentFile = cloud.agent
      BY <2>3, <3>2 DEF Deployed
    <3>4. QED
      BY <3>1, <3>3 DEF Runs
  <2>4. QED
    BY <2>1, <2>2, <2>3
<1>3. agentFile \in Agent \cup {None} /\ cloud \in Runnings
  BY DEF PanelInv, CloudInv
<1>4. thread' = [thread EXCEPT ![t] = r] /\ UNCHANGED <<clock, notes, panel>>
  BY DEF ReadRecord
<1> HIDE DEF d
<1>5. /\ r \in Ask /\ r.at = "slot" /\ r.deployed = d /\ r.linked = agentFile /\ r.ran = cloud
      /\ r.latest = thread[t].latest /\ r.mine = thread[t].mine
  BY <1>1, <1>2, <1>3 DEF Ask, Readings
<1>6. r.latest = r.mine
  BY <1>1, <1>5 DEF PanelInv, AskInv
<1> HIDE DEF r
<1>7. QED
  BY <1>2, <1>4, <1>5, <1>6, AskStep

LEMMA ReadSlotStep ==
  ASSUME PanelInv, NEW t \in Thread, NEW reads \in BOOLEAN, ReadSlot(t, reads)
  PROVE  PanelInv'
<1> DEFINE note == SlotConfig(slot["config"], reads)
           was == IF Verified("config", slot["config"]) THEN slot["config"].value ELSE Absent
           r == [thread[t] EXCEPT !.at = "health", !.note = note, !.noteWas = was]
<1>1. Asks(t) /\ thread[t] \in Ask /\ thread[t].at = "slot"
  BY AskingIsAsk DEF PanelInv, ReadSlot
<1>2. was \in Setting \cup {Absent} /\ note \in {was, Unknown}
  BY SlotHoldsSetting DEF PanelInv, SlotConfig
<1>3. thread' = [thread EXCEPT ![t] = r] /\ UNCHANGED <<clock, notes, panel>>
  BY DEF ReadSlot
<1> HIDE DEF note, was
<1>4. /\ r \in Ask /\ r.at = "health" /\ r.note = note /\ r.noteWas = was
      /\ r.latest = thread[t].latest /\ r.mine = thread[t].mine
      /\ r.deployed = thread[t].deployed /\ r.linked = thread[t].linked /\ r.ran = thread[t].ran
  BY <1>1, <1>2 DEF Ask, Readings
<1>5. /\ r.latest = r.mine /\ r.deployed \in Setting \cup {Absent, Unknown}
      /\ r.deployed \in Setting => r.ran = Runs(r.linked, r.deployed)
  BY <1>1, <1>4 DEF PanelInv, AskInv
<1> HIDE DEF r
<1>6. QED
  BY <1>2, <1>3, <1>4, <1>5, AskStep

\* A step of the notes leaves the panel and its answers alone.
LEMMA SaveBesidePanel ==
  ASSUME PanelInv, NotesInv', UNCHANGED panel,
         \A t \in Thread : Asks(t)' => Asks(t) /\ thread'[t] = thread[t]
  PROVE  PanelInv'
<1>1. CloudInv'
  BY DEF PanelInv, CloudInv, panel, Promise!Live
<1>2. AskInv'
  BY DEF PanelInv, AskInv
<1>3. QED
  BY <1>1, <1>2 DEF PanelInv

\* A save is no answer, and stays none.
LEMMA SavesDoNotAsk ==
  ASSUME NotesInv, NEW t \in Thread,
         SaveStep(t) \/ \E k \in Kind : \E v \in Values[k] : BeginSave(t, k, v)
  PROVE  \A u \in Thread : Asks(u)' => Asks(u) /\ thread'[u] = thread[u]
<1>1. ASSUME NEW k \in Kind, NEW v \in Values[k], BeginSave(t, k, v)
      PROVE  ~Asks(t)' /\ OthersRest(t)
  BY <1>1 DEF BeginSave, Asks, OthersRest, NotesInv, NotesTypeInv, Kind
<1>2. ASSUME SaveStep(t)
      PROVE  ~Asks(t)' /\ OthersRest(t)
  <2>1. Saving(t) /\ thread[t] \in Save
    BY <1>2, AtIsSaving, SavingIsSave
       DEF SaveStep, SignNote, KeepFirst, StoreOutcome, CannotKeep, ConfirmNote, PutNote, NotesInv
  <2>2. OthersRest(t)
    BY <1>2 DEF SaveStep, SignNote, KeepFirst, StoreOutcome, CannotKeep, ConfirmNote, PutNote,
                Goto, Answer, OthersRest, NotesInv, NotesTypeInv
  <2>3. thread'[t] = Idle \/ thread'[t].kind = thread[t].kind
    <3>1. ASSUME NEW a, NEW b
          PROVE  /\ [thread[t] EXCEPT !.at = a].kind = thread[t].kind
                 /\ [thread[t] EXCEPT !.at = a, !.nonce = b].kind = thread[t].kind
                 /\ [thread[t] EXCEPT !.at = a, !.ok = b].kind = thread[t].kind
                 /\ [thread[t] EXCEPT !.tries = b, !.at = a].kind = thread[t].kind
      BY <2>1 DEF Save
    <3>2. CASE SignNote(t)
      <4> DEFINE n == NextNonce(noteNonce[thread[t].kind])
      <4>1. Answer(t) \/ thread' = [thread EXCEPT ![t] = [thread[t] EXCEPT !.at = "keep", !.nonce = n]]
        BY <3>2 DEF SignNote
      <4> HIDE DEF n
      <4>2. [thread[t] EXCEPT !.at = "keep", !.nonce = n].kind = thread[t].kind
        BY <3>1
      <4>3. QED
        BY <4>1, <4>2 DEF Answer, NotesInv, NotesTypeInv
    <3>3. CASE KeepFirst(t) \/ StoreOutcome(t) \/ CannotKeep(t)
      <4>1. [thread[t] EXCEPT !.at = "put"].kind = thread[t].kind
        BY <3>1
      <4>2. QED
        BY <3>3, <4>1 DEF KeepFirst, StoreOutcome, CannotKeep, Goto, Answer, NotesInv, NotesTypeInv
    <3>4. ASSUME NEW reads \in BOOLEAN, ConfirmNote(t, reads)
          PROVE  thread'[t].kind = thread[t].kind
      BY <3>1, <3>4 DEF ConfirmNote, NotesInv, NotesTypeInv
    <3>5. ASSUME NEW arrives, NEW answer, PutNote(t, arrives, answer)
          PROVE  thread'[t].kind = thread[t].kind
      BY <3>1, <3>5 DEF PutNote, NotesInv, NotesTypeInv
    <3>6. QED
      BY <1>2, <3>2, <3>3, <3>4, <3>5 DEF SaveStep
  <2>4. thread[t].kind # "panel"
    BY <2>1 DEF Saving, Kind
  <2>5. QED
    BY <2>2, <2>3, <2>4 DEF Asks
<1>3. ~Asks(t)' /\ OthersRest(t)
  BY <1>1, <1>2
<1>4. QED
  BY <1>3 DEF OthersRest, Asks

LEMMA PanelInvInit == DeskInit /\ PanelInit => PanelInv
<1>1. DeskInit /\ PanelInit => NotesInv
  BY NotesInvInit DEF PanelInit
<1>2. QED
  BY <1>1 DEF DeskInit, PanelInit, PanelInv, CloudInv, AskInv, Asks, Runnings

\* What changes beside threads and notes.
LEMMA WorldStep ==
  ASSUME PanelInv, UNCHANGED <<thread, notes>>, clock' \in Nat, CloudInv'
  PROVE  PanelInv'
<1>1. NotesInv'
  BY DEF PanelInv, NotesInv, notes, wireVars, NotesTypeInv, LockInv, HeldInv, LocalIsSource, PublishedWasHeld,
         AppliedWasSigned, RiseInv, Holds, Saving, File, Sent, Envelope
<1>2. AskInv'
  BY DEF PanelInv, AskInv, Asks
<1>3. QED
  BY <1>1, <1>2 DEF PanelInv

LEMMA PanelInvStep == PanelInv /\ [PanelNext]_panelVars => PanelInv'
<1> SUFFICES ASSUME PanelInv, [PanelNext]_panelVars PROVE PanelInv'
  OBVIOUS
<1>0. NotesInv /\ clock \in Nat /\ "config" \in Kind /\ Setting = Values["config"]
  BY DEF PanelInv, NotesInv, NotesTypeInv, Kind, Setting
<1>1. ASSUME NEW t \in Thread, NEW v \in Setting, BeginSave(t, "config", v), UNCHANGED panel
      PROVE  PanelInv'
  BY <1>0, <1>1, BeginStep, SavesDoNotAsk, SaveBesidePanel
<1>2. ASSUME NEW t \in Thread, SaveStep(t), UNCHANGED panel
      PROVE  PanelInv'
  BY <1>0, <1>2, SaveSteps, SavesDoNotAsk, SaveBesidePanel
<1>3. ASSUME NEW t \in Thread, AnswerPanel(t)
      PROVE  PanelInv'
  BY <1>3, AskStep DEF AnswerPanel, Answer
<1>4. ASSUME NEW note \in {Junk} \cup held, Overwrite("config", note), UNCHANGED panel
      PROVE  PanelInv'
  BY <1>0, <1>4, OverwriteStep, SaveBesidePanel DEF Overwrite, desk, Asks
<1>5. CASE (\E a \in Agent : LinkAgent(a)) \/ StartDeploy \/ EndDeploy \/ DamageRecord
  <2>1. CloudInv'
    BY <1>5 DEF PanelInv, CloudInv, LinkAgent, StartDeploy, EndDeploy, DamageRecord, Promise!Live
  <2>2. QED
    BY <1>0, <1>5, <2>1, WorldStep DEF LinkAgent, StartDeploy, EndDeploy, DamageRecord, desk
<1>6. ASSUME NEW a \in Agent, NEW v \in Setting, ReachCloud(a, v)
      PROVE  PanelInv'
  <2>1. cloud' \in Runnings
    BY <1>6 DEF ReachCloud, Runnings, Runs
  <2>2. CloudInv'
    BY <1>6, <2>1 DEF PanelInv, CloudInv, ReachCloud
  <2>3. QED
    BY <1>0, <1>6, <2>2, WorldStep DEF ReachCloud, desk
<1>7. ASSUME NEW reads \in BOOLEAN, NEW gated \in BOOLEAN, NEW arrives \in BOOLEAN,
             ModelCall(reads, gated, arrives)
      PROVE  PanelInv'
  <2>1. CloudInv'
    BY <1>7 DEF PanelInv, CloudInv, ModelCall, Promise!Live
  <2>2. QED
    BY <1>0, <1>7, <2>1, WorldStep DEF ModelCall, desk
<1>8. ASSUME NEW r \in reports \cup {Junk}, Scribble(r)
      PROVE  PanelInv'
  <2>1. CloudInv'
    BY <1>8 DEF PanelInv, CloudInv, Scribble, Promise!Live
  <2>2. QED
    BY <1>0, <1>8, <2>1, WorldStep DEF Scribble, desk
<1>9. CASE TimePasses
  <2>1. CloudInv'
    BY <1>9 DEF PanelInv, CloudInv, TimePasses, panel, Promise!Live
  <2>2. QED
    BY <1>0, <1>9, <2>1, WorldStep DEF TimePasses
<1>10. CASE UNCHANGED panelVars
  <2>1. CloudInv'
    BY <1>10 DEF PanelInv, CloudInv, panelVars, panel, Promise!Live
  <2>2. QED
    BY <1>0, <1>10, <2>1, WorldStep DEF panelVars, desk
<1>11. QED
  BY <1>1, <1>2, <1>3, <1>4, <1>5, <1>6, <1>7, <1>8, <1>9, <1>10, AskPanelStep, ReadRecordStep,
     ReadSlotStep DEF PanelNext

LEMMA PanelInvShows == PanelInv => PanelTrue
<1> SUFFICES ASSUME PanelInv, NEW t \in Thread, NEW reads \in BOOLEAN, At(t, "health")
             PROVE  LET s == thread[t]
                        said == Said(s, reads) IN
                    /\ said.source = "signed" => s.noteWas = said.setting
                    /\ said.source = "deployed" =>
                         s.noteWas = Absent /\ s.ran = Runs(s.linked, said.setting)
                    /\ said.source = "default" => s.linked = None
                    /\ said.running # None =>
                         \E r \in reports :
                           /\ r.agent = agentFile /\ r.setting = said.running /\ ~r.gated
                           /\ clock - r.at <= FreshFor(s)
                    /\ said.source = "signed" /\ ~said.pending => s.latest \in {None, said.setting}
  BY DEF PanelTrue, SourceIsTrue, ReportIsRecent, UnsentIsMarked
<1> DEFINE s == thread[t]
<1>1. /\ s.latest = s.mine
      /\ s.deployed \in Setting \cup {Absent, Unknown}
      /\ s.deployed \in Setting => s.ran = Runs(s.linked, s.deployed)
      /\ s.note \in {s.noteWas, Unknown} /\ s.noteWas \in Setting \cup {Absent}
  BY AskingIsAsk DEF PanelInv, AskInv
<1>2. /\ Said(s, reads).source = Source(s) /\ Said(s, reads).setting = Told(s)
      /\ Said(s, reads).running = RunningModel(s, reads)
  BY DEF Said
<1>3. ~Said(s, reads).pending => ~Pending(s)
  BY DEF Said
<1> HIDE DEF s
<1>4. Source(s) = "signed" => s.note \in Setting /\ Told(s) = s.note /\ s.noteWas = s.note
  BY <1>1, Marks DEF Source, Told
<1>5. Source(s) = "deployed" => s.deployed \in Setting /\ Told(s) = s.deployed /\ s.noteWas = Absent
  BY <1>1, Marks DEF Source, Told
<1>6. Source(s) = "default" => s.linked = None
  BY DEF Source
<1>7. RunningModel(s, reads) # None =>
        /\ health \in reports /\ health.agent = agentFile /\ health.setting = RunningModel(s, reads)
        /\ ~health.gated /\ clock - health.at <= FreshFor(s)
  BY DEF RunningModel, Recent, PanelInv, CloudInv
<1>8. Source(s) = "signed" /\ ~Pending(s) => s.latest \in {None, Told(s)}
  BY <1>1, <1>4, Marks DEF Pending
<1>9. QED
  BY <1>1, <1>2, <1>3, <1>4, <1>5, <1>6, <1>7, <1>8 DEF s

\* Whatever is signed, deployed, read or lost while an answer is put together,
\* the panel calls signed, deployed, default, running and unsent what is.
THEOREM PanelTellsTheTruth == PanelSpec => []PanelTrue
<1>1. QED
  BY PanelInvInit, PanelInvStep, PanelInvShows, PTL DEF PanelSpec
-----------------------------------------------------------------------------
(* The types of the panel.                                                 *)

LEMMA PanelBoundStep == PanelInv /\ BoundInv /\ [PanelNext]_panelVars => BoundInv'
<1> SUFFICES ASSUME PanelInv, BoundInv, [PanelNext]_panelVars PROVE BoundInv'
  OBVIOUS
<1>0. NotesInv /\ "config" \in Kind /\ Setting = Values["config"]
  BY DEF PanelInv, Kind, Setting
<1>1. ASSUME NEW t \in Thread, NEW reads \in BOOLEAN,
             AskPanel(t) \/ ReadRecord(t) \/ ReadSlot(t, reads) \/ AnswerPanel(t)
      PROVE  BoundInv'
  <2>1. /\ UNCHANGED <<noteNonce, local, out>>
        /\ \A u \in Thread \ {t} : thread'[u] = thread[u]
    BY <1>0, <1>1 DEF AskPanel, ReadRecord, ReadSlot, AnswerPanel, Answer, notes, NotesInv,
                      NotesTypeInv
  <2>2. ~Saving(t)'
    <3>1. CASE AskPanel(t)
      BY <1>0, <3>1 DEF AskPanel, Saving, Kind, NotesInv, NotesTypeInv
    <3>2. CASE AnswerPanel(t)
      BY <1>0, <3>2 DEF AnswerPanel, Answer, Saving, NotesInv, NotesTypeInv
    <3>3. CASE ReadRecord(t) \/ ReadSlot(t, reads)
      <4>1. thread[t] \in Ask
        BY <1>0, <3>3, KindOf DEF ReadRecord, ReadSlot, At, NotesInv, NotesTypeInv, Save
      <4>2. thread'[t].kind = thread[t].kind
        BY <1>0, <3>3, <4>1 DEF ReadRecord, ReadSlot, NotesInv, NotesTypeInv, Ask
      <4>3. QED
        BY <4>1, <4>2, KindOf DEF Saving
    <3>4. QED
      BY <1>1, <3>1, <3>2, <3>3
  <2>3. QED
    BY <2>1, <2>2, BoundQuiet
<1>2. ASSUME UNCHANGED <<noteNonce, local, out, thread>>
      PROVE  BoundInv'
  BY <1>2, BoundQuiet
<1>3. ASSUME NEW note, Overwrite("config", note)
      PROVE  BoundInv'
  BY <1>2, <1>3 DEF Overwrite, desk
<1>4. CASE (\E a \in Agent : LinkAgent(a)) \/ StartDeploy \/ EndDeploy \/ DamageRecord
           \/ (\E a \in Agent, v \in Setting : ReachCloud(a, v))
           \/ (\E r, o, w \in BOOLEAN : ModelCall(r, o, w))
           \/ (\E r \in reports \cup {Junk} : Scribble(r))
           \/ TimePasses \/ UNCHANGED panelVars
  BY <1>2, <1>4 DEF LinkAgent, StartDeploy, EndDeploy, DamageRecord, ReachCloud, ModelCall, Scribble,
     TimePasses, panelVars, notes, desk
<1>5. QED
  BY <1>0, <1>1, <1>3, <1>4, BoundBegin, BoundSave DEF PanelNext

LEMMA PanelTyped == NotesInv /\ CloudInv => PanelTypeOK
<1> SUFFICES ASSUME NotesInv, CloudInv PROVE PanelTypeOK
  OBVIOUS
<1>1. ASSUME NEW t \in Thread, thread[t] # Idle, thread[t].kind = "panel"
      PROVE  /\ thread[t].at \in {"record", "slot", "health"}
             /\ {thread[t].mine, thread[t].deployed, thread[t].note} \subseteq Readings
  <2>1. thread[t] \in Ask
    BY <1>1, KindOf DEF NotesInv, NotesTypeInv, Kind
  <2>2. QED
    BY <2>1 DEF Ask
<1>2. QED
  BY <1>1 DEF PanelTypeOK, CloudInv, Runnings
=============================================================================
