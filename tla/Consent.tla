------------------------------- MODULE Consent -------------------------------
(***************************************************************************)
(* What an action means: the string that is signed (shared/action.py), the  *)
(* bytes the human is shown, the class a grant lists it under               *)
(* (shared/grant.py) and the envelope that approves one action              *)
(* (shared/steer.py).  Python's ValueError is a predicate that is false.    *)
(***************************************************************************)
EXTENDS Integers

CONSTANTS
  Names,      \* names that fit the grammar
  DidNames,   \* "did" and those that start with "did-"
  OwnerNames, \* room-owners and room-allow
  Texts,      \* strings
  Empty,      \* the empty string
  NotText,    \* a value of another type
  Nil         \* an absent field

ASSUME ConsentAssumption ==
  /\ DidNames \subseteq Names /\ OwnerNames \subseteq Names
  /\ DidNames \cap OwnerNames = {}
  /\ Empty \in Texts
  /\ {NotText, Nil} \cap (Texts \cup Names) = {}

KnownVerbs == {"ATTEST", "RESULT", "CLAIM", "NOTE_WRITE", "SAY"}

\* SHA-256, without collisions.
Digest(c) == [sha256 |-> c]
Digests == {Digest(c) : c \in Texts}

\* _require_str: an absent content field is the empty string.
Str(c) == IF c = Nil THEN Empty ELSE c

\* A proposal: verb, target and verdict, and the destination it names.  place
\* is the room of a SAY and the namespace of a NOTE_WRITE; content is the text,
\* the value, the result, or the delivery body of an ATTEST.
Proposal(verb, job, place, key, content, hash, useful, dest) ==
  [verb |-> verb, job |-> job, place |-> place, key |-> key, content |-> content,
   hash |-> hash, useful |-> useful, dest |-> dest]

OnJob == {"ATTEST", "RESULT", "CLAIM"}
OnPlace == {"NOTE_WRITE", "SAY"}

\* The hash that stands for the free content in the action string.
BoundHash(p) ==
  IF p.verb = "CLAIM" THEN Nil
  ELSE IF p.verb = "ATTEST" \/ (p.verb = "RESULT" /\ p.hash # Nil) THEN p.hash
  ELSE Digest(Str(p.content))

\* action_string returns: every field that changes what the action does is there.
Bindable(p) ==
  /\ p.verb \in KnownVerbs
  /\ p.verb \in OnJob => p.job \in Names
  /\ p.verb \in OnPlace => p.place \in Names
  /\ p.verb = "NOTE_WRITE" => p.key \in Names
  /\ p.verb = "ATTEST" => p.useful \in BOOLEAN
  /\ BoundHash(p) \in Digests \cup {Nil}
  /\ p.verb = "ATTEST" => BoundHash(p) # Nil

\* What action_string returns.
ActionString(p) ==
  [verb   |-> p.verb,
   job    |-> IF p.verb \in OnJob THEN p.job ELSE Nil,
   place  |-> IF p.verb \in OnPlace THEN p.place ELSE Nil,
   key    |-> IF p.verb = "NOTE_WRITE" THEN p.key ELSE Nil,
   useful |-> IF p.verb = "ATTEST" THEN p.useful ELSE Nil,
   hash   |-> BoundHash(p)]

\* sha256 of the action string.
ActionCommit(p) == Digest(ActionString(p))

EmbeddedDestination(p) == IF p.verb \in OnPlace THEN p.place ELSE Nil

\* bound_content returns; a delivery is shown only if it is the one voted on.
Displayable(p) ==
  /\ p.verb \in KnownVerbs
  /\ p.verb # "CLAIM" => p.content # NotText
  /\ p.verb = "ATTEST" => p.content # Nil /\ Digest(p.content) = p.hash

\* What approval_view puts on the card.
Shown(p) == IF p.verb = "CLAIM" THEN {} ELSE {Str(p.content)}

-----------------------------------------------------------------------------
\* grant_class: the class of an action, from its verb, target and verdict.
GrantClass(p, boardMatch) ==
  CASE p.verb = "ATTEST" /\ p.useful /\ boardMatch -> "ATTEST:useful:board-match"
    [] p.verb = "ATTEST" /\ p.useful /\ ~boardMatch -> "ATTEST:useful:no-board-match"
    [] p.verb = "ATTEST" /\ ~p.useful -> "ATTEST:not"
    [] p.verb = "NOTE_WRITE" /\ p.place \notin Names -> "NOTE_WRITE:unknown"
    [] p.verb = "NOTE_WRITE" /\ p.place \in DidNames -> "NOTE_WRITE:identity"
    [] p.verb = "NOTE_WRITE" /\ p.place \in OwnerNames -> "NOTE_WRITE:ownership"
    [] p.verb = "NOTE_WRITE" /\ p.place \in Names \ (DidNames \cup OwnerNames)
         -> "NOTE_WRITE:note"
    [] p.verb \in {"SAY", "RESULT", "CLAIM"} -> p.verb
    [] OTHER -> "OTHER:UNKNOWN"

-----------------------------------------------------------------------------
\* build_steer: the signature covers the channel, the action, nonce and expiry.
BuildSteer(p, nonce, expiry) ==
  [channel |-> p.dest, action |-> ActionString(p), nonce |-> nonce, expiry |-> expiry]

\* Mutant: the seen nonces are not consulted.
VerifySteerAgain(s, p, destination, now, seen) ==
  /\ s.channel = destination
  /\ Bindable(p)
  /\ EmbeddedDestination(p) \in {Nil, s.channel}
  /\ s.action = ActionString(p)

\* verify_steer, for the action re-derived from p and the true destination.
VerifySteer(s, p, destination, now, seen) ==
  /\ s.channel = destination
  /\ Bindable(p)
  /\ EmbeddedDestination(p) \in {Nil, s.channel}
  /\ s.expiry >= now
  /\ s.nonce \notin seen
  /\ s.action = ActionString(p)
=============================================================================
