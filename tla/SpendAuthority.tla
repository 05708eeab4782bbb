--------------------------- MODULE SpendAuthority ---------------------------
(***************************************************************************)
(* What the Governor promises its callers, with its tables left out: at    *)
(* every instant at most one owner-signed grant is in force, and an action *)
(* is spent in ONE indivisible step, under the grant in force at that      *)
(* instant, within that grant's ceiling for the window, and with a nonce   *)
(* newer than every nonce already spent in its scope.                      *)
(*                                                                         *)
(* The only memory is the ledger of what was spent.  Governor.tla keeps    *)
(* counters, nonce high-waters and calls suspended half-way instead, and   *)
(* is shown to implement this module.                                      *)
(***************************************************************************)
EXTENDS Integers, FiniteSets

CONSTANTS
  Grants,      \* every grant document that may be presented
  NoGrant,     \* "nothing is in force"
  Class,       \* action classes a ceiling is set for
  Scope,       \* key|room pairs a nonce is monotonic in
  NoScope,     \* a model call carries no nonce
  Nonce,       \* nonces callers present
  Time         \* readings of the clock, in seconds

VARIABLES
  inForce,     \* the grant in force, or NoGrant
  barred,      \* grant ids that may never be spent under again
  ledger       \* everything spent so far

vars == <<inForce, barred, ledger>>

\* The ceiling a grant sets for a class; absent and 0 both mean "not granted".
Ceiling(g, k) == IF k \in DOMAIN g.allow THEN g.allow[k] ELSE 0

\* What was spent on class k in the window that starts at w, under any grant.
Spent(k, w) == {e \in ledger : e.klass = k /\ e.start = w}

Init ==
  /\ inForce = NoGrant
  /\ barred = {}
  /\ ledger = {}

\* A grant that is presented takes the place of the one in force.
Install(g) ==
  /\ inForce' = g
  /\ UNCHANGED <<barred, ledger>>

\* An id is barred for good, and leaves force if it was in force.
Bar(id) ==
  /\ barred' = barred \cup {id}
  /\ inForce' = IF inForce # NoGrant /\ inForce.id = id THEN NoGrant ELSE inForce
  /\ UNCHANGED ledger

\* One action of class k is spent in window w, with nonce n of scope s.
Spend(k, w, s, n) ==
  /\ inForce # NoGrant
  /\ inForce.id \notin barred
  /\ Cardinality(Spent(k, w)) < Ceiling(inForce, k)
  /\ s # NoScope => \A e \in ledger : e.scope = s => e.nonce < n
  /\ ledger' = ledger \cup
       {[serial |-> Cardinality(ledger) + 1, grant |-> inForce, klass |-> k,
         start |-> w, scope |-> s, nonce |-> n]}
  /\ UNCHANGED <<inForce, barred>>

Next ==
  \/ \E g \in Grants : Install(g) \/ Bar(g.id)
  \/ \E k \in Class, w \in Time, s \in Scope \cup {NoScope}, n \in Nonce \cup {0} :
       Spend(k, w, s, n)

Spec == Init /\ [][Next]_vars
=============================================================================
