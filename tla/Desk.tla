-------------------------------- MODULE Desk --------------------------------
(***************************************************************************)
(* What concurrent programs share here: the dashboard's HTTP server runs    *)
(* each request in a thread of its own (ThreadingHTTPServer), and cron       *)
(* starts each wake of the agent beside the last.  Their process may die at *)
(* any point, and the dashboard's wall clock may be set back.  Times are    *)
(* scaled, so several requests fit into one reading of the clock.          *)
(***************************************************************************)
EXTENDS Integers, FiniteSets

CONSTANTS
  Thread,   \* request threads, or wakes
  Idle,     \* a thread that does nothing
  None,     \* an absent file, or nothing
  Deploying, \* deploy.json of a deploy that has not ended
  MaxTime   \* bound: last reading of the clock

ASSUME DeskAssumption == MaxTime \in Nat \ {0} /\ Idle \notin Thread /\ None \notin Nat

VARIABLES
  clock,    \* self.clock()
  thread    \* the locals of each request, or wake, in progress

desk == <<clock, thread>>

DeskInit ==
  /\ clock = 1
  /\ thread = [t \in Thread |-> Idle]

At(t, step) == thread[t] # Idle /\ thread[t].at = step

Goto(t, step) == thread' = [thread EXCEPT ![t].at = step]

Answer(t) == thread' = [thread EXCEPT ![t] = Idle]

\* Mutant: the clock alone, with no floor above the last nonce.
ClockNonce(last) == clock

\* _next_nonce and its three copies: read, raise, replace, all under a lock; an
\* absent or unreadable file counts as 0.
NextNonce(last) ==
  LET prev == IF last = None THEN 0 ELSE last IN
  IF prev + 1 > clock THEN prev + 1 ELSE clock

\* The threads are gone, the files stay.
Die ==
  /\ \E t \in Thread : thread[t] # Idle
  /\ thread' = [t \in Thread |-> Idle]
  /\ UNCHANGED clock

Tick ==
  /\ clock < MaxTime
  /\ clock' = clock + 1
  /\ UNCHANGED thread

\* The wall clock is set back.
Rewind ==
  /\ clock > 1
  /\ clock' = clock - 1
  /\ UNCHANGED thread
=============================================================================
