------------------------------ MODULE Posting ------------------------------
(***************************************************************************)
(* The human speaks: chat messages to rooms and jobs to the kibble board    *)
(* (server.py, say, post_job and the chat window; protocol_client.py, say;  *)
(* kibble_client.py, post_job).  A line is signed with a nonce from one     *)
(* counter, sent once, and told posted only when it is seen to have landed. *)
(***************************************************************************)
EXTENDS Desk

CONSTANTS
  Room,         \* rooms; the board is one of them
  Board,        \* KIBBLE_ROOM
  Quiet,        \* rooms whose listing omits the nonces
  Reserved,     \* names the protocol reserves, never posted to
  Line,         \* swept texts
  MaxLines,     \* bound: lines signed
  Window        \* seconds the human unlocks chat for

ASSUME PostingAssumption ==
  /\ Board \in Room \ Reserved /\ Quiet \subseteq Room /\ Reserved \subseteq Room
  /\ MaxLines \in Nat /\ Window \in Nat \ {0}

VARIABLES
  sayNonce,     \* say_nonce
  sayLost,      \* history: say_nonce was lost or damaged
  chatKey,      \* _chat_key holds the owner key
  chatUntil,    \* _chat_until
  promised,     \* history: until when the human lets chat sign, 0 when locked
  high,         \* the service: last nonce this key used in each room
  landed,       \* the service: the messages of each room, those of the board being jobs
  signedLines,  \* history: lines signed, and whether the held key signed
  told,         \* history: lines the human was told are posted
  myJobs        \* _my_jobs, the jobs posted in this session

chat == <<chatKey, chatUntil, promised>>
service == <<high, landed>>
posting == <<sayNonce, sayLost, chat, service, signedLines, told, myJobs>>
postingVars == <<desk, posting>>

PostingInit ==
  /\ sayNonce = None
  /\ sayLost = FALSE
  /\ chatKey = FALSE
  /\ chatUntil = 0
  /\ promised = 0
  /\ high = [r \in Room |-> 0]
  /\ landed = {}
  /\ signedLines = {}
  /\ told = {}
  /\ myJobs = {}

-----------------------------------------------------------------------------
\* unlock_chat: the passphrase opens the key, then the window opens.
UnlockChat ==
  /\ chatKey' = TRUE
  /\ chatUntil' = clock + Window
  /\ promised' = clock + Window
  /\ UNCHANGED <<desk, sayNonce, sayLost, service, signedLines, told, myJobs>>

LockChat ==
  /\ chatKey' = FALSE
  /\ chatUntil' = 0
  /\ promised' = 0
  /\ UNCHANGED <<desk, sayNonce, sayLost, service, signedLines, told, myJobs>>

\* Mutant: the key is held until chat is locked.
ChatOpenUntilLocked == chatKey

ChatOpen == chatKey /\ clock < chatUntil

\* What _held_chat_key and chat_status leave behind: an expired key is wiped.
WipeExpired ==
  /\ chatKey' = ChatOpen
  /\ chatUntil' = IF ChatOpen THEN chatUntil ELSE 0

ChatStatus ==
  /\ WipeExpired
  /\ UNCHANGED <<desk, sayNonce, sayLost, promised, service, signedLines, told, myJobs>>

-----------------------------------------------------------------------------
Busy == {t \in Thread : At(t, "draw")}
\* Bound: lines signed.
MayPost == Cardinality(signedLines) + Cardinality(Busy) < MaxLines

\* Mutant: the reserved names are not refused.
SpeakAnywhere(room) == room \in Room

MaySpeak(room) == room \in Room \ Reserved

Posts(op, room, text, held) ==
  [op |-> op, at |-> "draw", room |-> room, text |-> text, held |-> held, nonce |-> 0]

\* say with the passphrase: the key is loaded for one signature.
SayWithPassphrase(t, room, text) ==
  /\ thread[t] = Idle
  /\ MayPost
  /\ MaySpeak(room)
  /\ thread' = [thread EXCEPT ![t] = Posts("say", room, text, "passphrase")]
  /\ UNCHANGED <<clock, posting>>

\* say without one: the held key, if the window is open.  What is held outlives
\* the window for this one line.
SayUnlocked(t, room, text) ==
  /\ thread[t] = Idle
  /\ MayPost
  /\ MaySpeak(room)
  /\ WipeExpired
  /\ thread' = IF ChatOpen
               THEN [thread EXCEPT ![t] = Posts("say", room, text,
                                            IF clock < promised THEN "open" ELSE "shut")]
               ELSE thread
  /\ UNCHANGED <<clock, sayNonce, sayLost, promised, service, signedLines, told, myJobs>>

\* post_job: always the passphrase, always the board.
PostJob(t, text) ==
  /\ thread[t] = Idle
  /\ MayPost
  /\ thread' = [thread EXCEPT ![t] = Posts("job", Board, text, "passphrase")]
  /\ UNCHANGED <<clock, posting>>

\* _next_say_nonce, then the signature over room, nonce and text.
SignLine(t) ==
  LET n == NextNonce(sayNonce) IN
  /\ At(t, "draw")
  /\ sayNonce' = n
  /\ signedLines' = signedLines \cup
       {[room |-> thread[t].room, text |-> thread[t].text, nonce |-> n,
         held |-> thread[t].held, op |-> thread[t].op,
         nth |-> Cardinality(signedLines) + 1]}
  /\ thread' = [thread EXCEPT ![t].at = "send", ![t].nonce = n]
  /\ UNCHANGED <<clock, sayLost, chat, service, told, myJobs>>

Message(t) ==
  [room |-> thread[t].room, text |-> thread[t].text, op |-> thread[t].op,
   nonce |-> IF thread[t].room \in Quiet THEN None ELSE thread[t].nonce]

\* The service takes a line whose nonce is above the last one of its room.
Takes(t) == thread[t].nonce > high[thread[t].room]

\* A say's 200 is then confirmed; all else is an error.
SayAnswered(t, ok) == IF ok THEN Goto(t, "confirm") ELSE Answer(t)

\* A job's 200 says whether a job was recorded.
JobAnswered(t, recorded) == IF recorded THEN Goto(t, "tell") ELSE Answer(t)

\* One request.  It arrives or not; a line it takes joins the room, unless the
\* service answers 200 and keeps nothing (a POST read as a GET, a job line that
\* does not parse); the answer may be lost.
Send(t, arrives, keeps, lost) ==
  LET takes == arrives /\ Takes(t)
      kept == takes /\ keeps IN
  /\ At(t, "send")
  /\ arrives \/ lost
  /\ keeps => arrives
  /\ high' = IF takes THEN [high EXCEPT ![thread[t].room] = thread[t].nonce] ELSE high
  /\ landed' = IF kept THEN landed \cup {Message(t)} ELSE landed
  /\ IF thread[t].op = "job" THEN JobAnswered(t, kept /\ ~lost) ELSE SayAnswered(t, takes /\ ~lost)
  /\ UNCHANGED <<clock, sayNonce, sayLost, chat, signedLines, told, myJobs>>

\* Mutant: the 200 is taken for the message.
ConfirmByStatus(t, seen) ==
  /\ At(t, "confirm")
  /\ Goto(t, "tell")
  /\ UNCHANGED <<clock, posting>>

\* _confirm_say reads the last fifty messages; a read may fail, or find the line
\* already pushed out.  It matches the nonce, or the text where none is listed;
\* a job's line holds a fresh random id, so no chat text equals it.
Matches(m, t) ==
  /\ m.room = thread[t].room
  /\ IF m.nonce # None THEN m.nonce = thread[t].nonce
     ELSE m.text = thread[t].text /\ m.op = thread[t].op

Confirm(t, seen) ==
  /\ At(t, "confirm")
  /\ IF \E m \in seen : Matches(m, t)
     THEN Goto(t, "tell")
     ELSE Answer(t)
  /\ UNCHANGED <<clock, posting>>

\* The answer: posted; a job joins the list of this session.
Tell(t) ==
  /\ At(t, "tell")
  /\ told' = told \cup {thread[t]}
  /\ myJobs' = IF thread[t].op = "job" THEN myJobs \cup {thread[t].nonce} ELSE myJobs
  /\ Answer(t)
  /\ UNCHANGED <<clock, sayNonce, sayLost, chat, service, signedLines>>

LoseSayNonce ==
  /\ sayNonce # None
  /\ sayNonce' = None
  /\ sayLost' = TRUE
  /\ UNCHANGED <<desk, chat, service, signedLines, told, myJobs>>

\* The process ends: its memory goes, its files stay.
DieAll ==
  /\ Die
  /\ chatKey' = FALSE
  /\ chatUntil' = 0
  /\ promised' = 0
  /\ myJobs' = {}
  /\ UNCHANGED <<sayNonce, sayLost, service, signedLines, told>>

PostingNext ==
  \/ UnlockChat \/ LockChat \/ ChatStatus
  \/ \E t \in Thread :
       \/ \E text \in Line :
            \/ \E room \in Room : SayWithPassphrase(t, room, text) \/ SayUnlocked(t, room, text)
            \/ PostJob(t, text)
       \/ SignLine(t) \/ Tell(t)
       \/ \E a, k, l \in BOOLEAN : Send(t, a, k, l)
       \/ \E seen \in {landed, {}} : Confirm(t, seen)
  \/ LoseSayNonce \/ DieAll
  \/ (Tick \/ Rewind) /\ UNCHANGED posting

PostingSpec == DeskInit /\ PostingInit /\ [][PostingNext]_postingVars

-----------------------------------------------------------------------------
(* Properties.                                                             *)

PostingTypeOK ==
  /\ clock \in 1 .. MaxTime
  /\ \A t \in Thread :
       thread[t] # Idle =>
         /\ thread[t].at \in {"draw", "send", "confirm", "tell"}
         /\ thread[t].room \in Room \ Reserved
         /\ thread[t].op = "job" => thread[t].room = Board
         /\ thread[t].nonce \in 0 .. MaxTime + MaxLines
  /\ sayNonce \in 1 .. MaxTime + MaxLines \cup {None}
  /\ chatUntil \in 0 .. MaxTime + Window
  /\ high \in [Room -> 0 .. MaxTime + MaxLines]
  /\ Cardinality(signedLines) <= MaxLines

\* What the human is told is posted is in the room or on the board, whatever was
\* lost, refused or answered 200 for nothing; where the room lists no nonces, a
\* line with these words is (confirm: "by the exact text as a fallback").
ToldIsLanded ==
  \A x \in told : \E m \in landed :
    /\ m.room = x.room /\ m.op = x.op /\ m.text = x.text
    /\ m.nonce \in {None, x.nonce}

\* No nonce signs two lines, across rooms, chat and jobs, concurrent requests,
\* crashes and a clock set back; only the loss of the nonce file can repeat one.
OneNonceOneLine ==
  ~sayLost => \A x, y \in signedLines : x.nonce = y.nonce => x = y

\* A line signed without the passphrase was asked for while the human's last
\* word was an unlock whose time was not over, and never is a job ("the chat
\* session unlock is scoped to say()"), through restarts, locks and expiries.
HeldKeyWithinWindow ==
  \A x \in signedLines : x.held # "passphrase" => x.held = "open" /\ x.op = "say"
=============================================================================
