----------------------------- MODULE PassProofs -----------------------------
(***************************************************************************)
(* Theorems about the agent's wakes and their memory, for every number of   *)
(* wakes, every clock, every board and playbook and every size of the       *)
(* memory's tables; and the types of MCPanel, which composes them with the  *)
(* owner's notes and the panel.                                            *)
(***************************************************************************)
EXTENDS MCPanel, NotesProofs, FiniteSetTheorems, WellFoundedInduction, TLAPS

Lines == [message : Message, nonce : Nat]
Stored == [start : Nat, every : Nat]
Rows == [id : Task, at : Nat, row : Nat]
Records == [id : Task, at : Nat]

\* The steps at which a wake has a line in hand.
Holding == {"tail", "write", "proof", "introduce"}

\* The steps before the ledger is read.
Unread == {"config", "last", "store", "mark", "flag", "tasks"}

Locals(w) ==
  /\ w.sends # None <=> w.at \in Holding
  /\ w.now > 0
  /\ w.at # "config" => w.every \in Every
  /\ w.at \in {"config", "last", "store"} => w.writes = WriteBudget
  /\ w.at \in Unread => ~w.ledger

ThreadInv ==
  /\ thread \in [Thread -> Wake \cup {Idle}]
  /\ \A t \in Thread : thread[t] # Idle =>
       Locals(thread[t]) /\ thread[t].now <= clock /\ thread[t].before <= Len(done)

TypeInv ==
  /\ clock \in Nat /\ clock > 0
  /\ ThreadInv
  /\ lastThink \in Nat /\ lastThink <= clock
  /\ DOMAIN seen \subseteq Job
  /\ introduced \in BOOLEAN /\ unsure \in BOOLEAN /\ unpaced \in BOOLEAN
  /\ runs \subseteq Rows /\ done \in Seq(Records)
  /\ public \in Seq(Lines) /\ flying \subseteq Lines
  /\ thinks \in Seq(Stored)
  /\ offered \in [Job -> Nat] /\ dropped \in [Job -> Nat]
  /\ signedSo \in Nat

\* As long as the throttle is not raced, one wake at most is past it and has not
\* stored its think, and the table holds the newest think stored.
PaceInv ==
  ~unpaced =>
    /\ \A t, u \in Thread : At(t, "store") /\ At(u, "store") => t = u
    /\ \A i \in DOMAIN thinks : 0 < thinks[i].start /\ thinks[i].start <= lastThink
    /\ thinks # <<>> => \A t \in Thread : At(t, "store") =>
         thread[t].now - lastThink >= thread[t].every
    /\ Paced

\* A job in the table was fresh once more than it was dropped.
MarkInv == \A j \in Job :
  offered[j] <= dropped[j] + (IF j \in DOMAIN seen THEN 1 ELSE 0)

\* The lines that have left a wake.
Out == {public[i] : i \in DOMAIN public} \cup flying

Sends(t) == thread[t] # Idle /\ thread[t].sends # None

\* A nonce is one line's, and before the write of that line nobody has seen it.
NonceInv ==
  /\ \A l \in Out : l.nonce <= signedSo
  /\ \A t \in Thread : Sends(t) => thread[t].sends.nonce <= signedSo
  /\ \A t, u \in Thread :
       Sends(t) /\ Sends(u) /\ thread[t].sends.nonce = thread[u].sends.nonce => t = u
  /\ \A t \in Thread : Sends(t) => \A l \in Out : l.nonce = thread[t].sends.nonce =>
       thread[t].at \notin {"tail", "write"} /\ l.message = thread[t].sends.message

\* A greeting that is out is on the flag, or its wake has still to set it.
KnownInv ==
  ~unsure =>
    /\ \A l \in Out : l.message.shape = "say" =>
         introduced \/ \E t \in Thread : Sends(t) /\ thread[t].sends.nonce = l.nonce
    /\ IntroductionIsKnown

\* What was public when the tail was read does not hold the line to be written.
BaseInv ==
  \A t \in Thread : Sends(t) /\ thread[t].at # "tail" =>
    /\ thread[t].sends.tail <= Len(public)
    /\ thread[t].sends.base # None => thread[t].sends.base = thread[t].sends.tail
    /\ \A i \in DOMAIN public :
         i <= thread[t].sends.tail => public[i].nonce # thread[t].sends.nonce

\* The ids recorded since the i-th run.
Since(i) == {done[k].id : k \in i .. Len(done)}

\* Each row is the last run of its task, and a run is remembered until MAX_TASK_RUNS
\* other tasks were run since.
RowsInv ==
  /\ IsFiniteSet(runs) /\ Cardinality(runs) <= MaxRuns
  /\ \A x \in runs :
       /\ x.row \in DOMAIN done
       /\ done[x.row] = [id |-> x.id, at |-> x.at]
       /\ \A k \in DOMAIN done : k > x.row => done[k].id # x.id
  /\ \A k \in DOMAIN done : 0 < done[k].at /\ done[k].at <= clock
  /\ \A i, k \in DOMAIN done : i <= k => done[i].at <= done[k].at
  /\ \A i \in DOMAIN done : Cardinality(Since(i)) <= MaxRuns =>
       \E x \in runs : x.id = done[i].id /\ x.row >= i

TaskInv == RowsInv /\ DoneStaysDone
-----------------------------------------------------------------------------
(* What a step does to the locals of its wake.                             *)

Moves(t, x) == thread' = [thread EXCEPT ![t] = x]

\* What the pace and the ledger read of a wake, and what it was told.
Same(w, x) ==
  /\ x.now = w.now /\ x.every = w.every
  /\ x.spoke = w.spoke /\ x.introduced = w.introduced
  /\ x.due = w.due /\ x.ledger = w.ledger /\ x.before = w.before /\ x.looked = w.looked

LEMMA Others ==
  ASSUME ThreadInv, NEW t \in Thread, NEW x, Moves(t, x)
  PROVE  \A u \in Thread : thread'[u] = IF u = t THEN x ELSE thread[u]
BY DEF ThreadInv, Moves

LEMMA MovedType ==
  ASSUME TypeInv, NEW t \in Thread, NEW x \in Wake, Moves(t, x), clock' = clock,
         Locals(x), x.now <= clock, x.before <= Len(done),
         Len(done') \in Nat, Len(done') >= Len(done)
  PROVE  ThreadInv'
<1>1. thread' \in [Thread -> Wake \cup {Idle}]
  BY DEF Moves, TypeInv, ThreadInv
<1>2. ASSUME NEW u \in Thread, thread'[u] # Idle
      PROVE  Locals(thread'[u]) /\ thread'[u].now <= clock' /\ thread'[u].before <= Len(done')
  <2>1. CASE u = t
    <3>1. thread'[u] = x
      BY <2>1, Others DEF TypeInv
    <3>2. x.before \in Nat /\ Len(done) \in Nat
      BY DEF Wake, TypeInv
    <3>3. QED
      BY <3>1, <3>2
  <2>2. CASE u # t
    <3>1. thread'[u] = thread[u] /\ thread[u] # Idle
      BY <1>2, <2>2, Others DEF TypeInv
    <3>2. thread[u] \in Wake
      BY <3>1 DEF TypeInv, ThreadInv
    <3>3. thread[u].before \in Nat /\ Len(done) \in Nat
      BY <3>2 DEF Wake, TypeInv
    <3>4. QED
      BY <3>1, <3>3 DEF TypeInv, ThreadInv
  <2>3. QED
    BY <2>1, <2>2
<1>3. QED
  BY <1>1, <1>2 DEF ThreadInv, Locals

LEMMA AnswerType ==
  ASSUME TypeInv, NEW t \in Thread, Answer(t), clock' = clock, done' = done
  PROVE  /\ ThreadInv'
         /\ \A u \in Thread : thread'[u] = IF u = t THEN Idle ELSE thread[u]
<1>1. \A u \in Thread : thread'[u] = IF u = t THEN Idle ELSE thread[u]
  BY DEF Answer, TypeInv, ThreadInv
<1>2. thread' \in [Thread -> Wake \cup {Idle}]
  BY DEF Answer, TypeInv, ThreadInv
<1>3. QED
  BY <1>1, <1>2 DEF TypeInv, ThreadInv, Locals
LEMMA AwakeIsWake ==
  ASSUME TypeInv, NEW t \in Thread, thread[t] # Idle
  PROVE  /\ thread[t] \in Wake /\ Locals(thread[t])
         /\ thread[t].now <= clock /\ thread[t].before <= Len(done)
BY DEF TypeInv, ThreadInv

LEMMA BeginMoves ==
  ASSUME TypeInv, NEW t \in Thread, BeginWake(t)
  PROVE  \E x \in Wake :
           /\ Moves(t, x) /\ Locals(x) /\ x.now <= clock /\ x.before = 0
           /\ x.at = "config" /\ x.sends = None
<1> DEFINE x == [at |-> "config", now |-> clock, every |-> 0, fresh |-> {},
                 introduced |-> FALSE, spoke |-> FALSE, due |-> {}, ledger |-> FALSE,
                 before |-> 0, looked |-> 0, writes |-> WriteBudget, calls |-> ModelBudget,
                 emitted |-> {}, sends |-> None]
<1>1. WriteBudget \in 0 .. WriteBudget /\ ModelBudget \in 0 .. ModelBudget
  BY PassAssumption
<1>2. x \in Wake
  BY <1>1 DEF Wake, Steps, TypeInv
<1>3. Locals(x)
  BY DEF Locals, Holding, TypeInv
<1>4. Moves(t, x)
  BY DEF BeginWake, Moves
<1>5. x.now = clock /\ x.before = 0 /\ x.at = "config" /\ x.sends = None
  OBVIOUS
<1>6. clock <= clock
  BY DEF TypeInv
<1> HIDE DEF x
<1>7. QED
  BY <1>2, <1>3, <1>4, <1>5, <1>6

LEMMA ConfigMoves ==
  ASSUME TypeInv, NEW t \in Thread, NEW e \in Every, ReadConfig(t, e)
  PROVE  /\ thread[t] # Idle
         /\ \E x \in Wake :
              /\ Moves(t, x) /\ Locals(x) /\ x.now = thread[t].now
              /\ x.before = thread[t].before
              /\ x.at = "last" /\ x.sends = None /\ thread[t].sends = None
<1> DEFINE w == thread[t]
           x == [w EXCEPT !.at = "last", !.every = e]
<1>1. w # Idle /\ w \in Wake /\ Locals(w) /\ w.at = "config"
  BY AwakeIsWake DEF ReadConfig, At
<1>2. Moves(t, x)
  BY DEF ReadConfig, Moves
<1> HIDE DEF w
<1>3. x \in Wake
  BY <1>1 DEF Wake, Steps
<1>4. Locals(x) /\ w.sends = None
  BY <1>1 DEF Wake, Locals, Holding, Unread
<1>5. x.now = w.now /\ x.before = w.before /\ x.at = "last" /\ x.sends = w.sends
  BY <1>1 DEF Wake
<1>6. QED
  BY <1>1, <1>2, <1>3, <1>4, <1>5 DEF w

\* The last think is read: the wake ends, or is about to store its own.
LEMMA LastMoves ==
  ASSUME TypeInv, NEW t \in Thread, NEW reads \in BOOLEAN, ReadLast(t, reads)
  PROVE  /\ thread[t] # Idle /\ thread[t].sends = None /\ thread[t].every \in Every
         /\ \/ Answer(t) /\ UNCHANGED unpaced
            \/ /\ ~Throttled(thread[t], IF reads THEN lastThink ELSE 0)
               /\ unpaced' = (unpaced \/ ~reads \/ \E u \in Thread : At(u, "store"))
               /\ \E x \in Wake :
                    /\ Moves(t, x) /\ Locals(x) /\ Same(thread[t], x)
                    /\ x.at = "store" /\ x.sends = None
<1> DEFINE w == thread[t]
           x == [w EXCEPT !.at = "store"]
<1>1. w # Idle /\ w \in Wake /\ Locals(w) /\ w.at = "last"
  BY AwakeIsWake DEF ReadLast, At
<1>2. w.sends = None /\ w.every \in Every
  BY <1>1 DEF Locals, Holding
<1>3. CASE Throttled(w, IF reads THEN lastThink ELSE 0)
  BY <1>1, <1>2, <1>3 DEF ReadLast
<1>4. CASE ~Throttled(w, IF reads THEN lastThink ELSE 0)
  <2>1. Moves(t, x) /\ unpaced' = (unpaced \/ ~reads \/ \E u \in Thread : At(u, "store"))
    BY <1>4 DEF ReadLast, Moves, Goto
  <2> HIDE DEF w
  <2>2. x \in Wake
    BY <1>1 DEF Wake, Steps
  <2>3. Locals(x) /\ Same(w, x) /\ x.at = "store" /\ x.sends = None
    BY <1>1, <1>2 DEF Wake, Locals, Holding, Unread, Same
  <2>4. QED
    BY <1>1, <1>2, <1>4, <2>1, <2>2, <2>3 DEF w
<1>5. QED
  BY <1>3, <1>4

LEMMA StoreMoves ==
  ASSUME TypeInv, NEW t \in Thread, NEW works \in BOOLEAN, StoreLast(t, works)
  PROVE  /\ thread[t] # Idle /\ thread[t].sends = None /\ thread[t].every \in Every
         /\ \E x \in Wake :
              /\ Moves(t, x) /\ Locals(x) /\ Same(thread[t], x)
              /\ x.at = "mark" /\ x.sends = None
<1> DEFINE w == thread[t]
           x == [w EXCEPT !.at = "mark", !.writes = w.writes - 1]
<1>1. w # Idle /\ w \in Wake /\ Locals(w) /\ w.at = "store"
  BY AwakeIsWake DEF StoreLast, At
<1>2. w.sends = None /\ w.writes = WriteBudget /\ w.every \in Every
  BY <1>1 DEF Locals, Holding
<1>3. Moves(t, x)
  BY DEF StoreLast, Moves
<1> HIDE DEF w
<1>4. w.writes - 1 \in 0 .. WriteBudget
  BY <1>2, PassAssumption
<1>5. x \in Wake
  BY <1>1, <1>4 DEF Wake, Steps
<1>6. Locals(x) /\ Same(w, x) /\ x.at = "mark" /\ x.sends = None
  BY <1>1, <1>2 DEF Wake, Locals, Holding, Unread, Same
<1>7. QED
  BY <1>1, <1>2, <1>3, <1>5, <1>6 DEF w

LEMMA MarkMoves ==
  ASSUME TypeInv, NEW t \in Thread, NEW listed \in SUBSET Job, NEW answers \in BOOLEAN,
         MarkSeen(t, listed, answers)
  PROVE  /\ thread[t] # Idle /\ thread[t].sends = None
         /\ \E x \in Wake :
              /\ Moves(t, x) /\ Locals(x) /\ Same(thread[t], x)
              /\ x.at = "flag" /\ x.sends = None
<1> DEFINE w == thread[t]
           f == IF answers THEN listed \ DOMAIN seen ELSE {}
           x == [w EXCEPT !.at = "flag", !.fresh = f]
<1>1. w # Idle /\ w \in Wake /\ Locals(w) /\ w.at = "mark"
  BY AwakeIsWake DEF MarkSeen, At
<1>2. w.sends = None
  BY <1>1 DEF Locals, Holding
<1>3. Moves(t, x)
  BY DEF MarkSeen, Moves
<1>4. f \in SUBSET Job
  OBVIOUS
<1> HIDE DEF w, f
<1>5. x \in Wake
  BY <1>1, <1>4 DEF Wake, Steps
<1>6. Locals(x) /\ Same(w, x) /\ x.at = "flag" /\ x.sends = None
  BY <1>1, <1>2 DEF Wake, Locals, Holding, Unread, Same
<1>7. QED
  BY <1>1, <1>2, <1>3, <1>5, <1>6 DEF w

LEMMA FlagMoves ==
  ASSUME TypeInv, NEW t \in Thread, NEW reads \in BOOLEAN, ReadIntroduced(t, reads)
  PROVE  /\ thread[t] # Idle /\ thread[t].sends = None
         /\ \E x \in Wake :
              /\ Moves(t, x) /\ Locals(x) /\ x.now = thread[t].now
              /\ x.before = thread[t].before /\ ~x.ledger
              /\ x.at = "tasks" /\ x.sends = None
              /\ x.spoke = Spoken /\ x.introduced = (reads /\ introduced)
<1> DEFINE w == thread[t]
           said == Spoken
           known == reads /\ introduced
           x == [w EXCEPT !.at = "tasks", !.spoke = said, !.introduced = known]
<1>1. w # Idle /\ w \in Wake /\ Locals(w) /\ w.at = "flag"
  BY AwakeIsWake DEF ReadIntroduced, At
<1>2. w.sends = None
  BY <1>1 DEF Locals, Holding
<1>3. Moves(t, x)
  BY DEF ReadIntroduced, Moves
<1>4. said \in BOOLEAN /\ known \in BOOLEAN
  BY DEF Spoken
<1> HIDE DEF w, said, known
<1>5. x \in Wake
  BY <1>1, <1>4 DEF Wake, Steps, Informed
<1>6. /\ Locals(x) /\ x.now = w.now /\ x.before = w.before /\ ~x.ledger /\ x.at = "tasks"
      /\ x.sends = None /\ x.spoke = said /\ x.introduced = known
  BY <1>1, <1>2 DEF Wake, Locals, Holding, Unread
<1>7. QED
  BY <1>1, <1>2, <1>3, <1>5, <1>6 DEF w, said, known

LEMMA TasksMoves ==
  ASSUME TypeInv, NEW t \in Thread, NEW playbook \in SUBSET Task, NEW reads \in BOOLEAN,
         ReadTasks(t, playbook, reads)
  PROVE  /\ thread[t] # Idle /\ thread[t].at \in Informed /\ thread[t].sends = None
         /\ \E x \in Wake :
              /\ Moves(t, x) /\ Locals(x) /\ x.now = thread[t].now
              /\ x.spoke = thread[t].spoke /\ x.introduced = thread[t].introduced
              /\ x.at = "plan" /\ x.sends = None
              /\ x.due = {id \in playbook : reads => Due(id)} /\ x.ledger = reads
              /\ x.before = Len(done) /\ x.looked = clock
<1> DEFINE w == thread[t]
           d == {id \in playbook : reads => Due(id)}
           n == Len(done)
           x == [w EXCEPT !.at = "plan", !.due = d, !.ledger = reads, !.before = n,
                          !.looked = clock]
<1>1. w # Idle /\ w \in Wake /\ Locals(w) /\ w.at = "tasks"
  BY AwakeIsWake DEF ReadTasks, At
<1>2. w.sends = None /\ w.at \in Informed
  BY <1>1 DEF Locals, Holding, Informed
<1>3. Moves(t, x)
  BY DEF ReadTasks, Moves
<1>4. d \in SUBSET Task /\ n \in Nat /\ clock \in Nat
  BY DEF TypeInv
<1> HIDE DEF w, d, n
<1>5. x \in Wake
  BY <1>1, <1>4 DEF Wake, Steps, Informed
<1>6. /\ Locals(x) /\ x.now = w.now /\ x.spoke = w.spoke /\ x.introduced = w.introduced
      /\ x.at = "plan" /\ x.sends = None
      /\ x.due = d /\ x.ledger = reads /\ x.before = n /\ x.looked = clock
  BY <1>1, <1>2 DEF Wake, Locals, Holding, Unread
<1>7. QED
  BY <1>1, <1>2, <1>3, <1>5, <1>6 DEF w, d, n

LEMMA DoneMoves ==
  ASSUME TypeInv, NEW t \in Thread, NEW id \in Task, NEW effect \in BOOLEAN,
         TaskDone(t, id, effect)
  PROVE  /\ thread[t] # Idle /\ thread[t].at \in Informed /\ thread[t].sends = None
         /\ \E x \in Wake :
              /\ Moves(t, x) /\ Locals(x) /\ Same(thread[t], x)
              /\ x.at = "plan" /\ x.sends = None
<1> DEFINE w == thread[t]
           x == [w EXCEPT !.calls = w.calls - 1]
<1>1. w # Idle /\ w \in Wake /\ Locals(w) /\ w.at = "plan" /\ w.calls > 0
  BY AwakeIsWake DEF TaskDone, Planning, At
<1>2. w.sends = None /\ w.at \in Informed
  BY <1>1 DEF Locals, Holding, Informed
<1>3. Moves(t, x)
  BY DEF TaskDone, Moves
<1> HIDE DEF w
<1>4. w.calls - 1 \in 0 .. ModelBudget
  BY <1>1, PassAssumption DEF Wake
<1>5. x \in Wake
  BY <1>1, <1>4 DEF Wake
<1>6. Locals(x) /\ Same(w, x) /\ x.at = "plan" /\ x.sends = None
  BY <1>1, <1>2 DEF Wake, Locals, Holding, Unread, Same
<1>7. QED
  BY <1>1, <1>2, <1>3, <1>5, <1>6 DEF w

\* A line is refused, or not signed, and nothing happens; or it is in hand.
LEMMA EmitMoves ==
  ASSUME TypeInv, NEW t \in Thread, NEW m \in Message, NEW signs \in BOOLEAN,
         Emit(t, m, signs)
  PROVE  /\ thread[t] # Idle /\ thread[t].at \in Informed /\ thread[t].sends = None
         /\ \E x \in Wake :
              /\ Moves(t, x) /\ Locals(x) /\ Same(thread[t], x)
              /\ \/ x.at = "plan" /\ x.sends = None /\ signedSo' = signedSo
                 \/ /\ x.at = "tail" /\ signedSo' = signedSo + 1
                    /\ x.sends \in Sending
                    /\ x.sends.message = m /\ x.sends.nonce = signedSo + 1
<1> DEFINE w == thread[t]
           s == [message |-> m, nonce |-> signedSo + 1, tail |-> 0, base |-> None]
           no == [w EXCEPT !.calls = w.calls - 1]
           lost == [w EXCEPT !.calls = w.calls - 1, !.writes = w.writes - 1]
           yes == [w EXCEPT !.at = "tail", !.calls = w.calls - 1, !.writes = w.writes - 1,
                            !.sends = s]
<1>1. w # Idle /\ w \in Wake /\ Locals(w) /\ w.at = "plan" /\ w.calls > 0
  BY AwakeIsWake DEF Emit, Planning, At
<1>2. w.sends = None /\ w.at \in Informed
  BY <1>1 DEF Locals, Holding, Informed
<1>3. \/ Moves(t, no) /\ signedSo' = signedSo
      \/ MayEmit(t, m) /\ Moves(t, lost) /\ signedSo' = signedSo
      \/ MayEmit(t, m) /\ Moves(t, yes) /\ signedSo' = signedSo + 1
  BY DEF Emit, Moves
<1>4. s \in Sending /\ s.message = m /\ s.nonce = signedSo + 1 /\ s # None
  BY WakeAssumption DEF Sending, TypeInv
<1>5. w.calls - 1 \in 0 .. ModelBudget
  BY <1>1, PassAssumption DEF Wake
<1>6. MayEmit(t, m) => w.writes - 1 \in 0 .. WriteBudget
  BY <1>1, PassAssumption DEF Wake, MayEmit
<1> HIDE DEF w, s
<1>7. no \in Wake /\ (MayEmit(t, m) => lost \in Wake /\ yes \in Wake)
  BY <1>1, <1>4, <1>5, <1>6 DEF Wake, Steps, Informed
<1>8. /\ Locals(no) /\ Same(w, no) /\ no.at = "plan" /\ no.sends = None
      /\ Locals(lost) /\ Same(w, lost) /\ lost.at = "plan" /\ lost.sends = None
  BY <1>1, <1>2 DEF Wake, Locals, Holding, Unread, Same
<1>9. Locals(yes) /\ Same(w, yes) /\ yes.at = "tail" /\ yes.sends = s
  BY <1>1, <1>2, <1>4 DEF Wake, Locals, Holding, Unread, Same
<1> HIDE DEF no, lost, yes
<1>10. QED
  BY <1>1, <1>2, <1>3, <1>4, <1>7, <1>8, <1>9 DEF w

LEMMA TailMoves ==
  ASSUME TypeInv, NEW t \in Thread, NEW reads \in BOOLEAN, ReadTail(t, reads)
  PROVE  /\ Sends(t) /\ thread[t].at = "tail"
         /\ \E x \in Wake :
              /\ Moves(t, x) /\ Locals(x) /\ Same(thread[t], x)
              /\ x.at = "write" /\ x.sends \in Sending
              /\ x.sends.message = thread[t].sends.message
              /\ x.sends.nonce = thread[t].sends.nonce
              /\ x.sends.tail = Len(public) /\ x.sends.base \in {None, Len(public)}
<1> DEFINE w == thread[t]
           n == Len(public)
           b == IF reads THEN n ELSE None
           s == [w.sends EXCEPT !.tail = n, !.base = b]
           x == [w EXCEPT !.at = "write", !.sends = s]
<1>1. w # Idle /\ w \in Wake /\ Locals(w) /\ w.at = "tail"
  BY AwakeIsWake DEF ReadTail, At
<1>2. w.sends # None /\ w.at \in Informed /\ w.sends \in Sending
  BY <1>1 DEF Locals, Holding, Informed, Wake
<1>3. Moves(t, x)
  BY DEF ReadTail, Moves
<1>4. n \in Nat /\ b \in {None, n}
  BY DEF TypeInv
<1> HIDE DEF w, n, b
<1>5. /\ s \in Sending /\ s.message = w.sends.message /\ s.nonce = w.sends.nonce
      /\ s.tail = n /\ s.base = b
  BY <1>2, <1>4 DEF Sending
<1>6. s # None
  BY <1>5, WakeAssumption
<1> HIDE DEF s
<1>7. x \in Wake
  BY <1>1, <1>5 DEF Wake, Steps, Informed
<1>8. Locals(x) /\ Same(w, x) /\ x.at = "write" /\ x.sends = s
  BY <1>1, <1>6 DEF Wake, Locals, Holding, Unread, Same
<1> HIDE DEF x
<1>9. QED
  BY <1>1, <1>2, <1>3, <1>4, <1>5, <1>7, <1>8 DEF w, n, Sends

\* The write is answered, or counts as not sent.
LEMMA WriteMoves ==
  ASSUME TypeInv, NEW t \in Thread, NEW arrives, NEW ok \in BOOLEAN, Write(t, arrives, ok)
  PROVE  /\ Sends(t) /\ thread[t].at = "write" /\ thread[t].sends \in Sending
         /\ Line(t) \in Lines
         /\ \E x \in Wake :
              /\ Moves(t, x) /\ Locals(x) /\ Same(thread[t], x)
              /\ \/ ok /\ x.at = "proof" /\ x.sends = thread[t].sends
                 \/ ~ok /\ x.at = "plan" /\ x.sends = None
<1> DEFINE w == thread[t]
           yes == [w EXCEPT !.at = "proof"]
           no == [w EXCEPT !.at = "plan", !.sends = None]
<1>1. w # Idle /\ w \in Wake /\ Locals(w) /\ w.at = "write"
  BY AwakeIsWake DEF Write, At
<1>2. w.sends # None /\ w.at \in Informed /\ w.sends \in Sending
  BY <1>1 DEF Locals, Holding, Informed, Wake
<1>3. IF ok THEN Moves(t, yes) ELSE Moves(t, no)
  BY DEF Write, Moves, Goto
<1>4. Line(t) \in Lines
  BY <1>2 DEF Line, Lines, Sending
<1> HIDE DEF w
<1>5. yes \in Wake /\ no \in Wake
  BY <1>1 DEF Wake, Steps, Informed
<1>6. /\ Locals(yes) /\ Same(w, yes) /\ yes.at = "proof" /\ yes.sends = w.sends
      /\ Locals(no) /\ Same(w, no) /\ no.at = "plan" /\ no.sends = None
  BY <1>1, <1>2 DEF Wake, Locals, Holding, Unread, Same
<1> HIDE DEF yes, no
<1>7. QED
  BY <1>1, <1>2, <1>3, <1>4, <1>5, <1>6 DEF w, Sends

\* Whether confirmed or not, a greeting goes on to the flag.
LEMMA ConfirmMoves ==
  ASSUME TypeInv, NEW t \in Thread, NEW reads \in BOOLEAN, NEW echoes \in BOOLEAN,
         Confirm(t, reads, echoes)
  PROVE  /\ Sends(t) /\ thread[t].at = "proof" /\ thread[t].sends \in Sending
         /\ \E x \in Wake :
              /\ Moves(t, x) /\ Locals(x) /\ Same(thread[t], x)
              /\ \/ Says(t) /\ x.at = "introduce" /\ x.sends = thread[t].sends
                 \/ ~Says(t) /\ x.at = "plan" /\ x.sends = None
<1> DEFINE w == thread[t]
           em == w.emitted \cup {RecentDigest(w.sends.message)}
           yes == [w EXCEPT !.at = "introduce", !.emitted = em, !.sends = w.sends]
           no == [w EXCEPT !.at = "plan", !.emitted = em, !.sends = None]
<1>1. w # Idle /\ w \in Wake /\ Locals(w) /\ w.at = "proof"
  BY AwakeIsWake DEF Confirm, At
<1>2. w.sends # None /\ w.at \in Informed /\ w.sends \in Sending
  BY <1>1 DEF Locals, Holding, Informed, Wake
<1>3. Says(t) => Moves(t, yes)
  BY DEF Confirm, AfterSend, Moves
<1>4. ~Says(t) => Moves(t, no)
  BY DEF Confirm, AfterSend, Moves
<1>5. em \in SUBSET {RecentDigest(m) : m \in Message}
  <2>1. w.emitted \in SUBSET {RecentDigest(m) : m \in Message}
    BY <1>1 DEF Wake
  <2>2. w.sends.message \in Message
    BY <1>2 DEF Sending
  <2>3. QED
    BY <2>1, <2>2
<1> HIDE DEF w, em
<1>6. yes \in Wake /\ no \in Wake
  BY <1>1, <1>5 DEF Wake, Steps, Informed
<1>7. /\ Locals(yes) /\ Same(w, yes) /\ yes.at = "introduce" /\ yes.sends = w.sends
      /\ Locals(no) /\ Same(w, no) /\ no.at = "plan" /\ no.sends = None
  BY <1>1, <1>2 DEF Wake, Locals, Holding, Unread, Same
<1> HIDE DEF yes, no
<1>8. QED
  BY <1>1, <1>2, <1>3, <1>4, <1>6, <1>7 DEF w, Sends

LEMMA IntroduceMoves ==
  ASSUME TypeInv, NEW t \in Thread, NEW works \in BOOLEAN, Introduce(t, works)
  PROVE  /\ Sends(t) /\ thread[t].at = "introduce"
         /\ \E x \in Wake :
              /\ Moves(t, x) /\ Locals(x) /\ Same(thread[t], x)
              /\ x.at = "plan" /\ x.sends = None
<1> DEFINE w == thread[t]
           x == [w EXCEPT !.at = "plan", !.sends = None]
<1>1. w # Idle /\ w \in Wake /\ Locals(w) /\ w.at = "introduce"
  BY AwakeIsWake DEF Introduce, At
<1>2. w.sends # None
  BY <1>1 DEF Locals, Holding
<1>3. Moves(t, x)
  BY DEF Introduce, Moves
<1> HIDE DEF w
<1>4. x \in Wake
  BY <1>1 DEF Wake, Steps, Informed
<1>5. Locals(x) /\ Same(w, x) /\ x.at = "plan" /\ x.sends = None
  BY <1>1, <1>2 DEF Wake, Locals, Holding, Unread, Same
<1>6. QED
  BY <1>1, <1>2, <1>3, <1>4, <1>5 DEF w, Sends
-----------------------------------------------------------------------------
(* Types.                                                                  *)

LEMMA KeptType ==
  ASSUME TypeInv, NEW t \in Thread, thread[t] # Idle, NEW x \in Wake, Moves(t, x), Locals(x),
         x.now = thread[t].now, x.before = thread[t].before,
         clock' = clock, done' = done
  PROVE  ThreadInv'
<1>1. x.now <= clock /\ x.before <= Len(done)
  BY AwakeIsWake
<1>2. Len(done') \in Nat /\ Len(done') >= Len(done)
  BY DEF TypeInv
<1>3. QED
  BY <1>1, <1>2, MovedType

LEMMA TypeBegin ==
  ASSUME TypeInv, NEW t \in Thread, BeginWake(t)
  PROVE  TypeInv'
<1>1. PICK x \in Wake : Moves(t, x) /\ Locals(x) /\ x.now <= clock /\ x.before = 0
  BY BeginMoves
<1>2. Len(done) \in Nat /\ done' = done /\ clock' = clock
  BY DEF BeginWake, tasking, TypeInv
<1>3. x.before <= Len(done) /\ Len(done') \in Nat /\ Len(done') >= Len(done)
  BY <1>1, <1>2
<1>4. ThreadInv'
  BY <1>1, <1>2, <1>3, MovedType
<1>5. QED
  BY <1>4 DEF BeginWake, marking, speaking, tasking, TypeInv

LEMMA TypeConfig ==
  ASSUME TypeInv, NEW t \in Thread, NEW e \in Every, ReadConfig(t, e)
  PROVE  TypeInv'
<1>1. clock' = clock /\ done' = done
  BY DEF ReadConfig, passes, tasking
<1>2. ThreadInv'
  BY <1>1, ConfigMoves, KeptType
<1>3. QED
  BY <1>2 DEF ReadConfig, passes, pacing, marking, speaking, tasking, TypeInv

LEMMA TypeLast ==
  ASSUME TypeInv, NEW t \in Thread, NEW reads \in BOOLEAN, ReadLast(t, reads)
  PROVE  TypeInv'
<1>1. clock' = clock /\ done' = done
  BY DEF ReadLast, tasking
<1>2. ThreadInv' /\ unpaced' \in BOOLEAN
  <2>1. CASE Answer(t) /\ UNCHANGED unpaced
    BY <1>1, <2>1, AnswerType DEF TypeInv
  <2>2. CASE ~(Answer(t) /\ UNCHANGED unpaced)
    <3>1. unpaced' = (unpaced \/ ~reads \/ \E u \in Thread : At(u, "store"))
      BY <2>2, LastMoves
    <3>2. ThreadInv'
      BY <1>1, <2>2, LastMoves, KeptType DEF Same
    <3>3. QED
      BY <3>1, <3>2 DEF TypeInv
  <2>3. QED
    BY <2>1, <2>2
<1>3. QED
  BY <1>2 DEF ReadLast, marking, speaking, tasking, TypeInv

LEMMA TypeStore ==
  ASSUME TypeInv, NEW t \in Thread, NEW works \in BOOLEAN, StoreLast(t, works)
  PROVE  TypeInv'
<1>1. clock' = clock /\ done' = done
  BY DEF StoreLast, tasking
<1>2. ThreadInv'
  BY <1>1, StoreMoves, KeptType DEF Same
<1>3. thread[t] \in Wake /\ thread[t].now <= clock /\ thread[t].every \in Every
  BY StoreMoves, AwakeIsWake
<1>4. thread[t].now \in Nat /\ thread[t].every \in Nat
  BY <1>3, PassAssumption DEF Wake
<1>5. [start |-> thread[t].now, every |-> thread[t].every] \in Stored
  BY <1>4 DEF Stored
<1>6. thinks' \in Seq(Stored)
  BY <1>5 DEF StoreLast, TypeInv
<1>7. lastThink' \in Nat /\ lastThink' <= clock' /\ unpaced' \in BOOLEAN
  BY <1>1, <1>3, <1>4 DEF StoreLast, TypeInv
<1>8. QED
  BY <1>2, <1>6, <1>7 DEF StoreLast, marking, speaking, tasking, TypeInv

LEMMA TypeMark ==
  ASSUME TypeInv, NEW t \in Thread, NEW listed \in SUBSET Job, NEW answers \in BOOLEAN,
         MarkSeen(t, listed, answers)
  PROVE  TypeInv'
<1>1. clock' = clock /\ done' = done
  BY DEF MarkSeen, tasking
<1>2. ThreadInv'
  BY <1>1, MarkMoves, KeptType DEF Same
<1>3. DOMAIN seen' \subseteq Job
  BY DEF MarkSeen, TypeInv
<1>4. offered' \in [Job -> Nat]
  BY DEF MarkSeen, TypeInv
<1>5. dropped' \in [Job -> Nat]
  <2>1. PICK gone : dropped' = [j \in Job |-> IF j \in gone THEN dropped[j] + 1 ELSE dropped[j]]
    BY DEF MarkSeen
  <2>2. QED
    BY <2>1 DEF TypeInv
<1>6. QED
  BY <1>2, <1>3, <1>4, <1>5 DEF MarkSeen, pacing, speaking, tasking, TypeInv

LEMMA TypeFlag ==
  ASSUME TypeInv, NEW t \in Thread, NEW reads \in BOOLEAN, ReadIntroduced(t, reads)
  PROVE  TypeInv'
<1>1. clock' = clock /\ done' = done
  BY DEF ReadIntroduced, tasking
<1>2. ThreadInv'
  BY <1>1, FlagMoves, KeptType
<1>3. unsure' \in BOOLEAN
  BY DEF ReadIntroduced, TypeInv
<1>4. QED
  BY <1>2, <1>3 DEF ReadIntroduced, pacing, marking, tasking, TypeInv

LEMMA TypeTasks ==
  ASSUME TypeInv, NEW t \in Thread, NEW playbook \in SUBSET Task, NEW reads \in BOOLEAN,
         ReadTasks(t, playbook, reads)
  PROVE  TypeInv'
<1>1. clock' = clock /\ done' = done /\ Len(done) \in Nat
  <2>1. clock' = clock /\ done' = done
    BY DEF ReadTasks, passes, tasking
  <2>2. QED
    BY <2>1 DEF TypeInv
<1>2. PICK x \in Wake : /\ Moves(t, x) /\ Locals(x) /\ x.now = thread[t].now
                        /\ x.before = Len(done)
  BY TasksMoves
<1>3. thread[t] # Idle
  BY DEF ReadTasks, At
<1>4. x.now <= clock /\ x.before <= Len(done) /\ Len(done') \in Nat /\ Len(done') >= Len(done)
  BY <1>1, <1>2, <1>3, AwakeIsWake
<1>5. ThreadInv'
  BY <1>1, <1>2, <1>4, MovedType
<1>6. QED
  BY <1>5 DEF ReadTasks, passes, pacing, marking, speaking, tasking, TypeInv

\* A run that is recorded.
LEMMA DoneAppends ==
  ASSUME TypeInv, NEW t \in Thread, NEW id \in Task, TaskDone(t, id, TRUE)
  PROVE  LET n == Len(done) + 1
             new == [id |-> id, at |-> clock, row |-> n]
         IN  /\ n \in Nat /\ new \in Rows
             /\ runs' = IF Cardinality(Recorded(new)) <= MaxRuns THEN Recorded(new)
                        ELSE {x \in Recorded(new) : \E y \in Recorded(new) : Older(y, x)}
             /\ done' \in Seq(Records) /\ Len(done') = n /\ DOMAIN done' = 1 .. n
             /\ DOMAIN done = 1 .. Len(done)
             /\ done'[n] = [id |-> id, at |-> clock]
             /\ \A k \in DOMAIN done : done'[k] = done[k]
<1>1. Len(done) \in Nat /\ [id |-> id, at |-> clock] \in Records
  BY DEF TypeInv, Records
<1>2. done' = Append(done, [id |-> id, at |-> clock])
  BY DEF TaskDone
<1>3. done \in Seq(Records)
  BY DEF TypeInv
<1>4. /\ done' \in Seq(Records) /\ Len(done') = Len(done) + 1
      /\ DOMAIN done' = 1 .. Len(done) + 1 /\ DOMAIN done = 1 .. Len(done)
      /\ done'[Len(done) + 1] = [id |-> id, at |-> clock]
      /\ \A k \in DOMAIN done : done'[k] = done[k]
  BY <1>1, <1>2, <1>3
<1>5. [id |-> id, at |-> clock, row |-> Len(done) + 1] \in Rows
  BY <1>1 DEF Rows, TypeInv
<1>6. QED
  BY <1>1, <1>4, <1>5 DEF TaskDone

LEMMA TypeDone ==
  ASSUME TypeInv, NEW t \in Thread, NEW id \in Task, NEW effect \in BOOLEAN,
         TaskDone(t, id, effect)
  PROVE  TypeInv'
<1> DEFINE new == [id |-> id, at |-> clock, row |-> Len(done) + 1]
<1>1. clock' = clock
  BY DEF TaskDone
<1>2. /\ runs' \subseteq Rows /\ done' \in Seq(Records)
      /\ Len(done') \in Nat /\ Len(done') >= Len(done)
  <2>1. CASE effect
    <3>1. TaskDone(t, id, TRUE)
      BY <2>1
    <3>2. /\ runs' = IF Cardinality(Recorded(new)) <= MaxRuns THEN Recorded(new)
                      ELSE {x \in Recorded(new) : \E y \in Recorded(new) : Older(y, x)}
          /\ new \in Rows /\ done' \in Seq(Records) /\ Len(done') = Len(done) + 1
      BY <3>1, DoneAppends
    <3>3. runs' \subseteq Recorded(new) /\ Len(done) \in Nat
      BY <3>2 DEF TypeInv
    <3>4. QED
      BY <3>2, <3>3 DEF Recorded, TypeInv
  <2>2. CASE ~effect
    BY <2>2 DEF TaskDone, tasking, TypeInv
  <2>3. QED
    BY <2>1, <2>2
<1>3. PICK x \in Wake : Moves(t, x) /\ Locals(x) /\ Same(thread[t], x)
  BY DoneMoves
<1>4. x.now <= clock /\ x.before <= Len(done)
  BY <1>3, DoneMoves, AwakeIsWake DEF Same
<1>5. ThreadInv'
  BY <1>1, <1>2, <1>3, <1>4, MovedType
<1>6. QED
  BY <1>2, <1>5 DEF TaskDone, pacing, marking, speaking, TypeInv

LEMMA TypeEmit ==
  ASSUME TypeInv, NEW t \in Thread, NEW m \in Message, NEW signs \in BOOLEAN,
         Emit(t, m, signs)
  PROVE  TypeInv'
<1>1. clock' = clock /\ done' = done
  BY DEF Emit, tasking
<1>2. /\ thread[t] # Idle
      /\ \E x \in Wake : Moves(t, x) /\ Locals(x) /\ Same(thread[t], x)
      /\ signedSo' \in {signedSo, signedSo + 1}
  BY EmitMoves
<1>3. ThreadInv'
  BY <1>1, <1>2, KeptType DEF Same
<1>4. QED
  BY <1>2, <1>3 DEF Emit, pacing, marking, tasking, TypeInv

LEMMA TypeTail ==
  ASSUME TypeInv, NEW t \in Thread, NEW reads \in BOOLEAN, ReadTail(t, reads)
  PROVE  TypeInv'
<1>1. clock' = clock /\ done' = done
  BY DEF ReadTail, passes, tasking
<1>2. ThreadInv'
  BY <1>1, TailMoves, KeptType DEF Same, Sends
<1>3. QED
  BY <1>2 DEF ReadTail, passes, pacing, marking, speaking, tasking, TypeInv

LEMMA TypeWrite ==
  ASSUME TypeInv, NEW t \in Thread, NEW arrives, NEW ok \in BOOLEAN, Write(t, arrives, ok)
  PROVE  TypeInv'
<1>1. clock' = clock /\ done' = done
  BY DEF Write, tasking
<1>2. ThreadInv'
  BY <1>1, WriteMoves, KeptType DEF Same, Sends
<1>3. Line(t) \in Lines
  BY WriteMoves
<1>4. public' \in Seq(Lines) /\ flying' \subseteq Lines
  BY <1>3 DEF Write, TypeInv
<1>5. unsure' \in BOOLEAN
  BY DEF Write, TypeInv, Says
<1>6. QED
  BY <1>2, <1>4, <1>5 DEF Write, pacing, marking, tasking, TypeInv

LEMMA TypeConfirm ==
  ASSUME TypeInv, NEW t \in Thread, NEW reads \in BOOLEAN, NEW echoes \in BOOLEAN,
         Confirm(t, reads, echoes)
  PROVE  TypeInv'
<1>1. clock' = clock /\ done' = done
  BY DEF Confirm, tasking
<1>2. thread[t] # Idle /\ \E x \in Wake : Moves(t, x) /\ Locals(x) /\ Same(thread[t], x)
  BY ConfirmMoves DEF Sends
<1>3. ThreadInv'
  BY <1>1, <1>2, KeptType DEF Same
<1>4. QED
  BY <1>3 DEF Confirm, pacing, marking, tasking, TypeInv

LEMMA TypeIntroduce ==
  ASSUME TypeInv, NEW t \in Thread, NEW works \in BOOLEAN, Introduce(t, works)
  PROVE  TypeInv'
<1>1. clock' = clock /\ done' = done
  BY DEF Introduce, tasking
<1>2. ThreadInv'
  BY <1>1, IntroduceMoves, KeptType DEF Same, Sends
<1>3. introduced' \in BOOLEAN /\ unsure' \in BOOLEAN
  BY DEF Introduce, TypeInv
<1>4. QED
  BY <1>2, <1>3 DEF Introduce, pacing, marking, tasking, TypeInv

LEMMA TypeEnd ==
  ASSUME TypeInv, NEW t \in Thread, EndWake(t) \/ DieWake(t)
  PROVE  TypeInv'
<1>1. /\ clock' = clock /\ done' = done /\ Answer(t)
      /\ unsure' = unsure \/ unsure' = (unsure \/ At(t, "proof") \/ At(t, "introduce"))
  BY DEF EndWake, DieWake, passes, speaking, tasking
<1>2. ThreadInv'
  BY <1>1, AnswerType
<1>3. unsure' \in BOOLEAN
  BY <1>1 DEF TypeInv, At
<1>4. QED
  BY <1>2, <1>3 DEF EndWake, DieWake, passes, pacing, marking, speaking, tasking, TypeInv

LEMMA TypeArrive ==
  ASSUME TypeInv, NEW l \in flying, Arrive(l)
  PROVE  TypeInv'
<1>1. l \in Lines
  BY DEF TypeInv
<1>2. public' \in Seq(Lines) /\ flying' \subseteq Lines
  BY <1>1 DEF Arrive, TypeInv
<1>3. ThreadInv'
  BY DEF Arrive, desk, tasking, TypeInv, ThreadInv, Locals
<1>4. QED
  BY <1>2, <1>3 DEF Arrive, desk, pacing, marking, tasking, TypeInv

LEMMA TypeTick ==
  ASSUME TypeInv, Tick, UNCHANGED passes
  PROVE  TypeInv'
<1>1. clock' = clock + 1 /\ thread' = thread /\ done' = done
  BY DEF Tick, passes, tasking
<1>2. ASSUME NEW t \in Thread, thread[t] # Idle
      PROVE  thread[t].now <= clock'
  <2>1. thread[t].now \in Nat /\ thread[t].now <= clock
    BY <1>2, AwakeIsWake DEF Wake
  <2>2. QED
    BY <1>1, <2>1 DEF TypeInv
<1>3. ThreadInv'
  BY <1>1, <1>2 DEF TypeInv, ThreadInv, Locals
<1>4. clock' \in Nat /\ clock' > 0 /\ lastThink <= clock'
  BY <1>1 DEF TypeInv
<1>5. QED
  BY <1>3, <1>4 DEF passes, pacing, marking, speaking, tasking, TypeInv

LEMMA TypeQuiet ==
  ASSUME TypeInv, UNCHANGED passVars
  PROVE  TypeInv'
<1>1. ThreadInv'
  BY DEF passVars, desk, passes, tasking, TypeInv, ThreadInv, Locals
<1>2. QED
  BY <1>1 DEF passVars, desk, passes, pacing, marking, speaking, tasking, TypeInv

-----------------------------------------------------------------------------
(* What each invariant reads of the wakes, and how a step leaves it alone.  *)

SamePace(u) == thread'[u] = Idle \/ thread'[u].at # "store" \/ thread'[u] = thread[u]

SameSends(u) ==
  \/ thread'[u] = thread[u]
  \/ ~Sends(u) /\ (thread'[u] = Idle \/ thread'[u].sends = None)

SameTold(u) ==
  \/ thread'[u] = Idle \/ thread'[u].at \notin Informed
  \/ /\ thread[u] # Idle /\ thread[u].at \in Informed
     /\ thread'[u].spoke = thread[u].spoke /\ thread'[u].introduced = thread[u].introduced

SameLedger(u) ==
  \/ thread'[u] = Idle \/ thread'[u].at \notin Informed \/ ~thread'[u].ledger
  \/ /\ thread[u] # Idle /\ thread[u].at \in Informed
     /\ thread'[u].due = thread[u].due /\ thread'[u].ledger = thread[u].ledger
     /\ thread'[u].before = thread[u].before /\ thread'[u].looked = thread[u].looked

LEMMA StoodFrame ==
  ASSUME NEW u, thread'[u] = thread[u]
  PROVE  SamePace(u) /\ SameSends(u) /\ SameTold(u) /\ SameLedger(u)
BY DEF SamePace, SameSends, SameTold, SameLedger

\* A step that keeps the locals.
LEMMA KeptFrame ==
  ASSUME TypeInv, NEW t \in Thread, thread[t] # Idle, NEW x, Moves(t, x), Same(thread[t], x),
         x.at # "store", x.at \in Informed => thread[t].at \in Informed
  PROVE  /\ \A u \in Thread : SamePace(u) /\ SameTold(u) /\ SameLedger(u)
         /\ x.sends = None /\ thread[t].sends = None => \A u \in Thread : SameSends(u)
<1>1. \A u \in Thread : thread'[u] = IF u = t THEN x ELSE thread[u]
  BY Others DEF TypeInv
<1>2. SamePace(t) /\ SameTold(t) /\ SameLedger(t)
  BY <1>1 DEF SamePace, SameTold, SameLedger, Same
<1>3. x.sends = None /\ thread[t].sends = None => SameSends(t)
  BY <1>1 DEF SameSends, Sends
<1>4. QED
  BY <1>1, <1>2, <1>3, StoodFrame

\* A wake that ends.
LEMMA EndFrame ==
  ASSUME TypeInv, NEW t \in Thread, Answer(t)
  PROVE  /\ \A u \in Thread : SamePace(u) /\ SameTold(u) /\ SameLedger(u)
         /\ thread[t] = Idle \/ thread[t].sends = None => \A u \in Thread : SameSends(u)
<1>1. \A u \in Thread : thread'[u] = IF u = t THEN Idle ELSE thread[u]
  BY DEF Answer, TypeInv, ThreadInv
<1>2. SamePace(t) /\ SameTold(t) /\ SameLedger(t)
  BY <1>1 DEF SamePace, SameTold, SameLedger
<1>3. thread[t] = Idle \/ thread[t].sends = None => SameSends(t)
  BY <1>1 DEF SameSends, Sends
<1>4. QED
  BY <1>1, <1>2, <1>3, StoodFrame

LEMMA PaceQuiet ==
  ASSUME PaceInv, UNCHANGED <<lastThink, thinks, unpaced>>, \A u \in Thread : SamePace(u)
  PROVE  PaceInv'
<1>1. SUFFICES ASSUME ~unpaced
               PROVE  /\ \A t, u \in Thread : At(t, "store")' /\ At(u, "store")' => t = u
                      /\ thinks # <<>> => \A t \in Thread : At(t, "store")' =>
                           thread'[t].now - lastThink >= thread'[t].every
  BY DEF PaceInv, Paced
<1>2. \A u \in Thread : At(u, "store")' => At(u, "store") /\ thread'[u] = thread[u]
  BY DEF SamePace, At
<1>3. QED
  BY <1>1, <1>2 DEF PaceInv

LEMMA MarkQuiet ==
  ASSUME MarkInv, UNCHANGED marking
  PROVE  MarkInv'
BY DEF MarkInv, marking

LEMMA NonceQuiet ==
  ASSUME NonceInv, UNCHANGED <<public, flying, signedSo>>, \A u \in Thread : SameSends(u)
  PROVE  NonceInv'
<1>1. Out' = Out
  BY DEF Out
<1>2. \A u \in Thread : Sends(u)' => Sends(u) /\ thread'[u] = thread[u]
  BY DEF SameSends, Sends
<1>3. QED
  BY <1>1, <1>2 DEF NonceInv

\* Lines out are known as before, if a wake that stops sending had none out.
LEMMA KnownQuiet ==
  ASSUME KnownInv, UNCHANGED <<introduced, public, flying>>, unsure => unsure',
         \A u \in Thread : SameTold(u),
         \A u \in Thread : SameSends(u)
  PROVE  KnownInv'
<1>1. Out' = Out
  BY DEF Out
<1>2. \A u \in Thread : Sends(u) => Sends(u)' /\ thread'[u] = thread[u]
  BY DEF SameSends, Sends
<1>3. IntroductionIsKnown => IntroductionIsKnown'
  BY DEF IntroductionIsKnown, SameTold
<1>4. QED
  BY <1>1, <1>2, <1>3 DEF KnownInv

LEMMA BaseQuiet ==
  ASSUME BaseInv, UNCHANGED public, \A u \in Thread : SameSends(u)
  PROVE  BaseInv'
<1>1. \A u \in Thread : Sends(u)' => Sends(u) /\ thread'[u] = thread[u]
  BY DEF SameSends, Sends
<1>2. QED
  BY <1>1 DEF BaseInv
-----------------------------------------------------------------------------
(* The ledger of tasks.                                                    *)

\* What a wake that read the ledger after so many runs may find due.
LedgerHolds(before, due, looked) ==
  \A i \in 1 .. before :
    /\ Cardinality({done[k].id : k \in i .. before}) <= MaxRuns
    /\ done[i].id \in due
    => Period[done[i].id] > 0 /\ looked - done[i].at >= Period[done[i].id]

LEMMA LedgerOfAll ==
  DoneStaysDone <=>
    \A t \in Thread : thread[t] # Idle /\ thread[t].at \in Informed /\ thread[t].ledger =>
      LedgerHolds(thread[t].before, thread[t].due, thread[t].looked)
BY DEF DoneStaysDone, LedgerHolds

\* Runs recorded later do not change what a wake found due.
LEMMA LedgerStays ==
  ASSUME TypeInv, \A k \in DOMAIN done : done'[k] = done[k],
         NEW before \in Nat, before <= Len(done), NEW due, NEW looked,
         LedgerHolds(before, due, looked)
  PROVE  LedgerHolds(before, due, looked)'
<1>1. SUFFICES ASSUME NEW i \in 1 .. before,
                      Cardinality({done'[k].id : k \in i .. before}) <= MaxRuns,
                      done'[i].id \in due
               PROVE  Period[done'[i].id] > 0 /\ looked - done'[i].at >= Period[done'[i].id]
  BY DEF LedgerHolds
<1>2. \A k \in i .. before : k \in DOMAIN done /\ done'[k] = done[k]
  <2>1. DOMAIN done = 1 .. Len(done) /\ Len(done) \in Nat
    BY DEF TypeInv
  <2>2. QED
    BY <2>1
<1>3. {done'[k].id : k \in i .. before} = {done[k].id : k \in i .. before}
  BY <1>2
<1>4. done'[i] = done[i]
  BY <1>2
<1>5. QED
  BY <1>1, <1>3, <1>4 DEF LedgerHolds

\* So each wake that is still at work, and keeps what it read, is right.
LEMMA LedgerFrame ==
  ASSUME TypeInv, DoneStaysDone, \A k \in DOMAIN done : done'[k] = done[k],
         \A u \in Thread : SameLedger(u)
  PROVE  DoneStaysDone'
<1>1. ASSUME NEW u \in Thread, thread'[u] # Idle, thread'[u].at \in Informed,
             thread'[u].ledger
      PROVE  \A i \in 1 .. thread'[u].before :
               /\ Cardinality({done'[k].id : k \in i .. thread'[u].before}) <= MaxRuns
               /\ done'[i].id \in thread'[u].due
               => /\ Period[done'[i].id] > 0
                  /\ thread'[u].looked - done'[i].at >= Period[done'[i].id]
  <2>1. PICK w : w = thread[u]
    OBVIOUS
  <2>2. /\ w # Idle /\ w.at \in Informed /\ w.ledger
        /\ thread'[u].before = w.before /\ thread'[u].due = w.due
        /\ thread'[u].looked = w.looked
    BY <1>1, <2>1 DEF SameLedger
  <2>3. w.before \in Nat /\ w.before <= Len(done)
    BY <2>1, <2>2, AwakeIsWake DEF Wake
  <2>4. LedgerHolds(w.before, w.due, w.looked)
    BY <2>1, <2>2, LedgerOfAll
  <2>5. LedgerHolds(w.before, w.due, w.looked)'
    BY <2>3, <2>4, LedgerStays
  <2>6. QED
    BY <2>2, <2>5 DEF LedgerHolds
<1>2. QED
  BY <1>1 DEF DoneStaysDone

LEMMA DoneTyped ==
  ASSUME TypeInv
  PROVE  /\ Len(done) \in Nat /\ DOMAIN done = 1 .. Len(done)
         /\ \A k \in DOMAIN done : done[k].id \in Task /\ done[k].at \in Nat
         /\ \A x \in runs : x.id \in Task /\ x.at \in Nat /\ x.row \in Nat
<1>1. done \in Seq(Records) /\ runs \subseteq Rows
  BY DEF TypeInv
<1>2. Len(done) \in Nat /\ DOMAIN done = 1 .. Len(done)
  BY <1>1
<1>3. \A k \in DOMAIN done : done[k] \in Records
  BY <1>1, <1>2
<1>4. QED
  BY <1>1, <1>2, <1>3 DEF Records, Rows

LEMMA RowIsRun ==
  ASSUME RowsInv, NEW x \in runs
  PROVE  x.row \in DOMAIN done /\ done[x.row].id = x.id /\ done[x.row].at = x.at
<1>1. x.row \in DOMAIN done /\ done[x.row] = [id |-> x.id, at |-> x.at]
  BY DEF RowsInv
<1>2. QED
  BY <1>1

LEMMA RowsQuiet ==
  ASSUME TypeInv, RowsInv, UNCHANGED tasking, clock' \in {clock, clock + 1}
  PROVE  RowsInv'
<1>1. runs' = runs /\ done' = done
  BY DEF tasking
<1>2. \A i : Since(i)' = Since(i)
  BY <1>1 DEF Since
<1>3. \A k \in DOMAIN done : done[k].at \in Nat
  BY DoneTyped
<1>4. \A k \in DOMAIN done : done[k].at <= clock'
  BY <1>3 DEF RowsInv, TypeInv
<1>5. QED
  BY <1>1, <1>2, <1>4 DEF RowsInv

LEMMA TaskQuiet ==
  ASSUME TypeInv, TaskInv, UNCHANGED tasking, clock' \in {clock, clock + 1},
         \A u \in Thread : SameLedger(u)
  PROVE  TaskInv'
<1>1. \A k \in DOMAIN done : done'[k] = done[k]
  BY DEF tasking
<1>2. QED
  BY <1>1, RowsQuiet, LedgerFrame DEF TaskInv

\* The ledger is read: a task whose last run is remembered is due when its period
\* is over.
LEMMA LedgerRead ==
  ASSUME TypeInv, RowsInv, NEW playbook \in SUBSET Task, NEW reads \in BOOLEAN, reads
  PROVE  LedgerHolds(Len(done), {id \in playbook : reads => Due(id)}, clock)
<1>1. SUFFICES ASSUME NEW i \in 1 .. Len(done), Cardinality(Since(i)) <= MaxRuns,
                      Due(done[i].id)
               PROVE  Period[done[i].id] > 0 /\ clock - done[i].at >= Period[done[i].id]
  BY DEF LedgerHolds, Since
<1>2. DOMAIN done = 1 .. Len(done)
  BY DEF TypeInv
<1>3. PICK x \in runs : x.id = done[i].id /\ x.row >= i
  BY <1>1, <1>2 DEF RowsInv
<1>4. x.row \in DOMAIN done /\ done[x.row].at = x.at
  BY <1>3, RowIsRun
<1>5. done[i].at <= x.at
  BY <1>2, <1>3, <1>4 DEF RowsInv
<1>6. Period[x.id] > 0 /\ clock - x.at >= Period[x.id]
  BY <1>1, <1>3 DEF Due
<1>7. done[i].at \in Nat /\ x.at \in Nat /\ clock \in Nat /\ Period[x.id] \in Nat
  BY <1>2, <1>3, DoneTyped, PassAssumption DEF TypeInv
<1>8. QED
  BY <1>3, <1>5, <1>6, <1>7

LEMMA SmallestOf ==
  ASSUME NEW S, S \subseteq Nat, S # {}
  PROVE  \E m \in S : \A n \in S : m <= n
<1>1. PICK m \in S : \A n \in S : ~ (<<n, m>> \in OpToRel(<, Nat))
  BY NatLessThanWellFounded, WFMin, Zenon
<1>2. \A n \in S : ~ (n < m)
  BY <1>1 DEF OpToRel
<1>3. QED
  BY <1>2

LEMMA ImageFinite ==
  ASSUME NEW S, IsFiniteSet(S), NEW f, DOMAIN f = S
  PROVE  IsFiniteSet({f[x] : x \in S})
<1> DEFINE T == {f[x] : x \in S}
           g == [x \in S |-> f[x]]
<1>1. g \in Surjection(S, T)
  BY DEF Surjection
<1>2. QED
  BY <1>1, FS_Surjection

\* The rows after a run is recorded, and before the oldest goes.
NewRow(id) == [id |-> id, at |-> clock, row |-> Len(done) + 1]
AllRows(id) == Recorded(NewRow(id))

\* Each is the last run of its task, the new one among them.
LEMMA AllAreRuns ==
  ASSUME TypeInv, RowsInv, NEW t \in Thread, NEW id \in Task, TaskDone(t, id, TRUE),
         NEW x \in AllRows(id)
  PROVE  /\ x \in Rows /\ x.row \in DOMAIN done'
         /\ done'[x.row] = [id |-> x.id, at |-> x.at]
         /\ \A k \in DOMAIN done' : k > x.row => done'[k].id # x.id
<1> DEFINE n == Len(done) + 1
<1>1. /\ n \in Nat /\ NewRow(id) \in Rows /\ DOMAIN done' = 1 .. n
      /\ DOMAIN done = 1 .. Len(done) /\ done'[n] = [id |-> id, at |-> clock]
      /\ \A k \in DOMAIN done : done'[k] = done[k]
  BY DoneAppends DEF NewRow
<1>2. Len(done) \in Nat
  BY DoneTyped
<1>3. CASE x = NewRow(id)
  <2>1. x.id = id /\ x.at = clock /\ x.row = n
    BY <1>3 DEF NewRow
  <2>2. \A k \in DOMAIN done' : ~(k > n)
    BY <1>1, <1>2
  <2>3. n \in DOMAIN done'
    BY <1>1, <1>2
  <2>4. x \in Rows
    BY <1>1, <1>3
  <2>5. done'[x.row] = [id |-> x.id, at |-> x.at]
    BY <1>1, <2>1
  <2>6. \A k \in DOMAIN done' : k > x.row => done'[k].id # x.id
    BY <2>1, <2>2
  <2>7. x.row \in DOMAIN done'
    BY <2>1, <2>3
  <2>8. QED
    BY <2>4, <2>5, <2>6, <2>7
<1>4. CASE x # NewRow(id)
  <2>1. x \in runs /\ x.id # id
    BY <1>4 DEF AllRows, Recorded, NewRow
  <2>2. /\ x.row \in DOMAIN done /\ done[x.row] = [id |-> x.id, at |-> x.at]
        /\ \A k \in DOMAIN done : k > x.row => done[k].id # x.id
    BY <2>1 DEF RowsInv
  <2>3. done'[n].id = id
    BY <1>1
  <2>4. ASSUME NEW k \in DOMAIN done', k > x.row
        PROVE  done'[k].id # x.id
    <3>1. k \in DOMAIN done \/ k = n
      BY <1>1, <1>2
    <3>2. QED
      BY <1>1, <2>1, <2>2, <2>3, <2>4, <3>1
  <2>5. x \in Rows
    BY <2>1 DEF TypeInv
  <2>6. QED
    BY <1>1, <1>2, <2>2, <2>4, <2>5
<1>5. QED
  BY <1>3, <1>4

\* The record stays in the order of time.
LEMMA RecordInOrder ==
  ASSUME TypeInv, RowsInv, NEW t \in Thread, NEW id \in Task, TaskDone(t, id, TRUE)
  PROVE  /\ \A k \in DOMAIN done' : 0 < done'[k].at /\ done'[k].at <= clock
         /\ \A i, k \in DOMAIN done' : i <= k => done'[i].at <= done'[k].at
<1> DEFINE n == Len(done) + 1
<1>1. /\ DOMAIN done' = 1 .. n /\ DOMAIN done = 1 .. Len(done)
      /\ done'[n] = [id |-> id, at |-> clock]
      /\ \A k \in DOMAIN done : done'[k] = done[k]
  BY DoneAppends
<1>2. Len(done) \in Nat
  BY DoneTyped
<1>3. done'[n].at = clock /\ clock \in Nat /\ clock > 0
  BY <1>1 DEF TypeInv
<1>4. \A k \in DOMAIN done' : k = n \/ (k \in DOMAIN done /\ k < n)
  BY <1>1, <1>2
<1>5. \A k \in DOMAIN done : 0 < done'[k].at /\ done'[k].at <= clock
  BY <1>1 DEF RowsInv
<1>6. \A k \in DOMAIN done' : 0 < done'[k].at /\ done'[k].at <= clock
  BY <1>3, <1>4, <1>5
<1>7. ASSUME NEW i \in DOMAIN done', NEW k \in DOMAIN done', i <= k
      PROVE  done'[i].at <= done'[k].at
  <2>1. CASE k = n
    BY <1>3, <1>6, <2>1
  <2>2. CASE k # n
    <3>1. i \in DOMAIN done /\ k \in DOMAIN done
      BY <1>1, <1>2, <1>4, <1>7, <2>2
    <3>2. QED
      BY <1>1, <1>7, <3>1 DEF RowsInv
  <2>3. QED
    BY <2>1, <2>2
<1>8. QED
  BY <1>6, <1>7

\* So rows are told apart by their ids, and by their rowids, which grow with time.
LEMMA RowsInOrder ==
  ASSUME TypeInv, RowsInv, NEW t \in Thread, NEW id \in Task, TaskDone(t, id, TRUE),
         NEW x \in AllRows(id), NEW y \in AllRows(id)
  PROVE  /\ x.row < y.row => Older(x, y)
         /\ x.row = y.row => x = y
         /\ x.id = y.id => x = y
<1>1. x \in Rows /\ y \in Rows /\ x.row \in DOMAIN done' /\ y.row \in DOMAIN done'
  BY AllAreRuns
<1>2. /\ done'[x.row] = [id |-> x.id, at |-> x.at]
      /\ done'[y.row] = [id |-> y.id, at |-> y.at]
  BY AllAreRuns
<1>3. done'[x.row].at = x.at /\ done'[y.row].at = y.at
  BY <1>2
<1>4. done'[x.row].id = x.id /\ done'[y.row].id = y.id
  BY <1>2
<1>5. x.row \in Nat /\ y.row \in Nat /\ x.at \in Nat /\ y.at \in Nat
  BY <1>1 DEF Rows
<1>6. x.row < y.row => Older(x, y)
  <2>1. \A i, k \in DOMAIN done' : i <= k => done'[i].at <= done'[k].at
    BY RecordInOrder
  <2>2. x.row <= y.row => done'[x.row].at <= done'[y.row].at
    BY <1>1, <2>1
  <2>3. x.row < y.row => x.at <= y.at
    BY <1>3, <1>5, <2>2
  <2>4. QED
    BY <1>5, <2>3 DEF Older
<1>7. x.row = y.row => x = y
  BY <1>1, <1>3, <1>4 DEF Rows
<1>8. x.id = y.id => x.row = y.row
  <2>1. \A k \in DOMAIN done' : k > x.row => done'[k].id # x.id
    BY AllAreRuns
  <2>2. \A k \in DOMAIN done' : k > y.row => done'[k].id # y.id
    BY AllAreRuns
  <2>3. x.row < y.row => y.id # x.id
    BY <1>1, <1>4, <1>5, <2>1
  <2>4. y.row < x.row => x.id # y.id
    BY <1>1, <1>4, <1>5, <2>2
  <2>5. QED
    BY <1>5, <2>3, <2>4
<1>9. QED
  BY <1>6, <1>7, <1>8

\* The table is back at its bound, and what went was older than all that stayed.
LEMMA RowsFit ==
  ASSUME TypeInv, RowsInv, NEW t \in Thread, NEW id \in Task, TaskDone(t, id, TRUE)
  PROVE  /\ runs' \subseteq AllRows(id)
         /\ IsFiniteSet(AllRows(id)) /\ Cardinality(AllRows(id)) \in Nat
         /\ IsFiniteSet(runs') /\ Cardinality(runs') <= MaxRuns
<1> DEFINE A == AllRows(id)
           old == {x \in runs : x.id # id}
<1>1. runs' = IF Cardinality(A) <= MaxRuns THEN A ELSE {x \in A : \E y \in A : Older(y, x)}
  BY DoneAppends DEF AllRows, NewRow
<1>2. A = old \cup {NewRow(id)}
  BY DEF AllRows, Recorded, NewRow
<1>3. IsFiniteSet(runs) /\ Cardinality(runs) <= MaxRuns /\ MaxRuns \in Nat
  BY PassAssumption DEF RowsInv
<1>4. IsFiniteSet(old) /\ Cardinality(old) <= Cardinality(runs)
  BY <1>3, FS_Subset
<1>5. Cardinality(runs) \in Nat /\ Cardinality(old) \in Nat
  BY <1>3, <1>4, FS_CardinalityType
<1>0. \A x \in A : x.row \in Nat /\ x.at \in Nat
  <2>1. \A x \in A : x \in Rows
    BY AllAreRuns
  <2>2. QED
    BY <2>1 DEF Rows
<1>6. IsFiniteSet(A) /\ Cardinality(A) <= Cardinality(old) + 1
  <2> HIDE DEF A, old
  <2>1. IsFiniteSet(A)
    BY <1>2, <1>4, FS_AddElement
  <2>2. Cardinality(A) = IF NewRow(id) \in old THEN Cardinality(old) ELSE Cardinality(old) + 1
    BY <1>2, <1>4, FS_AddElement
  <2>3. QED
    BY <1>5, <2>1, <2>2
<1>7. Cardinality(A) \in Nat
  BY <1>6, FS_CardinalityType
<1>8. runs' \subseteq A
  BY <1>1
<1> HIDE DEF A, old
<1>9. CASE Cardinality(A) <= MaxRuns
  BY <1>1, <1>6, <1>7, <1>9 DEF A
<1>10. CASE ~(Cardinality(A) <= MaxRuns)
  <2>1. NewRow(id) \in A
    BY <1>2
  <2>2. \A x \in A : x.row \in Nat
    BY <1>0
  <2>3. {x.row : x \in A} \subseteq Nat /\ {x.row : x \in A} # {}
    BY <2>1, <2>2
  <2>4. PICK r \in {x.row : x \in A} : \A s \in {x.row : x \in A} : r <= s
    BY <2>3, SmallestOf
  <2>5. PICK m \in A : r = m.row
    BY <2>4
  <2>6. \A y \in A : m.row <= y.row
    BY <2>4, <2>5
  <2>7. \A y \in A : ~Older(y, m)
    <3>1. SUFFICES ASSUME NEW y \in A
                   PROVE  ~Older(y, m)
      OBVIOUS
    <3>2. CASE y.row = m.row
      <4>1. y = m
        BY <3>2, RowsInOrder DEF A
      <4>2. m.row \in Nat /\ m.at \in Nat
        BY <1>0
      <4>3. QED
        BY <4>1, <4>2 DEF Older
    <3>3. CASE y.row # m.row
      <4>1. m.row < y.row
        BY <2>2, <2>6, <3>3
      <4>2. Older(m, y)
        BY <4>1, RowsInOrder DEF A
      <4>3. m.row \in Nat /\ m.at \in Nat /\ y.row \in Nat /\ y.at \in Nat
        BY <1>0
      <4>4. QED
        BY <4>1, <4>2, <4>3 DEF Older
    <3>4. QED
      BY <3>2, <3>3
  <2>8. runs' \in SUBSET (A \ {m})
    BY <1>1, <1>10, <2>7
  <2>9. IsFiniteSet(A \ {m}) /\ Cardinality(A \ {m}) = Cardinality(A) - 1
    BY <1>6, <2>5, FS_RemoveElement
  <2>10. IsFiniteSet(runs') /\ Cardinality(runs') <= Cardinality(A \ {m})
    BY <2>8, <2>9, FS_Subset
  <2>11. Cardinality(runs') \in Nat
    BY <2>10, FS_CardinalityType
  <2>12. Cardinality(runs') <= MaxRuns
    BY <1>3, <1>4, <1>5, <1>6, <1>7, <2>9, <2>10, <2>11
  <2>13. QED
    BY <1>6, <1>7, <1>8, <2>10, <2>12 DEF A
<1>11. QED
  BY <1>9, <1>10

LEMMA SinceFinite ==
  ASSUME NEW f, NEW i \in Nat, NEW n \in Nat
  PROVE  IsFiniteSet({f[k].id : k \in i .. n})
<1> DEFINE g == [k \in i .. n |-> f[k].id]
<1>1. IsFiniteSet(i .. n)
  BY FS_Interval
<1>2. IsFiniteSet({g[k] : k \in i .. n})
  BY <1>1, ImageFinite
<1>3. {g[k] : k \in i .. n} = {f[k].id : k \in i .. n}
  OBVIOUS
<1>4. QED
  BY <1>2, <1>3

\* A row that goes was the oldest of more than MAX_TASK_RUNS, all of tasks run
\* since; so a run with fewer since keeps a row.
LEMMA RowStays ==
  ASSUME TypeInv, RowsInv, NEW t \in Thread, NEW id \in Task, TaskDone(t, id, TRUE),
         NEW i \in Nat, i > 0, NEW x \in AllRows(id), x.row >= i,
         Cardinality({done'[k].id : k \in i .. Len(done) + 1}) <= MaxRuns
  PROVE  x \in runs'
<1> DEFINE A == AllRows(id)
           n == Len(done) + 1
           S == {done'[k].id : k \in i .. n}
<1>1. runs' = IF Cardinality(A) <= MaxRuns THEN A ELSE {y \in A : \E z \in A : Older(z, y)}
  BY DoneAppends DEF AllRows, NewRow
<1>2. n \in Nat /\ DOMAIN done' = 1 .. n
  BY DoneAppends
<1>3. IsFiniteSet(A) /\ Cardinality(A) \in Nat
  BY RowsFit
<1>4. IsFiniteSet(S)
  BY <1>2, SinceFinite
<1>5. Cardinality(S) \in Nat /\ MaxRuns \in Nat
  BY <1>4, FS_CardinalityType, PassAssumption
<1>6. CASE \E z \in A : Older(z, x)
  BY <1>1, <1>6
<1>7. CASE ~ \E z \in A : Older(z, x)
  <2>1. \A y \in A : y.row \in DOMAIN done' /\ done'[y.row] = [id |-> y.id, at |-> y.at]
    BY AllAreRuns
  <2>2. \A y \in A : y.row \in 1 .. n /\ done'[y.row].id = y.id
    <3> HIDE DEF A, n
    <3>1. SUFFICES ASSUME NEW y \in A
                   PROVE  y.row \in 1 .. n /\ done'[y.row].id = y.id
      OBVIOUS
    <3>2. done'[y.row] = [id |-> y.id, at |-> y.at]
      BY <2>1
    <3>3. done'[y.row].id = y.id
      BY <3>2
    <3>4. QED
      BY <1>2, <2>1, <3>3
  <2>3. \A y \in A : y.row < x.row => Older(y, x)
    BY RowsInOrder
  <2>4. \A y \in A : y.row \in i .. n
    <3>1. SUFFICES ASSUME NEW y \in A
                   PROVE  y.row \in i .. n
      OBVIOUS
    <3>2. ~(y.row < x.row)
      BY <1>7, <2>3
    <3>3. y.row \in 1 .. n /\ x.row \in 1 .. n
      BY <2>2
    <3>4. QED
      BY <1>2, <3>2, <3>3
  <2>5. \A y \in A : y.id \in S
    BY <2>2, <2>4
  <2>6. \A y, z \in A : y.id = z.id => y = z
    BY RowsInOrder
  <2> DEFINE f == [y \in A |-> y.id]
  <2> HIDE DEF A, S
  <2>7. f \in [A -> S]
    BY <2>5
  <2>8. \A y, z \in A : f[y] = f[z] => y = z
    BY <2>6
  <2>9. f \in Injection(A, S)
    BY <2>7, <2>8 DEF Injection, IsInjective
  <2>10. Cardinality(A) <= Cardinality(S)
    BY <1>4, <2>9, FS_Injection
  <2>11. Cardinality(S) <= MaxRuns
    BY DEF S
  <2>12. Cardinality(A) <= MaxRuns
    BY <1>3, <1>5, <2>10, <2>11
  <2>13. QED
    BY <1>1, <2>12 DEF A
<1>8. QED
  BY <1>6, <1>7

LEMMA RowsRecord ==
  ASSUME TypeInv, RowsInv, NEW t \in Thread, NEW id \in Task, TaskDone(t, id, TRUE)
  PROVE  RowsInv'
<1> DEFINE n == Len(done) + 1
<1>1. /\ n \in Nat /\ DOMAIN done' = 1 .. n /\ Len(done') = n /\ DOMAIN done = 1 .. Len(done)
      /\ done'[n] = [id |-> id, at |-> clock]
      /\ \A k \in DOMAIN done : done'[k] = done[k]
  BY DoneAppends
<1>2. clock' = clock
  BY DEF TaskDone
<1>3. IsFiniteSet(runs') /\ Cardinality(runs') <= MaxRuns /\ runs' \subseteq AllRows(id)
  BY RowsFit
<1>4. \A x \in runs' :
        /\ x.row \in DOMAIN done'
        /\ done'[x.row] = [id |-> x.id, at |-> x.at]
        /\ \A k \in DOMAIN done' : k > x.row => done'[k].id # x.id
  BY <1>3, AllAreRuns
<1>5. /\ \A k \in DOMAIN done' : 0 < done'[k].at /\ done'[k].at <= clock
      /\ \A i, k \in DOMAIN done' : i <= k => done'[i].at <= done'[k].at
  BY RecordInOrder
<1>6. ASSUME NEW i \in DOMAIN done',
             Cardinality({done'[k].id : k \in i .. n}) <= MaxRuns
      PROVE  \E x \in runs' : x.id = done'[i].id /\ x.row >= i
  <2>1. i \in Nat /\ i > 0 /\ i <= n /\ Len(done) \in Nat
    BY <1>1, DoneTyped
  <2>2. \A x \in AllRows(id) : x.row >= i => x \in runs'
    BY <1>6, <2>1, RowStays
  <2>3. /\ NewRow(id) \in AllRows(id) /\ NewRow(id).row = n /\ NewRow(id).id = id
    BY DEF AllRows, Recorded, NewRow
  <2>4. CASE done'[i].id = id
    BY <2>1, <2>2, <2>3, <2>4
  <2>5. CASE done'[i].id # id
    <3>1. i # n
      BY <1>1, <2>5
    <3>2. i \in DOMAIN done /\ done'[i] = done[i]
      BY <1>1, <2>1, <3>1
    <3>3. IsFiniteSet({done'[k].id : k \in i .. n})
      BY <1>1, <2>1, SinceFinite
    <3>4. \A k \in i .. Len(done) : k \in DOMAIN done /\ k \in i .. n /\ done'[k] = done[k]
      BY <1>1, <2>1
    <3>5. Since(i) \in SUBSET {done'[k].id : k \in i .. n}
      BY <3>4 DEF Since
    <3>6. /\ IsFiniteSet(Since(i))
          /\ Cardinality(Since(i)) <= Cardinality({done'[k].id : k \in i .. n})
      BY <3>3, <3>5, FS_Subset
    <3>7. /\ Cardinality(Since(i)) \in Nat /\ MaxRuns \in Nat
          /\ Cardinality({done'[k].id : k \in i .. n}) \in Nat
      BY <3>3, <3>6, FS_CardinalityType, PassAssumption
    <3>8. Cardinality(Since(i)) <= MaxRuns
      BY <1>6, <3>6, <3>7
    <3>9. PICK x \in runs : x.id = done[i].id /\ x.row >= i
      BY <3>2, <3>8 DEF RowsInv
    <3>10. x \in AllRows(id)
      BY <2>5, <3>2, <3>9 DEF AllRows, Recorded, NewRow
    <3>11. QED
      BY <2>2, <3>2, <3>9, <3>10
  <2>6. QED
    BY <2>4, <2>5
<1>7. \A i \in DOMAIN done' : Since(i)' = {done'[k].id : k \in i .. n}
  BY <1>1 DEF Since
<1>8. QED
  BY <1>2, <1>3, <1>4, <1>5, <1>6, <1>7 DEF RowsInv
-----------------------------------------------------------------------------
(* The pace.                                                               *)

\* A wake passes the throttle alone, or the throttle was raced.
LEMMA PaceLast ==
  ASSUME TypeInv, PaceInv, NEW t \in Thread, NEW reads \in BOOLEAN, ReadLast(t, reads)
  PROVE  PaceInv'
<1>1. lastThink' = lastThink /\ thinks' = thinks
  BY DEF ReadLast
<1>2. CASE Answer(t) /\ UNCHANGED unpaced
  BY <1>1, <1>2, EndFrame, PaceQuiet
<1>3. CASE ~(Answer(t) /\ UNCHANGED unpaced)
  <2>1. /\ ~Throttled(thread[t], IF reads THEN lastThink ELSE 0)
        /\ unpaced' = (unpaced \/ ~reads \/ \E u \in Thread : At(u, "store"))
    BY <1>3, LastMoves
  <2>2. PICK x \in Wake : Moves(t, x) /\ Same(thread[t], x) /\ x.at = "store"
    BY <1>3, LastMoves
  <2>3. \A u \in Thread : thread'[u] = IF u = t THEN x ELSE thread[u]
    BY <2>2, Others DEF TypeInv
  <2>4. SUFFICES ASSUME ~unpaced'
                 PROVE  PaceInv'
    BY DEF PaceInv
  <2>5. ~unpaced /\ reads /\ \A u \in Thread : ~At(u, "store")
    BY <2>1, <2>4 DEF TypeInv
  <2>6. \A u \in Thread : At(u, "store")' => u = t /\ thread'[u] = x
    BY <2>3, <2>5 DEF At
  <2>7. thread[t] \in Wake /\ thread[t].every \in Nat
    BY LastMoves, AwakeIsWake, PassAssumption
  <2>8. thinks # <<>> => x.now - lastThink >= x.every
    <3>1. SUFFICES ASSUME thinks # <<>>
                   PROVE  x.now - lastThink >= x.every
      OBVIOUS
    <3>2. 1 \in DOMAIN thinks /\ thinks[1].start \in Nat
      <4>1. thinks \in Seq(Stored)
        BY DEF TypeInv
      <4>2. 1 \in DOMAIN thinks
        BY <3>1, <4>1
      <4>3. thinks[1] \in Stored
        BY <4>1, <4>2
      <4>4. QED
        BY <4>2, <4>3 DEF Stored
    <3>3. lastThink > 0
      BY <2>5, <3>2 DEF PaceInv, TypeInv
    <3>4. ~(thread[t].now - lastThink < thread[t].every)
      BY <2>1, <2>5, <3>3 DEF Throttled
    <3>5. x.now \in Nat /\ x.every \in Nat /\ lastThink \in Nat
      BY <2>2, <2>7 DEF Wake, Same, TypeInv
    <3>6. QED
      BY <2>2, <3>4, <3>5 DEF Same
  <2>9. QED
    BY <1>1, <2>5, <2>6, <2>8 DEF PaceInv, Paced
<1>4. QED
  BY <1>2, <1>3

LEMMA PaceStore ==
  ASSUME TypeInv, PaceInv, NEW t \in Thread, NEW works \in BOOLEAN, StoreLast(t, works)
  PROVE  PaceInv'
<1> DEFINE n == Len(thinks)
           new == [start |-> thread[t].now, every |-> thread[t].every]
<1>1. SUFFICES ASSUME ~unpaced'
               PROVE  PaceInv'
  BY DEF PaceInv
<1>2. /\ ~unpaced /\ works /\ At(t, "store")
      /\ lastThink' = thread[t].now /\ thinks' = Append(thinks, new)
  BY <1>1 DEF StoreLast, TypeInv
<1>3. PICK x \in Wake : Moves(t, x) /\ x.at = "mark"
  BY StoreMoves
<1>4. \A u \in Thread : thread'[u] = IF u = t THEN x ELSE thread[u]
  BY <1>3, Others DEF TypeInv
<1>5. \A u \in Thread : ~At(u, "store")'
  BY <1>2, <1>3, <1>4 DEF PaceInv, At
<1>6. thread[t] \in Wake /\ Locals(thread[t]) /\ thread[t].every \in Every
  BY StoreMoves, AwakeIsWake
<1>7. /\ thread[t].now \in Nat /\ thread[t].now > 0 /\ thread[t].every \in Nat
      /\ thread[t].every > 0 /\ lastThink \in Nat
  <2>1. thread[t].now \in Nat
    BY <1>6 DEF Wake
  <2>2. thread[t].now > 0
    BY <1>6 DEF Locals
  <2>3. \A e \in Every : e \in Nat /\ e > 0
    BY PassAssumption
  <2>4. QED
    BY <1>6, <2>1, <2>2, <2>3 DEF TypeInv
<1>8. new.start = thread[t].now /\ new.every = thread[t].every
  OBVIOUS
<1>9. /\ n \in Nat /\ DOMAIN thinks = 1 .. n
      /\ \A i \in DOMAIN thinks : thinks[i].start \in Nat /\ thinks[i].every \in Nat
  <2>1. thinks \in Seq(Stored)
    BY DEF TypeInv
  <2>2. n \in Nat /\ DOMAIN thinks = 1 .. n /\ \A i \in DOMAIN thinks : thinks[i] \in Stored
    BY <2>1
  <2>3. QED
    BY <2>2 DEF Stored
<1>10. /\ DOMAIN thinks' = 1 .. n + 1 /\ thinks'[n + 1] = new
       /\ \A i \in DOMAIN thinks : thinks'[i] = thinks[i]
  <2>1. thinks \in Seq(Stored)
    BY DEF TypeInv
  <2>2. new \in Stored
    BY <1>7 DEF Stored
  <2>3. QED
    BY <1>2, <2>1, <2>2
<1> HIDE DEF new, n
<1>11. thinks # <<>> => thread[t].now - lastThink >= thread[t].every
  BY <1>2 DEF PaceInv
<1>12. \A i \in DOMAIN thinks :
         /\ 0 < thinks[i].start /\ thinks[i].start <= lastThink
         /\ thinks # <<>>
  <2>1. \A i \in DOMAIN thinks : 0 < thinks[i].start /\ thinks[i].start <= lastThink
    BY <1>2 DEF PaceInv
  <2>2. \A i \in DOMAIN thinks : thinks # <<>>
    OBVIOUS
  <2>3. QED
    BY <2>1, <2>2
<1>13. \A i \in DOMAIN thinks :
         thinks[i].start < new.start /\ new.start - thinks[i].start >= new.every
  BY <1>7, <1>8, <1>9, <1>11, <1>12
<1>14. \A i \in DOMAIN thinks' : i = n + 1 \/ (i \in DOMAIN thinks /\ i < n + 1)
  <2>1. n \in Nat
    BY <1>9
  <2>2. \A i \in 1 .. n + 1 : i = n + 1 \/ (i \in 1 .. n /\ i < n + 1)
    BY <2>1
  <2>3. DOMAIN thinks = 1 .. n /\ DOMAIN thinks' = 1 .. n + 1
    BY <1>9, <1>10
  <2>4. SUFFICES ASSUME NEW i \in DOMAIN thinks'
                 PROVE  i = n + 1 \/ (i \in DOMAIN thinks /\ i < n + 1)
    OBVIOUS
  <2>5. i \in 1 .. n + 1
    BY <2>3
  <2>6. QED
    BY <2>2, <2>3, <2>5
<1>15. \A i \in DOMAIN thinks' : 0 < thinks'[i].start /\ thinks'[i].start <= lastThink'
  <2>1. SUFFICES ASSUME NEW i \in DOMAIN thinks'
                 PROVE  0 < thinks'[i].start /\ thinks'[i].start <= lastThink'
    OBVIOUS
  <2>2. CASE i = n + 1
    BY <1>2, <1>7, <1>8, <1>10, <2>2
  <2>3. CASE i # n + 1
    BY <1>2, <1>7, <1>8, <1>9, <1>10, <1>12, <1>13, <1>14, <2>3
  <2>4. QED
    BY <2>2, <2>3
<1>16. ASSUME NEW i \in DOMAIN thinks', NEW j \in DOMAIN thinks', i < j
       PROVE  thinks'[j].start - thinks'[i].start >= thinks'[j].every
  <2>1. i \in DOMAIN thinks
    BY <1>9, <1>14, <1>16
  <2>2. CASE j = n + 1
    BY <1>10, <1>13, <2>1, <2>2
  <2>3. CASE j # n + 1
    <3>1. j \in DOMAIN thinks
      BY <1>14, <2>3
    <3>2. thinks[j].start - thinks[i].start >= thinks[j].every
      BY <1>2, <1>16, <2>1, <3>1 DEF PaceInv, Paced
    <3>3. QED
      BY <1>10, <2>1, <3>1, <3>2
  <2>4. QED
    BY <2>2, <2>3
<1>17. QED
  BY <1>5, <1>15, <1>16 DEF PaceInv, Paced
-----------------------------------------------------------------------------
(* Jobs seen, and tasks read.                                              *)

LEMMA MarkStep ==
  ASSUME TypeInv, MarkInv, NEW t \in Thread, NEW listed \in SUBSET Job,
         NEW answers \in BOOLEAN, MarkSeen(t, listed, answers)
  PROVE  MarkInv'
<1> DEFINE new == listed \ DOMAIN seen
           all == DOMAIN seen \cup new
<1>1. PICK gone \in SUBSET all :
        /\ DOMAIN seen' = all \ gone
        /\ dropped' = [j \in Job |-> IF j \in gone THEN dropped[j] + 1 ELSE dropped[j]]
  BY DEF MarkSeen
<1>2. offered' = [j \in Job |-> IF j \in new /\ answers THEN offered[j] + 1 ELSE offered[j]]
  BY DEF MarkSeen
<1>3. ASSUME NEW j \in Job
      PROVE  offered'[j] <= dropped'[j] + (IF j \in DOMAIN seen' THEN 1 ELSE 0)
  <2>1. offered[j] \in Nat /\ dropped[j] \in Nat
    BY DEF TypeInv
  <2>2. offered[j] <= dropped[j] + (IF j \in DOMAIN seen THEN 1 ELSE 0)
    BY DEF MarkInv
  <2>3. /\ offered'[j] = IF j \in new /\ answers THEN offered[j] + 1 ELSE offered[j]
        /\ dropped'[j] = IF j \in gone THEN dropped[j] + 1 ELSE dropped[j]
    BY <1>1, <1>2
  <2>4. j \in gone => j \in DOMAIN seen \/ j \in new
    BY <1>1
  <2>5. j \in DOMAIN seen' <=> (j \in DOMAIN seen \/ j \in new) /\ j \notin gone
    BY <1>1
  <2>6. j \in new => j \notin DOMAIN seen
    OBVIOUS
  <2> HIDE DEF new, all
  <2>7. QED
    BY <2>1, <2>2, <2>3, <2>4, <2>5, <2>6
<1>4. QED
  BY <1>3 DEF MarkInv

LEMMA TasksStep ==
  ASSUME TypeInv, TaskInv, NEW t \in Thread, NEW playbook \in SUBSET Task,
         NEW reads \in BOOLEAN, ReadTasks(t, playbook, reads)
  PROVE  TaskInv'
<1>1. UNCHANGED tasking /\ clock' = clock /\ done' = done
  BY DEF ReadTasks, passes, tasking
<1>2. RowsInv'
  BY <1>1, RowsQuiet DEF TaskInv
<1>3. PICK x \in Wake :
        /\ Moves(t, x) /\ x.due = {id \in playbook : reads => Due(id)} /\ x.ledger = reads
        /\ x.before = Len(done) /\ x.looked = clock
  BY TasksMoves
<1>4. \A u \in Thread : thread'[u] = IF u = t THEN x ELSE thread[u]
  BY <1>3, Others DEF TypeInv
<1>5. ASSUME NEW u \in Thread, thread'[u] # Idle, thread'[u].at \in Informed,
             thread'[u].ledger
      PROVE  \A i \in 1 .. thread'[u].before :
               /\ Cardinality({done'[k].id : k \in i .. thread'[u].before}) <= MaxRuns
               /\ done'[i].id \in thread'[u].due
               => /\ Period[done'[i].id] > 0
                  /\ thread'[u].looked - done'[i].at >= Period[done'[i].id]
  <2>1. CASE u = t
    <3>1. thread'[u] = x /\ reads
      BY <1>3, <1>4, <1>5, <2>1
    <3>2. LedgerHolds(Len(done), {id \in playbook : reads => Due(id)}, clock)
      BY <3>1, LedgerRead DEF TaskInv
    <3>3. LedgerHolds(x.before, x.due, x.looked)
      BY <1>3, <3>2
    <3>4. QED
      BY <1>1, <3>1, <3>3 DEF LedgerHolds
  <2>2. CASE u # t
    <3>1. thread'[u] = thread[u]
      BY <1>4, <2>2
    <3>2. QED
      BY <1>1, <1>5, <3>1 DEF TaskInv, DoneStaysDone
  <2>3. QED
    BY <2>1, <2>2
<1>6. DoneStaysDone'
  BY <1>5 DEF DoneStaysDone
<1>7. QED
  BY <1>2, <1>6 DEF TaskInv

LEMMA DoneStep ==
  ASSUME TypeInv, TaskInv, NEW t \in Thread, NEW id \in Task, NEW effect \in BOOLEAN,
         TaskDone(t, id, effect)
  PROVE  TaskInv'
<1>1. \A u \in Thread : SameLedger(u)
  BY DoneMoves, KeptFrame
<1>2. clock' = clock
  BY DEF TaskDone
<1>3. CASE effect
  <2>1. TaskDone(t, id, TRUE)
    BY <1>3
  <2>2. RowsInv'
    BY <2>1, RowsRecord DEF TaskInv
  <2>3. \A k \in DOMAIN done : done'[k] = done[k]
    BY <2>1, DoneAppends
  <2>4. QED
    BY <1>1, <2>2, <2>3, LedgerFrame DEF TaskInv
<1>4. CASE ~effect
  <2>1. UNCHANGED tasking
    BY <1>4 DEF TaskDone
  <2>2. QED
    BY <1>1, <1>2, <2>1, TaskQuiet
<1>5. QED
  BY <1>3, <1>4
-----------------------------------------------------------------------------
(* Lines.                                                                  *)

LEMMA OutTyped ==
  ASSUME TypeInv
  PROVE  \A l \in Out : l.nonce \in Nat
<1>1. public \in Seq(Lines) /\ flying \subseteq Lines
  BY DEF TypeInv
<1>2. \A i \in DOMAIN public : public[i] \in Lines
  BY <1>1
<1>3. QED
  BY <1>1, <1>2 DEF Out, Lines

\* A line that arrives is put after all others.
LEMMA PublicGrows ==
  ASSUME TypeInv, NEW l \in Lines, public' = Append(public, l)
  PROVE  /\ Len(public) \in Nat /\ Len(public') = Len(public) + 1
         /\ DOMAIN public = 1 .. Len(public) /\ DOMAIN public' = 1 .. Len(public) + 1
         /\ \A i \in DOMAIN public : public'[i] = public[i]
         /\ public'[Len(public) + 1] = l
         /\ {public'[i] : i \in DOMAIN public'} = {public[i] : i \in DOMAIN public} \cup {l}
<1>1. public \in Seq(Lines)
  BY DEF TypeInv
<1>2. /\ Len(public) \in Nat /\ Len(public') = Len(public) + 1
      /\ DOMAIN public = 1 .. Len(public) /\ DOMAIN public' = 1 .. Len(public) + 1
      /\ \A i \in DOMAIN public : public'[i] = public[i]
      /\ public'[Len(public) + 1] = l
  BY <1>1
<1>3. DOMAIN public' = DOMAIN public \cup {Len(public) + 1}
  BY <1>2
<1>4. {public'[i] : i \in DOMAIN public'} = {public[i] : i \in DOMAIN public} \cup {l}
  BY <1>2, <1>3
<1>5. QED
  BY <1>2, <1>4

\* Nothing is signed and nothing new is out.
LEMMA NonceDrop ==
  ASSUME NonceInv, Out' \subseteq Out, signedSo' = signedSo,
         \A u \in Thread : Sends(u)' =>
           /\ Sends(u)
           /\ thread'[u].sends.nonce = thread[u].sends.nonce
           /\ thread'[u].sends.message = thread[u].sends.message
           /\ thread'[u].at \in {"tail", "write"} => thread[u].at \in {"tail", "write"}
  PROVE  NonceInv'
BY DEF NonceInv

LEMMA EmitNonce ==
  ASSUME TypeInv, NonceInv, NEW t \in Thread, NEW m \in Message, NEW signs \in BOOLEAN,
         Emit(t, m, signs)
  PROVE  NonceInv'
<1>1. Out' = Out
  BY DEF Emit, Out
<1>2. PICK x \in Wake :
        /\ Moves(t, x)
        /\ \/ x.at = "plan" /\ x.sends = None /\ signedSo' = signedSo
           \/ /\ x.at = "tail" /\ signedSo' = signedSo + 1
              /\ x.sends \in Sending
              /\ x.sends.message = m /\ x.sends.nonce = signedSo + 1
  BY EmitMoves
<1>3. \A u \in Thread : thread'[u] = IF u = t THEN x ELSE thread[u]
  BY <1>2, Others DEF TypeInv
<1>4. CASE x.at = "plan" /\ x.sends = None /\ signedSo' = signedSo
  BY <1>1, <1>3, <1>4, NonceDrop DEF Sends
<1>5. CASE /\ x.at = "tail" /\ signedSo' = signedSo + 1 /\ x.sends.nonce = signedSo + 1
  <2>1. \A u \in Thread : Sends(u)' => u = t \/ (Sends(u) /\ thread'[u] = thread[u])
    BY <1>3 DEF Sends
  <2>2. \A u \in Thread : Sends(u) => thread[u].sends.nonce \in Nat
    BY AwakeIsWake DEF Sends, Wake, Sending
  <2>3. signedSo \in Nat /\ \A l \in Out : l.nonce \in Nat /\ l.nonce <= signedSo
    BY OutTyped DEF TypeInv, NonceInv
  <2>4. \A l \in Out' : l.nonce <= signedSo'
    BY <1>1, <1>5, <2>3
  <2>5. \A u \in Thread : Sends(u) => thread[u].sends.nonce <= signedSo
    BY DEF NonceInv
  <2>6. \A u \in Thread : Sends(u)' => thread'[u].sends.nonce <= signedSo'
    BY <1>3, <1>5, <2>1, <2>2, <2>3, <2>5
  <2>7. \A u, v \in Thread :
          Sends(u)' /\ Sends(v)' /\ thread'[u].sends.nonce = thread'[v].sends.nonce => u = v
    <3>1. \A u \in Thread : Sends(u)' /\ u # t => thread'[u].sends.nonce # signedSo + 1
      BY <2>1, <2>2, <2>3, <2>5
    <3>2. thread'[t].sends.nonce = signedSo + 1
      BY <1>3, <1>5
    <3>3. QED
      BY <2>1, <3>1, <3>2 DEF NonceInv
  <2>8. \A u \in Thread : Sends(u)' => \A l \in Out' : l.nonce = thread'[u].sends.nonce =>
          thread'[u].at \notin {"tail", "write"} /\ l.message = thread'[u].sends.message
    <3>1. \A l \in Out : l.nonce # signedSo + 1
      BY <2>3
    <3>2. thread'[t].sends.nonce = signedSo + 1
      BY <1>3, <1>5
    <3>3. QED
      BY <1>1, <2>1, <3>1, <3>2 DEF NonceInv
  <2>9. QED
    BY <2>4, <2>6, <2>7, <2>8 DEF NonceInv
<1>6. QED
  BY <1>2, <1>4, <1>5

LEMMA WriteNonce ==
  ASSUME TypeInv, NonceInv, NEW t \in Thread, NEW arrives, NEW ok \in BOOLEAN,
         Write(t, arrives, ok)
  PROVE  /\ NonceInv' /\ Out' \subseteq Out \cup {Line(t)}
         /\ arrives \notin {"now", "later"} => Out' = Out
<1> DEFINE l == Line(t)
<1>1. Sends(t) /\ thread[t].at = "write" /\ l \in Lines
  BY WriteMoves
<1>2. /\ arrives = "now" => public' = Append(public, l) /\ flying' = flying
      /\ arrives = "later" => public' = public /\ flying' = flying \cup {l}
      /\ arrives \notin {"now", "later"} => public' = public /\ flying' = flying
      /\ signedSo' = signedSo
  BY DEF Write
<1>3. /\ l.nonce = thread[t].sends.nonce /\ l.message = thread[t].sends.message
  BY DEF Line
<1> HIDE DEF l
<1>4. Out' \subseteq Out \cup {l}
  BY <1>1, <1>2, PublicGrows DEF Out
<1>5. PICK x \in Wake : /\ Moves(t, x)
                        /\ \/ x.at = "proof" /\ x.sends = thread[t].sends
                           \/ x.at = "plan" /\ x.sends = None
  BY WriteMoves
<1>6. \A u \in Thread : thread'[u] = IF u = t THEN x ELSE thread[u]
  BY <1>5, Others DEF TypeInv
<1>7. \A u \in Thread : Sends(u)' =>
        /\ Sends(u) /\ thread'[u].sends = thread[u].sends
        /\ thread'[u].at \in {"tail", "write"} => u # t /\ thread[u].at \in {"tail", "write"}
  BY <1>1, <1>5, <1>6 DEF Sends
<1>8. l.nonce <= signedSo
  BY <1>1, <1>3 DEF NonceInv
<1>9. \A u \in Thread : Sends(u) /\ thread[u].sends.nonce = l.nonce => u = t
  BY <1>1, <1>3 DEF NonceInv
<1>10. NonceInv'
  BY <1>2, <1>3, <1>4, <1>7, <1>8, <1>9 DEF NonceInv
<1>11. arrives \notin {"now", "later"} => Out' = Out
  BY <1>2 DEF Out
<1>12. QED
  BY <1>4, <1>10, <1>11 DEF l

\* Steps that sign nothing and put nothing out: the senders stay, or stop.
LEMMA SendersDrop ==
  ASSUME TypeInv, NEW t \in Thread, thread[t] # Idle,
         \/ Answer(t)
         \/ \E x \in Wake :
              /\ Moves(t, x)
              /\ \/ x.sends = None
                 \/ /\ thread[t].sends # None /\ x.sends.nonce = thread[t].sends.nonce
                    /\ x.sends.message = thread[t].sends.message
                    /\ x.at \in {"tail", "write"} => thread[t].at \in {"tail", "write"}
  PROVE  /\ \A u \in Thread : u # t => thread'[u] = thread[u]
         /\ \A u \in Thread : Sends(u)' =>
              /\ Sends(u)
              /\ thread'[u].sends.nonce = thread[u].sends.nonce
              /\ thread'[u].sends.message = thread[u].sends.message
              /\ thread'[u].at \in {"tail", "write"} => thread[u].at \in {"tail", "write"}
<1>1. CASE Answer(t)
  <2>1. \A u \in Thread : thread'[u] = IF u = t THEN Idle ELSE thread[u]
    BY <1>1 DEF Answer, TypeInv, ThreadInv
  <2>2. QED
    BY <2>1 DEF Sends
<1>2. CASE ~Answer(t)
  <2>1. PICK x \in Wake :
              /\ Moves(t, x)
              /\ \/ x.sends = None
                 \/ /\ thread[t].sends # None /\ x.sends.nonce = thread[t].sends.nonce
                    /\ x.sends.message = thread[t].sends.message
                    /\ x.at \in {"tail", "write"} => thread[t].at \in {"tail", "write"}
    BY <1>2
  <2>2. \A u \in Thread : thread'[u] = IF u = t THEN x ELSE thread[u]
    BY <2>1, Others DEF TypeInv
  <2>3. QED
    BY <2>1, <2>2 DEF Sends
<1>3. QED
  BY <1>1, <1>2

\* A line out that no wake sends any more is one that was out before its wake
\* stopped, and says what that wake said.
LEMMA KnownDrop ==
  ASSUME NonceInv, KnownInv, NEW t \in Thread,
         Out' \subseteq Out, introduced => introduced', unsure => unsure',
         \A u \in Thread : SameTold(u),
         \A u \in Thread : u # t => thread'[u] = thread[u],
         \/ ~Sends(t)
         \/ Sends(t)' /\ thread'[t].sends.nonce = thread[t].sends.nonce
         \/ thread[t].at \in {"tail", "write"}
         \/ thread[t].sends.message.shape # "say"
         \/ introduced' \/ unsure'
  PROVE  KnownInv'
<1>1. SUFFICES ASSUME ~unsure'
               PROVE  KnownInv'
  BY DEF KnownInv
<1>2. ~unsure /\ IntroductionIsKnown
  BY <1>1 DEF KnownInv
<1>3. IntroductionIsKnown'
  BY <1>2 DEF IntroductionIsKnown, SameTold
<1>4. ASSUME NEW l \in Out, l.message.shape = "say", ~introduced'
      PROVE  \E u \in Thread : Sends(u)' /\ thread'[u].sends.nonce = l.nonce
  <2>1. PICK u \in Thread : Sends(u) /\ thread[u].sends.nonce = l.nonce
    BY <1>2, <1>4 DEF KnownInv
  <2>2. CASE u # t
    <3>1. Sends(u)' /\ thread'[u].sends.nonce = l.nonce
      BY <2>1, <2>2 DEF Sends
    <3>2. QED
      BY <3>1
  <2>3. CASE u = t
    <3>1. thread[t].at \notin {"tail", "write"} /\ l.message = thread[t].sends.message
      BY <2>1, <2>3 DEF NonceInv
    <3>2. Sends(t)' /\ thread'[t].sends.nonce = thread[t].sends.nonce
      BY <1>1, <1>4, <2>1, <2>3, <3>1
    <3>3. QED
      BY <2>1, <2>3, <3>2
  <2>4. QED
    BY <2>2, <2>3
<1>5. QED
  BY <1>3, <1>4 DEF KnownInv

LEMMA EmitKnown ==
  ASSUME TypeInv, NonceInv, KnownInv, NEW t \in Thread, NEW m \in Message,
         NEW signs \in BOOLEAN, Emit(t, m, signs)
  PROVE  KnownInv'
<1>1. Out' = Out /\ introduced' = introduced /\ unsure' = unsure
  BY DEF Emit, Out
<1>2. PICK x \in Wake : Moves(t, x) /\ Same(thread[t], x) /\ x.at # "store"
  BY EmitMoves
<1>3. thread[t] # Idle /\ thread[t].at \in Informed /\ thread[t].sends = None
  BY EmitMoves
<1>4. \A u \in Thread : SameTold(u)
  BY <1>2, <1>3, KeptFrame
<1>5. \A u \in Thread : u # t => thread'[u] = thread[u]
  BY <1>2, Others DEF TypeInv
<1>6. ~Sends(t)
  BY <1>3 DEF Sends
<1>7. QED
  BY <1>1, <1>4, <1>5, <1>6, KnownDrop

\* A wake that reads the flag is told of every greeting it can see.
LEMMA FlagKnown ==
  ASSUME TypeInv, NonceInv, KnownInv, NEW t \in Thread, NEW reads \in BOOLEAN,
         ReadIntroduced(t, reads)
  PROVE  KnownInv'
<1>1. Out' = Out /\ introduced' = introduced /\ unsure' = (unsure \/ ~reads)
  BY DEF ReadIntroduced, Out
<1>2. SUFFICES ASSUME ~unsure, reads
               PROVE  KnownInv'
  BY <1>1 DEF KnownInv
<1>3. PICK x \in Wake : /\ Moves(t, x) /\ x.sends = None
                        /\ x.spoke = Spoken /\ x.introduced = (reads /\ introduced)
  BY FlagMoves
<1>4. \A u \in Thread : thread'[u] = IF u = t THEN x ELSE thread[u]
  BY <1>3, Others DEF TypeInv
<1>5. ~Sends(t)
  BY FlagMoves DEF Sends
<1>6. \A u \in Thread : Sends(u) => Sends(u)' /\ thread'[u] = thread[u]
  BY <1>4, <1>5 DEF Sends
<1>7. Spoken => introduced
  <2>1. SUFFICES ASSUME Spoken
                 PROVE  introduced
    OBVIOUS
  <2>2. PICK i \in DOMAIN public :
          /\ public[i].message.shape = "say"
          /\ \A u \in Thread : Sends(u) => thread[u].sends.nonce # public[i].nonce
    BY <2>1 DEF Spoken, Sends
  <2>3. public[i] \in Out
    BY DEF Out
  <2>4. QED
    BY <1>2, <2>2, <2>3 DEF KnownInv
<1>8. IntroductionIsKnown'
  <2>1. SUFFICES ASSUME NEW u \in Thread, thread'[u] # Idle, thread'[u].at \in Informed,
                        thread'[u].spoke
                 PROVE  thread'[u].introduced
    BY DEF IntroductionIsKnown
  <2>2. CASE u = t
    BY <1>2, <1>3, <1>4, <1>7, <2>1, <2>2
  <2>3. CASE u # t
    BY <1>2, <1>4, <2>1, <2>3 DEF KnownInv, IntroductionIsKnown
  <2>4. QED
    BY <2>2, <2>3
<1>9. QED
  BY <1>1, <1>2, <1>6, <1>8 DEF KnownInv

LEMMA WriteKnown ==
  ASSUME TypeInv, NonceInv, KnownInv, NEW t \in Thread, NEW arrives, NEW ok \in BOOLEAN,
         Write(t, arrives, ok)
  PROVE  KnownInv'
<1> DEFINE l == Line(t)
<1>1. /\ introduced' = introduced
      /\ unsure' = IF ok THEN unsure ELSE unsure \/ (Says(t) /\ arrives # "never")
  BY DEF Write
<1>2. /\ Sends(t) /\ thread[t].at = "write"
      /\ Out' \subseteq Out \cup {l}
      /\ arrives \notin {"now", "later"} => Out' = Out
  BY WriteMoves, WriteNonce
<1>3. l.nonce = thread[t].sends.nonce /\ (l.message.shape = "say" <=> Says(t))
  BY DEF Line, Says
<1> HIDE DEF l
<1>4. PICK x \in Wake : /\ Moves(t, x) /\ Same(thread[t], x) /\ x.at # "store"
                        /\ \/ ok /\ x.at = "proof" /\ x.sends = thread[t].sends
                           \/ ~ok /\ x.at = "plan" /\ x.sends = None
  BY WriteMoves
<1>5. \A u \in Thread : thread'[u] = IF u = t THEN x ELSE thread[u]
  BY <1>4, Others DEF TypeInv
<1>6. thread[t] # Idle /\ thread[t].at \in Informed
  BY <1>2 DEF Sends, Informed
<1>7. \A u \in Thread : SameTold(u)
  BY <1>4, <1>6, KeptFrame
<1>8. x # Idle
  BY WakeAssumption
<1>9. SUFFICES ASSUME ~unsure'
               PROVE  KnownInv'
  BY DEF KnownInv
<1>10. ~unsure /\ IntroductionIsKnown
  BY <1>1, <1>9 DEF KnownInv
<1>11. IntroductionIsKnown'
  BY <1>10, <1>7 DEF IntroductionIsKnown, SameTold
<1>12. ASSUME NEW k \in Out', k.message.shape = "say", ~introduced
       PROVE  \E u \in Thread : Sends(u)' /\ thread'[u].sends.nonce = k.nonce
  <2>1. CASE k \in Out
    <3>1. PICK u \in Thread : Sends(u) /\ thread[u].sends.nonce = k.nonce
      BY <1>10, <1>12, <2>1 DEF KnownInv
    <3>2. u # t
      BY <1>2, <2>1, <3>1 DEF NonceInv
    <3>3. Sends(u)' /\ thread'[u].sends.nonce = k.nonce
      BY <1>5, <3>1, <3>2 DEF Sends
    <3>4. QED
      BY <3>3
  <2>2. CASE k \notin Out
    <3>1. k = l /\ arrives \in {"now", "later"} /\ Says(t)
      BY <1>2, <1>3, <1>12, <2>2
    <3>2. ok
      BY <1>1, <1>9, <3>1
    <3>3. thread'[t] = x /\ x.sends = thread[t].sends
      BY <1>4, <1>5, <3>2
    <3>4. Sends(t)' /\ thread'[t].sends.nonce = k.nonce
      BY <1>2, <1>3, <1>8, <3>1, <3>3 DEF Sends
    <3>5. QED
      BY <3>4
  <2>3. QED
    BY <2>1, <2>2
<1>13. QED
  BY <1>1, <1>11, <1>12 DEF KnownInv

\* A line that arrives later is put behind every baseline.
LEMMA BaseGrows ==
  ASSUME TypeInv, BaseInv, NEW l \in Lines, public' \in {public, Append(public, l)},
         \A u \in Thread : Sends(u)' /\ thread'[u].at # "tail" =>
           Sends(u) /\ thread[u].at # "tail" /\ thread'[u].sends = thread[u].sends
  PROVE  BaseInv'
<1>1. /\ Len(public) \in Nat /\ Len(public') \in Nat /\ Len(public) <= Len(public')
      /\ DOMAIN public = 1 .. Len(public) /\ DOMAIN public' = 1 .. Len(public')
      /\ \A i \in DOMAIN public : public'[i] = public[i]
  <2>1. CASE public' = public
    <3>1. public \in Seq(Lines)
      BY DEF TypeInv
    <3>2. QED
      BY <2>1, <3>1
  <2>2. CASE public' = Append(public, l)
    BY <2>2, PublicGrows
  <2>3. QED
    BY <2>1, <2>2
<1>2. ASSUME NEW u \in Thread, Sends(u)', thread'[u].at # "tail"
      PROVE  /\ thread'[u].sends.tail <= Len(public')
             /\ thread'[u].sends.base # None => thread'[u].sends.base = thread'[u].sends.tail
             /\ \A i \in DOMAIN public' :
                  i <= thread'[u].sends.tail => public'[i].nonce # thread'[u].sends.nonce
  <2>1. PICK s : s = thread[u].sends
    OBVIOUS
  <2>2. Sends(u) /\ thread[u].at # "tail" /\ thread'[u].sends = s
    BY <1>2, <2>1
  <2>3. s.tail \in Nat
    BY <2>1, <2>2, AwakeIsWake DEF Sends, Wake, Sending
  <2>4. /\ s.tail <= Len(public) /\ (s.base # None => s.base = s.tail)
        /\ \A i \in DOMAIN public : i <= s.tail => public[i].nonce # s.nonce
    BY <2>1, <2>2 DEF BaseInv
  <2>5. s.tail <= Len(public')
    <3>1. Len(public) \in Nat /\ Len(public') \in Nat /\ Len(public) <= Len(public')
      BY <1>1
    <3>2. s.tail <= Len(public)
      BY <2>4
    <3>3. QED
      BY <2>3, <3>1, <3>2
  <2>6. ASSUME NEW i \in DOMAIN public', i <= s.tail
        PROVE  public'[i].nonce # s.nonce
    <3>1. Len(public) \in Nat /\ i \in 1 .. Len(public')
      BY <1>1
    <3>2. s.tail <= Len(public)
      BY <2>4
    <3>3. i \in 1 .. Len(public)
      BY <2>3, <2>6, <3>1, <3>2
    <3>4. i \in DOMAIN public /\ public'[i] = public[i]
      BY <1>1, <3>3
    <3>5. QED
      BY <2>4, <2>6, <3>4
  <2>7. QED
    BY <2>2, <2>4, <2>5, <2>6
<1>3. QED
  BY <1>2 DEF BaseInv

\* The tail is read before the line is written.
LEMMA TailBase ==
  ASSUME TypeInv, NonceInv, BaseInv, NEW t \in Thread, NEW reads \in BOOLEAN,
         ReadTail(t, reads)
  PROVE  BaseInv'
<1>1. public' = public
  BY DEF ReadTail, passes, speaking
<1>2. PICK x \in Wake :
              /\ Moves(t, x)
              /\ x.sends.nonce = thread[t].sends.nonce
              /\ x.sends.tail = Len(public) /\ x.sends.base \in {None, Len(public)}
  BY TailMoves
<1>3. \A u \in Thread : thread'[u] = IF u = t THEN x ELSE thread[u]
  BY <1>2, Others DEF TypeInv
<1>4. \A i \in DOMAIN public : public[i].nonce # thread[t].sends.nonce
  <2>1. \A i \in DOMAIN public : public[i] \in Out
    BY DEF Out
  <2>2. QED
    BY <2>1, TailMoves DEF NonceInv
<1>5. Len(public) \in Nat
  BY DEF TypeInv
<1>6. ASSUME NEW u \in Thread, Sends(u)', thread'[u].at # "tail"
      PROVE  /\ thread'[u].sends.tail <= Len(public)
             /\ thread'[u].sends.base # None => thread'[u].sends.base = thread'[u].sends.tail
             /\ \A i \in DOMAIN public :
                  i <= thread'[u].sends.tail => public[i].nonce # thread'[u].sends.nonce
  <2>1. CASE u = t
    BY <1>2, <1>3, <1>4, <1>5, <2>1
  <2>2. CASE u # t
    BY <1>3, <1>6, <2>2 DEF BaseInv, Sends
  <2>3. QED
    BY <2>1, <2>2
<1>7. QED
  BY <1>1, <1>6 DEF BaseInv
-----------------------------------------------------------------------------
(* The size of the table of jobs seen.                                     *)

SeenInv == Cardinality(DOMAIN seen) <= MaxSeen

LEMMA SeenStep ==
  ASSUME TypeInv, SeenInv, NEW t \in Thread, NEW listed \in SUBSET Job,
         NEW answers \in BOOLEAN, MarkSeen(t, listed, answers)
  PROVE  SeenInv'
<1> DEFINE all == DOMAIN seen \cup (listed \ DOMAIN seen)
           over == Cardinality(all) - MaxSeen
<1>1. PICK gone \in SUBSET all :
        /\ Cardinality(gone) = IF over > 0 THEN over ELSE 0
        /\ DOMAIN seen' = all \ gone
  BY DEF MarkSeen
<1>2. IsFiniteSet(all)
  <2>1. all \in SUBSET Job
    BY DEF TypeInv
  <2>2. QED
    BY <2>1, FS_Subset, PassAssumption
<1>3. Cardinality(all) \in Nat /\ MaxSeen \in Nat
  BY <1>2, FS_CardinalityType, PassAssumption
<1> HIDE DEF all
<1>4. Cardinality(all \ gone) = Cardinality(all) - Cardinality(all \cap gone)
  BY <1>2, FS_Difference
<1>5. all \cap gone = gone
  BY <1>1
<1>6. Cardinality(all \ gone) <= MaxSeen
  <2>1. Cardinality(all \ gone) = Cardinality(all) - (IF over > 0 THEN over ELSE 0)
    BY <1>1, <1>4, <1>5
  <2>2. QED
    BY <1>3, <2>1
<1>7. QED
  BY <1>1, <1>6 DEF SeenInv

LEMMA SeenQuiet ==
  ASSUME SeenInv, UNCHANGED seen
  PROVE  SeenInv'
BY DEF SeenInv
-----------------------------------------------------------------------------
(* Every step keeps the invariant.                                         *)

MemoryInv == PaceInv /\ MarkInv /\ SeenInv /\ TaskInv
WordsInv == NonceInv /\ KnownInv /\ BaseInv
Inv == TypeInv /\ MemoryInv /\ WordsInv

LEMMA MemoryQuiet ==
  ASSUME TypeInv, MemoryInv, clock' \in {clock, clock + 1},
         UNCHANGED <<lastThink, thinks, unpaced, marking, tasking>>,
         \A u \in Thread : SamePace(u),
         \A u \in Thread : SameLedger(u)
  PROVE  MemoryInv'
BY PaceQuiet, MarkQuiet, SeenQuiet, TaskQuiet DEF MemoryInv, marking

LEMMA WordsQuiet ==
  ASSUME WordsInv, UNCHANGED <<introduced, public, flying, signedSo>>, unsure => unsure',
         \A u \in Thread : SameTold(u),
         \A u \in Thread : SameSends(u)
  PROVE  WordsInv'
BY NonceQuiet, KnownQuiet, BaseQuiet DEF WordsInv

LEMMA BeginKeeps ==
  ASSUME Inv, NEW t \in Thread, BeginWake(t)
  PROVE  Inv'
<1>1. TypeInv
  BY DEF Inv
<1>2. PICK x \in Wake : Moves(t, x) /\ Locals(x) /\ x.at = "config" /\ x.sends = None
  BY <1>1, BeginMoves
<1>3. \A u \in Thread : thread'[u] = IF u = t THEN x ELSE thread[u]
  BY <1>1, <1>2, Others DEF TypeInv
<1>4. thread[t] = Idle /\ x.at \notin Informed
  BY <1>2 DEF BeginWake, Informed
<1>5. SamePace(t) /\ SameSends(t) /\ SameTold(t) /\ SameLedger(t)
  BY <1>2, <1>3, <1>4 DEF SamePace, SameSends, SameTold, SameLedger, Sends
<1>6. \A u \in Thread : SamePace(u) /\ SameSends(u) /\ SameTold(u) /\ SameLedger(u)
  BY <1>3, <1>5, StoodFrame
<1>7. MemoryInv'
  <2>1. clock' = clock /\ UNCHANGED <<lastThink, thinks, unpaced, marking, tasking>>
    BY DEF BeginWake
  <2>2. QED
    BY <1>1, <1>6, <2>1, MemoryQuiet DEF Inv
<1>8. WordsInv'
  <2>1. UNCHANGED <<introduced, public, flying, signedSo>> /\ unsure' = unsure
    BY DEF BeginWake, speaking
  <2>2. QED
    BY <1>6, <2>1, WordsQuiet DEF Inv
<1>9. QED
  BY <1>1, <1>7, <1>8, TypeBegin DEF Inv

LEMMA ConfigKeeps ==
  ASSUME Inv, NEW t \in Thread, NEW e \in Every, ReadConfig(t, e)
  PROVE  Inv'
<1>1. TypeInv
  BY DEF Inv
<1>2. PICK x \in Wake : Moves(t, x) /\ x.at = "last" /\ x.sends = None
  BY <1>1, ConfigMoves
<1>3. \A u \in Thread : thread'[u] = IF u = t THEN x ELSE thread[u]
  BY <1>1, <1>2, Others DEF TypeInv
<1>4. ~Sends(t) /\ x.at \notin Informed
  BY <1>1, <1>2, ConfigMoves DEF Sends, Informed
<1>5. SamePace(t) /\ SameSends(t) /\ SameTold(t) /\ SameLedger(t)
  BY <1>2, <1>3, <1>4 DEF SamePace, SameSends, SameTold, SameLedger
<1>6. \A u \in Thread : SamePace(u) /\ SameSends(u) /\ SameTold(u) /\ SameLedger(u)
  BY <1>3, <1>5, StoodFrame
<1>7. MemoryInv'
  <2>1. clock' = clock /\ UNCHANGED <<lastThink, thinks, unpaced, marking, tasking>>
    BY DEF ReadConfig, passes, pacing
  <2>2. QED
    BY <1>1, <1>6, <2>1, MemoryQuiet DEF Inv
<1>8. WordsInv'
  <2>1. UNCHANGED <<introduced, public, flying, signedSo>> /\ unsure' = unsure
    BY DEF ReadConfig, passes, speaking
  <2>2. QED
    BY <1>6, <2>1, WordsQuiet DEF Inv
<1>9. QED
  BY <1>1, <1>7, <1>8, TypeConfig DEF Inv

LEMMA LastKeeps ==
  ASSUME Inv, NEW t \in Thread, NEW reads \in BOOLEAN, ReadLast(t, reads)
  PROVE  Inv'
<1>1. TypeInv /\ thread[t] # Idle /\ thread[t].sends = None
  BY LastMoves DEF Inv
<1>2. \A u \in Thread : SameTold(u) /\ SameSends(u) /\ SameLedger(u)
  <2>1. CASE Answer(t)
    BY <1>1, <2>1, EndFrame
  <2>2. CASE ~Answer(t)
    <3>1. PICK x \in Wake : Moves(t, x) /\ Same(thread[t], x) /\ x.at = "store" /\ x.sends = None
      BY <1>1, <2>2, LastMoves
    <3>2. \A u \in Thread : thread'[u] = IF u = t THEN x ELSE thread[u]
      BY <1>1, <3>1, Others DEF TypeInv
    <3>3. x.at \notin Informed
      BY <3>1 DEF Informed
    <3>4. SameTold(t) /\ SameSends(t) /\ SameLedger(t)
      BY <1>1, <3>1, <3>2, <3>3 DEF SameTold, SameSends, SameLedger, Sends
    <3>5. QED
      BY <3>2, <3>4, StoodFrame
  <2>3. QED
    BY <2>1, <2>2
<1>3. PaceInv'
  BY <1>1, PaceLast DEF Inv, MemoryInv
<1>4. clock' = clock /\ UNCHANGED <<seen, marking, tasking>>
  BY DEF ReadLast, marking
<1>5. MarkInv' /\ SeenInv' /\ TaskInv'
  BY <1>1, <1>2, <1>4, MarkQuiet, SeenQuiet, TaskQuiet DEF Inv, MemoryInv
<1>6. WordsInv'
  <2>1. UNCHANGED <<introduced, public, flying, signedSo>> /\ unsure' = unsure
    BY DEF ReadLast, speaking
  <2>2. QED
    BY <1>2, <2>1, WordsQuiet DEF Inv
<1>7. QED
  BY <1>1, <1>3, <1>5, <1>6, TypeLast DEF Inv, MemoryInv

LEMMA StoreKeeps ==
  ASSUME Inv, NEW t \in Thread, NEW works \in BOOLEAN, StoreLast(t, works)
  PROVE  Inv'
<1>1. TypeInv /\ thread[t] # Idle /\ thread[t].sends = None
  BY StoreMoves DEF Inv
<1>2. PICK x \in Wake : Moves(t, x) /\ Same(thread[t], x) /\ x.at = "mark" /\ x.sends = None
  BY <1>1, StoreMoves
<1>3. x.at # "store" /\ x.at \notin Informed
  BY <1>2 DEF Informed
<1>4. \A u \in Thread : SameTold(u) /\ SameSends(u) /\ SameLedger(u)
  BY <1>1, <1>2, <1>3, KeptFrame
<1>5. PaceInv'
  BY <1>1, PaceStore DEF Inv, MemoryInv
<1>6. clock' = clock /\ UNCHANGED <<seen, marking, tasking>>
  BY DEF StoreLast, marking
<1>7. MarkInv' /\ SeenInv' /\ TaskInv'
  BY <1>1, <1>4, <1>6, MarkQuiet, SeenQuiet, TaskQuiet DEF Inv, MemoryInv
<1>8. WordsInv'
  <2>1. UNCHANGED <<introduced, public, flying, signedSo>> /\ unsure' = unsure
    BY DEF StoreLast, speaking
  <2>2. QED
    BY <1>4, <2>1, WordsQuiet DEF Inv
<1>9. QED
  BY <1>1, <1>5, <1>7, <1>8, TypeStore DEF Inv, MemoryInv

LEMMA MarkKeeps ==
  ASSUME Inv, NEW t \in Thread, NEW listed \in SUBSET Job, NEW answers \in BOOLEAN,
         MarkSeen(t, listed, answers)
  PROVE  Inv'
<1>1. TypeInv /\ thread[t] # Idle /\ thread[t].sends = None
  BY MarkMoves DEF Inv
<1>2. PICK x \in Wake : Moves(t, x) /\ Same(thread[t], x) /\ x.at = "flag" /\ x.sends = None
  BY <1>1, MarkMoves
<1>3. x.at # "store" /\ x.at \notin Informed
  BY <1>2 DEF Informed
<1>4. \A u \in Thread : SamePace(u) /\ SameTold(u) /\ SameSends(u) /\ SameLedger(u)
  BY <1>1, <1>2, <1>3, KeptFrame
<1>5. clock' = clock /\ UNCHANGED <<lastThink, thinks, unpaced, tasking>>
  BY DEF MarkSeen, pacing
<1>6. PaceInv' /\ TaskInv'
  BY <1>1, <1>4, <1>5, PaceQuiet, TaskQuiet DEF Inv, MemoryInv
<1>7. MarkInv' /\ SeenInv'
  BY <1>1, MarkStep, SeenStep DEF Inv, MemoryInv
<1>8. WordsInv'
  <2>1. UNCHANGED <<introduced, public, flying, signedSo>> /\ unsure' = unsure
    BY DEF MarkSeen, speaking
  <2>2. QED
    BY <1>4, <2>1, WordsQuiet DEF Inv
<1>9. QED
  BY <1>1, <1>6, <1>7, <1>8, TypeMark DEF Inv, MemoryInv

LEMMA FlagKeeps ==
  ASSUME Inv, NEW t \in Thread, NEW reads \in BOOLEAN, ReadIntroduced(t, reads)
  PROVE  Inv'
<1>1. TypeInv /\ ~Sends(t)
  BY FlagMoves DEF Inv, Sends
<1>2. PICK x \in Wake : Moves(t, x) /\ x.at = "tasks" /\ x.sends = None /\ ~x.ledger
  BY <1>1, FlagMoves
<1>3. \A u \in Thread : thread'[u] = IF u = t THEN x ELSE thread[u]
  BY <1>1, <1>2, Others DEF TypeInv
<1>4. SamePace(t) /\ SameSends(t) /\ SameLedger(t)
  BY <1>1, <1>2, <1>3 DEF SamePace, SameSends, SameLedger
<1>5. \A u \in Thread : SamePace(u) /\ SameSends(u) /\ SameLedger(u)
  BY <1>3, <1>4, StoodFrame
<1>6. MemoryInv'
  <2>1. clock' = clock /\ UNCHANGED <<lastThink, thinks, unpaced, marking, tasking>>
    BY DEF ReadIntroduced, pacing
  <2>2. QED
    BY <1>1, <1>5, <2>1, MemoryQuiet DEF Inv
<1>7. UNCHANGED <<public, flying, signedSo>>
  BY DEF ReadIntroduced
<1>8. NonceInv' /\ BaseInv'
  BY <1>5, <1>7, NonceQuiet, BaseQuiet DEF Inv, WordsInv
<1>9. KnownInv'
  BY <1>1, FlagKnown DEF Inv, WordsInv
<1>10. QED
  BY <1>1, <1>6, <1>8, <1>9, TypeFlag DEF Inv, WordsInv

LEMMA TasksKeeps ==
  ASSUME Inv, NEW t \in Thread, NEW playbook \in SUBSET Task, NEW reads \in BOOLEAN,
         ReadTasks(t, playbook, reads)
  PROVE  Inv'
<1>1. TypeInv /\ thread[t] # Idle /\ thread[t].at \in Informed /\ thread[t].sends = None
  BY TasksMoves DEF Inv
<1>2. PICK x \in Wake :
        /\ Moves(t, x) /\ x.at = "plan" /\ x.sends = None
        /\ x.spoke = thread[t].spoke /\ x.introduced = thread[t].introduced
  BY <1>1, TasksMoves
<1>3. \A u \in Thread : thread'[u] = IF u = t THEN x ELSE thread[u]
  BY <1>1, <1>2, Others DEF TypeInv
<1>4. SamePace(t) /\ SameSends(t) /\ SameTold(t)
  BY <1>1, <1>2, <1>3 DEF SamePace, SameSends, SameTold, Sends
<1>5. \A u \in Thread : SamePace(u) /\ SameSends(u) /\ SameTold(u)
  BY <1>3, <1>4, StoodFrame
<1>6. UNCHANGED <<lastThink, thinks, unpaced, marking, seen>>
  BY DEF ReadTasks, passes, pacing, marking
<1>7. MemoryInv'
  BY <1>1, <1>5, <1>6, PaceQuiet, MarkQuiet, SeenQuiet, TasksStep DEF Inv, MemoryInv
<1>8. WordsInv'
  <2>1. UNCHANGED <<introduced, public, flying, signedSo>> /\ unsure' = unsure
    BY DEF ReadTasks, passes, speaking
  <2>2. QED
    BY <1>5, <2>1, WordsQuiet DEF Inv
<1>9. QED
  BY <1>1, <1>7, <1>8, TypeTasks DEF Inv

LEMMA DoneKeeps ==
  ASSUME Inv, NEW t \in Thread, NEW id \in Task, NEW effect \in BOOLEAN,
         TaskDone(t, id, effect)
  PROVE  Inv'
<1>1. TypeInv /\ thread[t] # Idle /\ thread[t].at \in Informed /\ thread[t].sends = None
  BY DoneMoves DEF Inv
<1>2. PICK x \in Wake : Moves(t, x) /\ Same(thread[t], x) /\ x.at = "plan" /\ x.sends = None
  BY <1>1, DoneMoves
<1>3. \A u \in Thread : SamePace(u) /\ SameTold(u) /\ SameSends(u)
  BY <1>1, <1>2, KeptFrame
<1>4. UNCHANGED <<lastThink, thinks, unpaced, marking, seen>>
  BY DEF TaskDone, pacing, marking
<1>5. MemoryInv'
  BY <1>1, <1>3, <1>4, PaceQuiet, MarkQuiet, SeenQuiet, DoneStep DEF Inv, MemoryInv
<1>6. WordsInv'
  <2>1. UNCHANGED <<introduced, public, flying, signedSo>> /\ unsure' = unsure
    BY DEF TaskDone, speaking
  <2>2. QED
    BY <1>3, <2>1, WordsQuiet DEF Inv
<1>7. QED
  BY <1>1, <1>5, <1>6, TypeDone DEF Inv

LEMMA EmitKeeps ==
  ASSUME Inv, NEW t \in Thread, NEW m \in Message, NEW signs \in BOOLEAN, Emit(t, m, signs)
  PROVE  Inv'
<1>1. TypeInv /\ thread[t] # Idle /\ thread[t].at \in Informed /\ thread[t].sends = None
  BY EmitMoves DEF Inv
<1>2. PICK x \in Wake : /\ Moves(t, x) /\ Same(thread[t], x)
                        /\ (x.at = "plan" /\ x.sends = None) \/ x.at = "tail"
  BY <1>1, EmitMoves
<1>3. \A u \in Thread : SamePace(u) /\ SameLedger(u)
  BY <1>1, <1>2, KeptFrame
<1>4. MemoryInv'
  <2>1. clock' = clock /\ UNCHANGED <<lastThink, thinks, unpaced, marking, tasking>>
    BY DEF Emit, pacing
  <2>2. QED
    BY <1>1, <1>3, <2>1, MemoryQuiet DEF Inv
<1>5. \A u \in Thread : thread'[u] = IF u = t THEN x ELSE thread[u]
  BY <1>1, <1>2, Others DEF TypeInv
<1>6. NonceInv' /\ KnownInv'
  BY <1>1, EmitNonce, EmitKnown DEF Inv, WordsInv
<1>7. BaseInv'
  <2>1. public' = public
    BY DEF Emit
  <2>2. \A u \in Thread : Sends(u)' /\ thread'[u].at # "tail" =>
          Sends(u) /\ thread[u].at # "tail" /\ thread'[u].sends = thread[u].sends
    BY <1>2, <1>5 DEF Sends
  <2>3. QED
    BY <2>1, <2>2 DEF Inv, WordsInv, BaseInv
<1>8. QED
  BY <1>1, <1>4, <1>6, <1>7, TypeEmit DEF Inv, WordsInv

\* The steps from the tail to the flag read and write nothing of the memory but
\* the flag.
LEMMA SendingQuiet ==
  ASSUME Inv, NEW t \in Thread, Sends(t), NEW x \in Wake, Moves(t, x),
         Same(thread[t], x), x.at \in Informed,
         clock' = clock, UNCHANGED <<pacing, marking, tasking>>
  PROVE  /\ MemoryInv' /\ \A u \in Thread : SameTold(u)
         /\ thread[t] # Idle /\ thread[t].at \in Informed
<1>1. TypeInv /\ thread[t] # Idle
  BY DEF Inv, Sends
<1>2. thread[t].at \in Informed
  <2>1. Locals(thread[t])
    BY <1>1, AwakeIsWake
  <2>2. thread[t].at \in Holding
    BY <2>1 DEF Sends, Locals
  <2>3. QED
    BY <2>2 DEF Holding, Informed
<1>3. x.at # "store"
  BY DEF Informed
<1>4. \A u \in Thread : SamePace(u) /\ SameTold(u) /\ SameLedger(u)
  BY <1>1, <1>2, <1>3, KeptFrame
<1>5. clock' = clock /\ UNCHANGED <<lastThink, thinks, unpaced, marking, tasking>>
  BY DEF pacing
<1>6. QED
  BY <1>1, <1>2, <1>4, <1>5, MemoryQuiet DEF Inv

LEMMA TailKeeps ==
  ASSUME Inv, NEW t \in Thread, NEW reads \in BOOLEAN, ReadTail(t, reads)
  PROVE  Inv'
<1>1. TypeInv /\ Sends(t) /\ thread[t].at = "tail" /\ thread[t] # Idle
  BY TailMoves DEF Inv, Sends
<1>2. PICK x \in Wake :
        /\ Moves(t, x) /\ Same(thread[t], x)
        /\ x.at = "write"
        /\ x.sends.message = thread[t].sends.message
        /\ x.sends.nonce = thread[t].sends.nonce
  BY <1>1, TailMoves
<1>3. clock' = clock /\ UNCHANGED <<pacing, marking, speaking, tasking>>
  BY DEF ReadTail, passes
<1>4. x.at \in Informed
  BY <1>2 DEF Informed
<1>5. MemoryInv' /\ \A u \in Thread : SameTold(u)
  BY <1>1, <1>2, <1>3, <1>4, SendingQuiet
<1>6. /\ \A u \in Thread : u # t => thread'[u] = thread[u]
      /\ \A u \in Thread : Sends(u)' =>
           /\ Sends(u)
           /\ thread'[u].sends.nonce = thread[u].sends.nonce
           /\ thread'[u].sends.message = thread[u].sends.message
           /\ thread'[u].at \in {"tail", "write"} => thread[u].at \in {"tail", "write"}
  BY <1>1, <1>2, SendersDrop DEF Sends
<1>7. Out' = Out /\ UNCHANGED <<introduced, unsure, signedSo, public>>
  BY <1>3 DEF speaking, Out
<1>8. NonceInv'
  BY <1>6, <1>7, NonceDrop DEF Inv, WordsInv
<1>9. KnownInv'
  BY <1>1, <1>5, <1>6, <1>7, KnownDrop DEF Inv, WordsInv
<1>10. BaseInv'
  BY <1>1, TailBase DEF Inv, WordsInv
<1>11. QED
  BY <1>1, <1>5, <1>8, <1>9, <1>10, TypeTail DEF Inv, WordsInv

LEMMA WriteKeeps ==
  ASSUME Inv, NEW t \in Thread, NEW arrives, NEW ok \in BOOLEAN, Write(t, arrives, ok)
  PROVE  Inv'
<1>1. TypeInv /\ Sends(t) /\ thread[t].at = "write" /\ Line(t) \in Lines
  BY WriteMoves DEF Inv
<1>2. PICK x \in Wake : /\ Moves(t, x) /\ Same(thread[t], x)
                        /\ \/ x.at = "proof" /\ x.sends = thread[t].sends
                           \/ x.at = "plan" /\ x.sends = None
  BY <1>1, WriteMoves
<1>3. clock' = clock /\ UNCHANGED <<pacing, marking, tasking>>
  BY DEF Write
<1>4. x.at \in Informed
  BY <1>2 DEF Informed
<1>5. MemoryInv'
  BY <1>1, <1>2, <1>3, <1>4, SendingQuiet
<1>6. NonceInv' /\ KnownInv'
  BY <1>1, WriteNonce, WriteKnown DEF Inv, WordsInv
<1>7. \A u \in Thread : thread'[u] = IF u = t THEN x ELSE thread[u]
  BY <1>1, <1>2, Others DEF TypeInv
<1>8. \A u \in Thread : Sends(u)' /\ thread'[u].at # "tail" =>
        Sends(u) /\ thread[u].at # "tail" /\ thread'[u].sends = thread[u].sends
  BY <1>1, <1>2, <1>7 DEF Sends
<1>9. public' \in {public, Append(public, Line(t))}
  BY DEF Write
<1>10. BaseInv'
  BY <1>1, <1>8, <1>9, BaseGrows DEF Inv, WordsInv
<1>11. QED
  BY <1>1, <1>5, <1>6, <1>10, TypeWrite DEF Inv, WordsInv

\* A line that has left its wake, and the steps after it, put nothing out.
LEMMA WordsDrop ==
  ASSUME Inv, NEW t \in Thread, thread[t] # Idle,
         \/ Answer(t)
         \/ \E x \in Wake :
              /\ Moves(t, x)
              /\ \/ x.sends = None
                 \/ x.sends = thread[t].sends /\ x.at = "introduce" /\ thread[t].at = "proof",
         UNCHANGED <<public, flying, signedSo>>,
         introduced => introduced', unsure => unsure',
         \A u \in Thread : SameTold(u),
         \/ ~Sends(t)
         \/ Sends(t)' /\ thread'[t].sends.nonce = thread[t].sends.nonce
         \/ thread[t].at \in {"tail", "write"}
         \/ thread[t].sends.message.shape # "say"
         \/ introduced' \/ unsure'
  PROVE  WordsInv'
<1>1. TypeInv
  BY DEF Inv
<1>2. \/ Answer(t)
      \/ \E x \in Wake :
           /\ Moves(t, x)
           /\ \/ x.sends = None
              \/ /\ thread[t].sends # None /\ x.sends.nonce = thread[t].sends.nonce
                 /\ x.sends.message = thread[t].sends.message
                 /\ x.at \in {"tail", "write"} => thread[t].at \in {"tail", "write"}
  OBVIOUS
<1>3. /\ \A u \in Thread : u # t => thread'[u] = thread[u]
      /\ \A u \in Thread : Sends(u)' =>
           /\ Sends(u)
           /\ thread'[u].sends.nonce = thread[u].sends.nonce
           /\ thread'[u].sends.message = thread[u].sends.message
           /\ thread'[u].at \in {"tail", "write"} => thread[u].at \in {"tail", "write"}
  BY <1>1, <1>2, SendersDrop
<1>4. Out' = Out
  BY DEF Out
<1>5. NonceInv' /\ KnownInv'
  BY <1>3, <1>4, NonceDrop, KnownDrop DEF Inv, WordsInv
<1>6. Sends(t)' => thread[t].at = "proof" /\ thread'[t].sends = thread[t].sends
  <2>1. CASE Answer(t)
    <3>1. thread'[t] = Idle
      BY <1>1, <2>1 DEF Answer, TypeInv, ThreadInv
    <3>2. QED
      BY <3>1 DEF Sends
  <2>2. CASE ~Answer(t)
    <3>1. PICK x \in Wake :
            /\ Moves(t, x)
            /\ \/ x.sends = None
               \/ x.sends = thread[t].sends /\ x.at = "introduce" /\ thread[t].at = "proof"
      BY <2>2
    <3>2. thread'[t] = x
      BY <1>1, <3>1, Others DEF TypeInv
    <3>3. QED
      BY <3>1, <3>2 DEF Sends
  <2>3. QED
    BY <2>1, <2>2
<1>7. \A u \in Thread : Sends(u)' /\ thread'[u].at # "tail" =>
        Sends(u) /\ thread[u].at # "tail" /\ thread'[u].sends = thread[u].sends
  BY <1>3, <1>6 DEF Sends
<1>8. BaseInv'
  BY <1>7 DEF Inv, WordsInv, BaseInv
<1>9. QED
  BY <1>5, <1>8 DEF WordsInv

LEMMA ConfirmKeeps ==
  ASSUME Inv, NEW t \in Thread, NEW reads \in BOOLEAN, NEW echoes \in BOOLEAN,
         Confirm(t, reads, echoes)
  PROVE  Inv'
<1>1. TypeInv /\ Sends(t) /\ thread[t].at = "proof" /\ thread[t] # Idle
  BY ConfirmMoves DEF Inv, Sends
<1>2. PICK x \in Wake : /\ Moves(t, x) /\ Same(thread[t], x)
                        /\ \/ Says(t) /\ x.at = "introduce" /\ x.sends = thread[t].sends
                           \/ ~Says(t) /\ x.at = "plan" /\ x.sends = None
  BY <1>1, ConfirmMoves
<1>3. /\ clock' = clock /\ UNCHANGED <<pacing, marking, tasking>>
      /\ UNCHANGED <<introduced, public, flying, signedSo, unsure>>
  BY DEF Confirm
<1>4. x.at \in Informed
  BY <1>2 DEF Informed
<1>5. MemoryInv' /\ \A u \in Thread : SameTold(u)
  BY <1>1, <1>2, <1>3, <1>4, SendingQuiet
<1>6. thread'[t] = x /\ x # Idle
  BY <1>1, <1>2, Others, WakeAssumption DEF TypeInv
<1>7. \/ Sends(t)' /\ thread'[t].sends.nonce = thread[t].sends.nonce
      \/ thread[t].sends.message.shape # "say"
  BY <1>1, <1>2, <1>6 DEF Sends, Says
<1>8. WordsInv'
  BY <1>1, <1>2, <1>3, <1>5, <1>7, WordsDrop
<1>9. QED
  BY <1>1, <1>5, <1>8, TypeConfirm DEF Inv

LEMMA IntroduceKeeps ==
  ASSUME Inv, NEW t \in Thread, NEW works \in BOOLEAN, Introduce(t, works)
  PROVE  Inv'
<1>1. TypeInv /\ Sends(t) /\ thread[t] # Idle
  BY IntroduceMoves DEF Inv, Sends
<1>2. PICK x \in Wake : /\ Moves(t, x) /\ Same(thread[t], x)
                        /\ x.at = "plan" /\ x.sends = None
  BY <1>1, IntroduceMoves
<1>3. /\ clock' = clock /\ UNCHANGED <<pacing, marking, tasking>>
      /\ UNCHANGED <<public, flying, signedSo>>
      /\ introduced' = (introduced \/ works) /\ unsure' = (unsure \/ ~works)
  BY DEF Introduce
<1>4. x.at \in Informed
  BY <1>2 DEF Informed
<1>5. MemoryInv' /\ \A u \in Thread : SameTold(u)
  BY <1>1, <1>2, <1>3, <1>4, SendingQuiet
<1>6. /\ (introduced => introduced') /\ (unsure => unsure')
      /\ introduced' \/ unsure'
  BY <1>3
<1>7. WordsInv'
  BY <1>1, <1>2, <1>3, <1>5, <1>6, WordsDrop
<1>8. QED
  BY <1>1, <1>5, <1>7, TypeIntroduce DEF Inv

\* A wake ends with nothing in hand, or dies with a line nobody has seen, or leaves
\* the agent unsure.
LEMMA EndKeeps ==
  ASSUME Inv, NEW t \in Thread, EndWake(t) \/ DieWake(t)
  PROVE  Inv'
<1>1. TypeInv /\ thread[t] # Idle /\ Answer(t)
  BY DEF Inv, EndWake, DieWake, At
<1>2. Locals(thread[t])
  BY <1>1, AwakeIsWake
<1>3. \A u \in Thread : SamePace(u) /\ SameTold(u) /\ SameLedger(u)
  BY <1>1, EndFrame
<1>4. /\ clock' = clock
      /\ UNCHANGED <<lastThink, thinks, unpaced, marking, tasking>>
      /\ UNCHANGED <<introduced, public, flying, signedSo>>
  BY DEF EndWake, DieWake, passes, pacing, speaking
<1>5. MemoryInv'
  BY <1>1, <1>3, <1>4, MemoryQuiet DEF Inv
<1>6. unsure => unsure'
  BY DEF EndWake, DieWake, passes, speaking
<1>7. ~Sends(t) \/ thread[t].at \in {"tail", "write"} \/ unsure'
  <2>1. CASE EndWake(t)
    BY <1>2, <2>1 DEF EndWake, At, Locals, Holding, Sends
  <2>2. CASE DieWake(t)
    <3>1. unsure' = (unsure \/ At(t, "proof") \/ At(t, "introduce"))
      BY <2>2 DEF DieWake
    <3>2. Sends(t) => thread[t].at \in Holding
      BY <1>2 DEF Sends, Locals
    <3>3. QED
      BY <1>1, <3>1, <3>2 DEF Holding, At
  <2>3. QED
    BY <2>1, <2>2
<1>8. WordsInv'
  BY <1>1, <1>3, <1>4, <1>6, <1>7, WordsDrop
<1>9. QED
  BY <1>1, <1>5, <1>8, TypeEnd DEF Inv

LEMMA ArriveKeeps ==
  ASSUME Inv, NEW l \in flying, Arrive(l)
  PROVE  Inv'
<1>1. TypeInv /\ l \in Lines
  BY DEF Inv, TypeInv
<1>2. /\ clock' = clock /\ thread' = thread
      /\ UNCHANGED <<pacing, marking, tasking, introduced, signedSo, unsure>>
      /\ public' = Append(public, l) /\ flying' = flying \ {l}
  BY DEF Arrive, desk
<1>3. \A u \in Thread : SamePace(u) /\ SameTold(u) /\ SameSends(u) /\ SameLedger(u)
  BY <1>2, StoodFrame
<1>4. UNCHANGED <<lastThink, thinks, unpaced, marking, tasking>>
  BY <1>2 DEF pacing
<1>5. MemoryInv'
  BY <1>1, <1>2, <1>3, <1>4, MemoryQuiet DEF Inv
<1>6. Out' = Out
  BY <1>1, <1>2, PublicGrows DEF Out
<1>7. \A u \in Thread : Sends(u)' <=> Sends(u)
  BY <1>2 DEF Sends
<1>8. NonceInv'
  BY <1>2, <1>6, <1>7 DEF Inv, WordsInv, NonceInv
<1>9. KnownInv'
  BY <1>2, <1>6, <1>7 DEF Inv, WordsInv, KnownInv, IntroductionIsKnown
<1>10. BaseInv'
  BY <1>1, <1>2, <1>7, BaseGrows DEF Inv, WordsInv
<1>11. QED
  BY <1>1, <1>5, <1>8, <1>9, <1>10, TypeArrive DEF Inv, WordsInv

LEMMA TickKeeps ==
  ASSUME Inv, \/ Tick /\ UNCHANGED passes
              \/ UNCHANGED passVars
  PROVE  Inv'
<1>1. /\ TypeInv /\ thread' = thread /\ clock' \in {clock, clock + 1}
      /\ UNCHANGED passes
  BY DEF Inv, Tick, passVars, desk
<1>2. \A u \in Thread : SamePace(u) /\ SameTold(u) /\ SameSends(u) /\ SameLedger(u)
  BY <1>1, StoodFrame
<1>3. UNCHANGED <<lastThink, thinks, unpaced, marking, tasking>>
  BY <1>1 DEF passes, pacing
<1>4. MemoryInv'
  BY <1>1, <1>2, <1>3, MemoryQuiet DEF Inv
<1>5. UNCHANGED <<introduced, public, flying, signedSo>> /\ unsure' = unsure
  BY <1>1 DEF passes, speaking
<1>6. WordsInv'
  BY <1>2, <1>5, WordsQuiet DEF Inv
<1>7. TypeInv'
  BY <1>1, TypeTick, TypeQuiet
<1>8. QED
  BY <1>4, <1>6, <1>7 DEF Inv

LEMMA InvInit ==
  ASSUME DeskInit, PassInit
  PROVE  Inv
<1>1. TypeInv
  <2>1. ThreadInv
    BY DEF DeskInit, ThreadInv
  <2>2. clock = 1 /\ lastThink = 0 /\ signedSo = 0
    BY DEF DeskInit, PassInit
  <2>3. clock \in Nat /\ clock > 0 /\ lastThink \in Nat /\ lastThink <= clock /\ signedSo \in Nat
    BY <2>2
  <2>4. DOMAIN seen \subseteq Job
    BY DEF PassInit
  <2>5. introduced \in BOOLEAN /\ unsure \in BOOLEAN /\ unpaced \in BOOLEAN
    BY DEF PassInit
  <2>6. runs \subseteq Rows /\ flying \subseteq Lines
    BY DEF PassInit
  <2>7. done \in Seq(Records)
    BY DEF PassInit
  <2>8. public \in Seq(Lines)
    BY DEF PassInit
  <2>9. thinks \in Seq(Stored)
    BY DEF PassInit
  <2>10. offered \in [Job -> Nat] /\ dropped \in [Job -> Nat]
    BY DEF PassInit
  <2>11. QED
    BY <2>1, <2>3, <2>4, <2>5, <2>6, <2>7, <2>8, <2>9, <2>10 DEF TypeInv
<1>2. PaceInv /\ MarkInv
  BY DEF DeskInit, PassInit, PaceInv, MarkInv, Paced, At
<1>3. Cardinality({}) = 0 /\ IsFiniteSet({})
  BY FS_EmptySet
<1>4. SeenInv
  <2>1. DOMAIN seen = {}
    BY DEF PassInit
  <2>2. QED
    BY <1>3, <2>1, PassAssumption DEF SeenInv
<1>5. RowsInv
  <2>1. runs = {} /\ DOMAIN done = {}
    BY DEF PassInit
  <2>2. QED
    BY <1>3, <2>1, PassAssumption DEF RowsInv
<1>6. DoneStaysDone
  BY DEF DeskInit, DoneStaysDone
<1>7. WordsInv
  <2>1. Out = {}
    BY DEF PassInit, Out
  <2>2. QED
    BY <2>1 DEF DeskInit, WordsInv, NonceInv, KnownInv, BaseInv, IntroductionIsKnown, Sends
<1>8. QED
  BY <1>1, <1>2, <1>4, <1>5, <1>6, <1>7 DEF Inv, MemoryInv, TaskInv

LEMMA InvStep ==
  ASSUME Inv, [PassNext]_passVars
  PROVE  Inv'
<1>1. ASSUME NEW t \in Thread, BeginWake(t)
      PROVE  Inv'
  BY <1>1, BeginKeeps
<1>2. ASSUME NEW t \in Thread, EndWake(t) \/ DieWake(t)
      PROVE  Inv'
  BY <1>2, EndKeeps
<1>3. ASSUME NEW t \in Thread, NEW e \in Every, ReadConfig(t, e)
      PROVE  Inv'
  BY <1>3, ConfigKeeps
<1>4. ASSUME NEW t \in Thread, NEW b \in BOOLEAN, ReadLast(t, b)
      PROVE  Inv'
  BY <1>4, LastKeeps
<1>5. ASSUME NEW t \in Thread, NEW b \in BOOLEAN, StoreLast(t, b)
      PROVE  Inv'
  BY <1>5, StoreKeeps
<1>6. ASSUME NEW t \in Thread, NEW b \in BOOLEAN, ReadIntroduced(t, b)
      PROVE  Inv'
  BY <1>6, FlagKeeps
<1>7. ASSUME NEW t \in Thread, NEW b \in BOOLEAN, ReadTail(t, b)
      PROVE  Inv'
  BY <1>7, TailKeeps
<1>8. ASSUME NEW t \in Thread, NEW b \in BOOLEAN, Introduce(t, b)
      PROVE  Inv'
  BY <1>8, IntroduceKeeps
<1>9. ASSUME NEW t \in Thread, NEW b \in BOOLEAN, NEW m \in Message, Emit(t, m, b)
      PROVE  Inv'
  BY <1>9, EmitKeeps
<1>10. ASSUME NEW t \in Thread, NEW b \in BOOLEAN, NEW id \in Task, TaskDone(t, id, b)
       PROVE  Inv'
  BY <1>10, DoneKeeps
<1>11. ASSUME NEW t \in Thread, NEW b \in BOOLEAN, NEW S \in SUBSET Job, MarkSeen(t, S, b)
       PROVE  Inv'
  BY <1>11, MarkKeeps
<1>12. ASSUME NEW t \in Thread, NEW b \in BOOLEAN, NEW S \in SUBSET Task, ReadTasks(t, S, b)
       PROVE  Inv'
  BY <1>12, TasksKeeps
<1>13. ASSUME NEW t \in Thread, NEW b \in BOOLEAN, NEW arrives, Write(t, arrives, b)
       PROVE  Inv'
  BY <1>13, WriteKeeps
<1>14. ASSUME NEW t \in Thread, NEW b \in BOOLEAN, NEW echoes \in BOOLEAN,
              Confirm(t, b, echoes)
       PROVE  Inv'
  BY <1>14, ConfirmKeeps
<1>15. ASSUME NEW l \in flying, Arrive(l)
       PROVE  Inv'
  BY <1>15, ArriveKeeps
<1>16. CASE (Tick /\ UNCHANGED passes) \/ UNCHANGED passVars
  BY <1>16, TickKeeps
<1>17. CASE \E t \in Thread : BeginWake(t) \/ EndWake(t) \/ DieWake(t)
  BY <1>1, <1>2, <1>17
<1>18. CASE \E t \in Thread : \E e \in Every : ReadConfig(t, e)
  BY <1>3, <1>18
<1>19. CASE \E t \in Thread : \E b \in BOOLEAN :
             \/ ReadLast(t, b) \/ StoreLast(t, b) \/ ReadIntroduced(t, b)
             \/ ReadTail(t, b) \/ Introduce(t, b)
  BY <1>4, <1>5, <1>6, <1>7, <1>8, <1>19
<1>20. CASE \E t \in Thread : \E b \in BOOLEAN :
             \/ \E m \in Message : Emit(t, m, b)
             \/ \E id \in Task : TaskDone(t, id, b)
             \/ \E S \in SUBSET Job : MarkSeen(t, S, b)
             \/ \E S \in SUBSET Task : ReadTasks(t, S, b)
             \/ \E arrives \in {"now", "later", "never"} : Write(t, arrives, b)
             \/ \E echoes \in BOOLEAN : Confirm(t, b, echoes)
  BY <1>9, <1>10, <1>11, <1>12, <1>13, <1>14, <1>20
<1>21. CASE \E l \in flying : Arrive(l)
  BY <1>15, <1>21
<1>22. QED
  BY <1>16, <1>17, <1>18, <1>19, <1>20, <1>21, Zenon DEF PassNext
-----------------------------------------------------------------------------
(* Theorems.                                                               *)

LEMMA InvHolds == PassSpec => []Inv
<1>1. DeskInit /\ PassInit => Inv
  BY InvInit
<1>2. Inv /\ [PassNext]_passVars => Inv'
  BY InvStep
<1>3. QED
  BY <1>1, <1>2, PTL DEF PassSpec

LEMMA PassTyped == Inv => PassTypeOK
<1>1. SUFFICES ASSUME Inv
               PROVE  PassTypeOK
  OBVIOUS
<1>2. TypeInv /\ SeenInv /\ RowsInv /\ NonceInv
  BY <1>1 DEF Inv, MemoryInv, WordsInv, TaskInv
<1>3. ASSUME NEW t \in Thread, thread[t] # Idle
      PROVE  /\ thread[t].now \in 1 .. clock
             /\ thread[t].sends # None <=>
                  thread[t].at \in {"tail", "write", "proof", "introduce"}
  <2>1. thread[t] \in Wake /\ Locals(thread[t]) /\ thread[t].now <= clock
    BY <1>2, <1>3, AwakeIsWake
  <2>2. thread[t].now \in Nat
    BY <2>1 DEF Wake
  <2>3. QED
    BY <1>2, <2>1, <2>2 DEF Locals, Holding, TypeInv
<1>4. \A x \in runs : x.id \in Task /\ x.at \in 1 .. clock
  <2>1. SUFFICES ASSUME NEW x \in runs
                 PROVE  x.id \in Task /\ x.at \in 1 .. clock
    OBVIOUS
  <2>2. x.row \in DOMAIN done /\ done[x.row].at = x.at
    BY <1>2, RowIsRun
  <2>3. 0 < x.at /\ x.at <= clock
    BY <1>2, <2>2 DEF RowsInv
  <2>4. x.id \in Task /\ x.at \in Nat /\ clock \in Nat
    BY <1>2, DoneTyped DEF TypeInv
  <2>5. QED
    BY <2>3, <2>4
<1>5. \A i \in DOMAIN public : public[i].message \in Message /\ public[i].nonce <= signedSo
  <2>1. public \in Seq(Lines)
    BY <1>2 DEF TypeInv
  <2>2. \A i \in DOMAIN public : public[i] \in Lines /\ public[i] \in Out
    BY <2>1 DEF Out
  <2>3. QED
    BY <1>2, <2>2 DEF Lines, NonceInv
<1>6. QED
  BY <1>2, <1>3, <1>4, <1>5 DEF PassTypeOK, TypeInv, ThreadInv, SeenInv, RowsInv

\* The variables of the wakes, and their locals, have the types they are declared
\* with; neither table outgrows its bound.
THEOREM PassTypeCorrect == PassSpec => []PassTypeOK
BY PassTyped, InvHolds, PTL

\* What the agent's memory is for: the pace is kept, a job is fresh to one wake, an
\* introduction is known to every later wake, and a task done stays done, however
\* many wakes overlap, fail and die.
THEOREM MemoryServes == PassSpec => []MemoryHolds
<1>1. Inv => MemoryHolds
  <2>1. SUFFICES ASSUME Inv
                 PROVE  MemoryHolds
    OBVIOUS
  <2>2. TypeInv /\ PaceInv /\ MarkInv /\ KnownInv /\ DoneStaysDone
    BY <2>1 DEF Inv, MemoryInv, WordsInv, TaskInv
  <2>3. Paced
    BY <2>2 DEF PaceInv, Paced
  <2>4. FreshOnce
    <3>1. SUFFICES ASSUME NEW j \in Job
                   PROVE  offered[j] <= 1 + dropped[j]
      BY DEF FreshOnce
    <3>2. offered[j] \in Nat /\ dropped[j] \in Nat
      BY <2>2 DEF TypeInv
    <3>3. QED
      BY <2>2, <3>2 DEF MarkInv
  <2>5. IntroductionIsKnown
    BY <2>2 DEF KnownInv, IntroductionIsKnown
  <2>6. QED
    BY <2>2, <2>3, <2>4, <2>5 DEF MemoryHolds
<1>2. QED
  BY <1>1, InvHolds, PTL

\* A line reported confirmed is public, with its words, behind the baseline of the
\* wake that wrote it.
THEOREM ConfirmedWasWritten == PassSpec => []ConfirmedIsThere
<1>1. Inv => ConfirmedIsThere
  <2>1. SUFFICES ASSUME Inv, NEW t \in Thread, NEW echoes \in BOOLEAN,
                        At(t, "proof"), Confirmed(t, TRUE, echoes)
                 PROVE  \E i \in DOMAIN public :
                          /\ i > thread[t].sends.tail
                          /\ public[i].message = thread[t].sends.message
    BY DEF ConfirmedIsThere
  <2>2. TypeInv /\ NonceInv /\ BaseInv
    BY <2>1 DEF Inv, WordsInv
  <2>3. Sends(t) /\ thread[t].at = "proof" /\ thread[t].sends \in Sending
    <3>1. thread[t] # Idle /\ thread[t].at = "proof"
      BY <2>1 DEF At
    <3>2. thread[t] \in Wake /\ Locals(thread[t])
      BY <2>2, <3>1, AwakeIsWake
    <3>3. QED
      BY <3>1, <3>2 DEF Locals, Holding, Wake, Sends
  <2>4. PICK i \in DOMAIN public : Proves(t, i, echoes)
    BY <2>1 DEF Confirmed
  <2>5. public[i] \in Out /\ i \in Nat /\ thread[t].sends.tail \in Nat
    <3>1. public \in Seq(Lines)
      BY <2>2 DEF TypeInv
    <3>2. i \in Nat
      BY <3>1
    <3>3. QED
      BY <2>3, <3>2 DEF Out, Sending
  <2>6. CASE public[i].nonce = thread[t].sends.nonce
    <3>1. public[i].message = thread[t].sends.message
      BY <2>2, <2>3, <2>5, <2>6 DEF NonceInv
    <3>2. ~(i <= thread[t].sends.tail)
      BY <2>2, <2>3, <2>6 DEF BaseInv
    <3>3. QED
      BY <2>5, <3>1, <3>2
  <2>7. CASE /\ thread[t].sends.base # None /\ i > thread[t].sends.base
             /\ public[i].message = thread[t].sends.message
    BY <2>2, <2>3, <2>7 DEF BaseInv
  <2>8. QED
    BY <2>4, <2>6, <2>7 DEF Proves
<1>2. QED
  BY <1>1, InvHolds, PTL
-----------------------------------------------------------------------------
(* The parts side by side.                                                 *)

\* Each focus keeps the invariant of its own part; the notes have no panel yet.
FocusInv ==
  /\ focus \in Foci
  /\ focus \in Wakes => Inv
  /\ focus \notin Wakes => NotesInv /\ BoundInv /\ CloudInv
  /\ focus \in {"panel", "health"} => AskInv

LEMMA FocusInit == SpecInit => FocusInv
<1> SUFFICES ASSUME SpecInit PROVE FocusInv
  OBVIOUS
<1>1. DeskInit /\ PanelInit /\ NotesInit /\ PassInit /\ focus \in Foci
  BY DEF SpecInit, PanelInit
<1>2. Inv /\ PanelInv /\ BoundInv
  BY <1>1, InvInit, PanelInvInit, BoundInit
<1>3. QED
  BY <1>1, <1>2 DEF FocusInv, PanelInv

LEMMA FocusStep == FocusInv /\ [Next]_<<focus, panelVars, passes>> => FocusInv'
<1> SUFFICES ASSUME FocusInv, [Next]_<<focus, panelVars, passes>> PROVE FocusInv'
  OBVIOUS
<1>1. focus' = focus
  BY DEF Next
<1>2. CASE focus \in Wakes
  <2>1. [PassNext]_passVars
    BY <1>2 DEF Next, Wakes, panelVars, passVars
  <2>2. Inv'
    BY <1>2, <2>1, InvStep DEF FocusInv
  <2>3. QED
    BY <1>1, <1>2, <2>2 DEF FocusInv, Wakes
<1>3. CASE focus = "notes"
  <2>1. [NotesNext]_notesVars /\ UNCHANGED panel
    BY <1>3 DEF Next, Wakes, panelVars, notesVars
  <2>2. NotesInv /\ BoundInv /\ CloudInv
    BY <1>3 DEF FocusInv, Wakes
  <2>3. NotesInv' /\ BoundInv'
    BY <2>1, <2>2, NotesInvStep, BoundStep
  <2>4. CloudInv'
    BY <2>1, <2>2 DEF CloudInv, panel, Promise!Live
  <2>5. QED
    BY <1>1, <1>3, <2>3, <2>4 DEF FocusInv, Wakes
<1>4. CASE focus \in {"panel", "health"}
  <2>1. [PanelNext]_panelVars
    BY <1>4 DEF Next, Wakes, panelVars
  <2>2. PanelInv /\ BoundInv
    BY <1>4 DEF FocusInv, Wakes, PanelInv
  <2>3. PanelInv' /\ BoundInv'
    BY <2>1, <2>2, PanelInvStep, PanelBoundStep
  <2>4. QED
    BY <1>1, <1>4, <2>3 DEF FocusInv, Wakes, PanelInv
<1>5. QED
  BY <1>2, <1>3, <1>4 DEF FocusInv, Foci

\* The notes, the panel over them and the wakes have the types they are declared
\* with in every focus: no save makes more attempts than WRITE_ATTEMPTS or draws a
\* nonce past the bound, and no table of the wakes outgrows its own.
THEOREM PanelTypeCorrect == Spec => []TypeOK
<1>1. FocusInv => TypeOK
  BY NotesTyped, PanelTyped, PassTyped DEF FocusInv, TypeOK
<1>2. QED
  BY <1>1, FocusInit, FocusStep, PTL DEF Spec
=============================================================================
