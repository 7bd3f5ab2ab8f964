--------------------------------- MODULE Review ---------------------------------
(***************************************************************************)
(* One user's reviews: the submissions of app/grade.py as transactions     *)
(* with their row locks, several at a time (tabs, double clicks, replays), *)
(* the schedule of app/srs.py, the statistics of app/stats.py, and a sync  *)
(* that purges items while they are being answered.                        *)
(*                                                                         *)
(* Time is a count of the user's study days: next_review_date and the      *)
(* starts of days are midnights in the user's zone.  Ease is in            *)
(* thousandths.  A credit, a float of the grader's, is in two-hundredths:  *)
(* 2 * h is h hundredths, and 2 * h - 1 a credit less than 10^-10 below    *)
(* them, which rounding takes for them and a comparison does not.          *)
(***************************************************************************)
EXTENDS Integers, Sequences, FiniteSets

CONSTANTS
  Items, Submits,
  Nobody,         \* holds no lock
  Choices,        \* the items that are multiple-choice questions
  Credits,        \* what the grader may give for a short answer
  OldRows,        \* states and logs that the migrations left
  NewItemsPerDay, \* NEW_ITEMS_PER_DAY (20)
  QueueLimit,     \* the page's limit (20)
  Window,         \* STREAK_WINDOW_DAYS (32)
  MaxDay          \* bound on the days

ASSUME NobodyAssumption == Nobody \notin Submits /\ Nobody \notin Items
ASSUME CreditsAssumption == Choices \subseteq Items /\ Credits \subseteq 0..200
ASSUME BoundsAssumption ==
  /\ NewItemsPerDay \in Nat \ {0} /\ QueueLimit \in Nat
  /\ Window \in Nat \ {0} /\ MaxDay \in Nat /\ IsFiniteSet(Items)

VARIABLES
  day,
  items,      \* quiz_items: those that exist
  state,      \* review_states by item, or NoState
  log,        \* review_logs by item
  past,       \* the days of logs whose item is gone (SET NULL)
  userLock,   \* the submit that holds the user's row
  purging,    \* an item whose purge is not committed yet,
  deleted,    \*   and the rows that it has deleted
  pc, item, now, isNew   \* a submit and its locals

vars == <<day, items, state, log, past, userLock, purging, deleted,
          pc, item, now, isNew>>
tables == <<items, state, log, past>>

-----------------------------------------------------------------------------
(* srs.py *)

\* Mutant: rounded to the nearest quality.
QualityRounded(p) == (((p + 1) \div 2) * 5 + 50) \div 100

\* partial_credit_to_quality: rounded to nine places, then floored.
Quality(p) == (((p + 1) \div 2) * 5) \div 100

\* verdict: the credit as it is.
Verdict(p) == IF p >= 120 THEN "correct" ELSE IF p >= 60 THEN "partial" ELSE "incorrect"
Verdicts == {"correct", "partial", "incorrect"}

\* Below PASS_CREDIT, but rounded to it.
AlmostPass == 119

Larger(a, b) == IF a >= b THEN a ELSE b
Smaller(a, b) == IF a <= b THEN a ELSE b

\* round() of thousandths: to the nearest, a half to the even one.
Rounded(n) ==
  LET q == n \div 1000  r == n % 1000 IN
  IF r > 500 \/ (r = 500 /\ q % 2 = 1) THEN q + 1 ELSE q

NextEase(q, ease) == Larger(1300, ease + 100 - (5 - q) * (80 + (5 - q) * 20))

\* next_interval_days, for the row s.
Interval(q, s) ==
  IF q < 3 \/ s.reps = 0 THEN 1
  ELSE IF s.reps = 1 THEN 3
  ELSE Larger(1, Rounded(s.interval * NextEase(q, s.ease)))

NoState == [due |-> -1, first |-> -1, interval |-> 0, reps |-> 0, ease |-> 0, lapses |-> 0]

\* The row of _ensure_state; the item is of medium difficulty.
FreshState(n) ==
  [due |-> n, first |-> -1, interval |-> 0, reps |-> 0, ease |-> 2500, lapses |-> 0]

States == [due : Int, first : -1..MaxDay, interval : Nat, reps : Nat, ease : Nat, lapses : Nat]

\* Rows older than first_answered_at have none, and of their answers the last
\* at most is in the log, without its credit.
OldLogs ==
  {<<>>} \union {<<[day |-> 0, verdict |-> v, credit |-> -1]>> : v \in Verdicts}

ASSUME OldRowsAssumption ==
  \A row \in OldRows :
    /\ row.state \in States /\ row.state.first = -1 /\ row.state.due >= 0
    /\ row.log \in OldLogs /\ (row.log # <<>> => row.state.due >= 1)

\* The row after an answer of day n.
Advance(s, p, n, new) ==
  LET q == Quality(p) IN
  [due |-> n + Interval(q, s), first |-> IF new /\ s.first = -1 THEN n ELSE s.first,
   interval |-> Interval(q, s), reps |-> IF q < 3 THEN 0 ELSE s.reps + 1,
   ease |-> NextEase(q, s.ease), lapses |-> IF q < 3 THEN s.lapses + 1 ELSE s.lapses]

-----------------------------------------------------------------------------
(* The queue *)

Unanswered == {i \in items : state[i] = NoState}
Overdue(n) == {i \in items : state[i] # NoState /\ state[i].due <= n}

\* _new_allowance: first answers since the day began, of rows that are left.
Allowance(n) ==
  Larger(0, NewItemsPerDay - Cardinality({i \in items : state[i].first >= n}))

\* due_items: the length of the page's queue, overdue items before new ones.
QueueLength(n) ==
  LET old == Smaller(QueueLimit, Cardinality(Overdue(n))) IN
  old + Smaller(Cardinality(Unanswered), Smaller(QueueLimit - old, Allowance(n)))

\* Mutant: a backlog of new items is counted in full.
DueCountUncapped(n) == Cardinality(Overdue(n)) + Cardinality(Unanswered)

\* due_count: the number on the page and in the reminder.
DueCount(n) == Cardinality(Overdue(n)) + Smaller(Cardinality(Unanswered), Allowance(n))

-----------------------------------------------------------------------------
(* stats.py *)

Answered == past \union UNION {{log[i][k].day : k \in DOMAIN log[i]} : i \in Items}

\* The days read after k windows, each twice as long as the one before.
Loaded(k) == Window * (2^k - 1)

\* Where a streak of the days D starts, and the day before it ended.
StreakEnd(D) == IF day \in D THEN day ELSE day - 1
Cursor(D) ==
  CHOOSE c \in -2..day :
    /\ c <= StreakEnd(D) /\ c \notin D
    /\ \A d \in (c + 1)..StreakEnd(D) : d \in D

\* Mutant: the first window is all that is read.
StreakOfWindow ==
  LET D == {d \in Answered : d > day - Window}
  IN StreakEnd(D) - Cursor(D)

\* _streak: windows are read until the streak stops on a day that was read.
Streak ==
  LET Read(k) == {d \in Answered : d > day - Loaded(k)}
      Complete(k) == day - Cursor(Read(k)) < Loaded(k)
      last == CHOOSE k \in 1..(day + 3) :
                Complete(k) /\ \A j \in 1..(k - 1) : ~Complete(j)
      D == Read(last)
  IN StreakEnd(D) - Cursor(D)

-----------------------------------------------------------------------------
NoRow == [state |-> NoState, log |-> <<>>]

Init ==
  /\ day = 0 /\ items = Items
  /\ \E row \in [Items -> OldRows \union {NoRow}] :
       /\ state = [i \in Items |-> row[i].state]
       /\ log = [i \in Items |-> row[i].log]
  /\ past = {}
  /\ userLock = Nobody
  /\ purging = Nobody /\ deleted = {}
  /\ pc = [s \in Submits |-> "idle"]
  /\ item = [s \in Submits |-> Nobody]
  /\ now = [s \in Submits |-> 0]
  /\ isNew = [s \in Submits |-> FALSE]

\* The submits that hold the row of an item's state, or are inserting it.
Holders(i) == {s \in Submits : pc[s] = "record" /\ item[s] = i}

\* A purge of the item has deleted one of its rows and may still roll back.
Deleted(i, row) == purging = i /\ row \in deleted

\* Mutant: the connection is kept with its transaction open.
EndKeepingLock(s) ==
  /\ pc' = [pc EXCEPT ![s] = "idle"]
  /\ item' = [item EXCEPT ![s] = Nobody]
  /\ now' = [now EXCEPT ![s] = 0]
  /\ isNew' = [isNew EXCEPT ![s] = FALSE]
  /\ UNCHANGED userLock

\* The transaction ends, and with it what it locked.
End(s) ==
  /\ pc' = [pc EXCEPT ![s] = "idle"]
  /\ item' = [item EXCEPT ![s] = Nobody]
  /\ now' = [now EXCEPT ![s] = 0]
  /\ isNew' = [isNew EXCEPT ![s] = FALSE]
  /\ userLock' = IF userLock = s THEN Nobody ELSE userLock

\* submit_answer begins: an item that was never answered needs the user's
\* lock, and one that is not due is refused (which leaves no trace).
Open(s, i) ==
  /\ pc[s] = "idle"
  /\ i \in items
  /\ state[i] = NoState \/ state[i].due <= day
  /\ pc' = [pc EXCEPT ![s] = IF state[i] = NoState THEN "lock" ELSE "grade"]
  /\ item' = [item EXCEPT ![s] = i]
  /\ now' = [now EXCEPT ![s] = day]
  /\ UNCHANGED <<day, tables, userLock, purging, deleted, isNew>>

\* Mutant: the allowance is not looked at again after the wait.
LockUserUncounted(s) ==
  LET st == state[item[s]] IN
  /\ pc[s] = "lock" /\ userLock = Nobody
  /\ IF st # NoState /\ st.due > now[s]
       THEN End(s)
       ELSE /\ userLock' = s
            /\ pc' = [pc EXCEPT ![s] = "grade"]
            /\ isNew' = [isNew EXCEPT ![s] = (st = NoState)]
            /\ UNCHANGED <<item, now>>
  /\ UNCHANGED <<day, tables, purging, deleted>>

\* _lock_user: once it is had, the state is read again, the daily allowance
\* is looked at for a new item, and an item that is not due any more refused.
LockUser(s) ==
  LET st == state[item[s]] IN
  /\ pc[s] = "lock" /\ userLock = Nobody
  /\ IF IF st = NoState THEN Allowance(now[s]) = 0 ELSE st.due > now[s]
       THEN End(s)
       ELSE /\ userLock' = s
            /\ pc' = [pc EXCEPT ![s] = "grade"]
            /\ isNew' = [isNew EXCEPT ![s] = (st = NoState)]
            /\ UNCHANGED <<item, now>>
  /\ UNCHANGED <<day, tables, purging, deleted>>

\* The answer is graded, which may take an LLM call; the time is read anew.
Grade(s) ==
  /\ pc[s] = "grade"
  /\ now' = [now EXCEPT ![s] = day]
  /\ pc' = [pc EXCEPT ![s] = "advance"]
  /\ UNCHANGED <<day, tables, userLock, purging, deleted, item, isNew>>

\* An invalid answer, or no grader: nothing is recorded.
Refuse(s) ==
  /\ pc[s] = "grade"
  /\ End(s)
  /\ UNCHANGED <<day, tables, purging, deleted>>

\* The state's row can be locked, or inserted: no other submit has it, no purge
\* has deleted it, and an insert needs the item's row as well.
StateFree(i) ==
  /\ Holders(i) = {}
  /\ ~Deleted(i, "state")
  /\ state[i] = NoState => ~Deleted(i, "item")

\* Mutant: whether the item is due is not asked again under the lock.
LockStateBlindly(s) ==
  LET i == item[s] IN
  /\ pc[s] = "advance" /\ StateFree(i)
  /\ IF i \notin items
       THEN End(s)
       ELSE /\ pc' = [pc EXCEPT ![s] = "record"]
            /\ UNCHANGED <<item, now, isNew, userLock>>
  /\ UNCHANGED <<day, tables, purging, deleted>>

\* _ensure_state and FOR UPDATE: the row is inserted or locked, and the item
\* must still be due.  An insert fails once the item is gone.
LockState(s) ==
  LET i == item[s] IN
  /\ pc[s] = "advance" /\ StateFree(i)
  /\ IF i \notin items \/ (state[i] # NoState /\ state[i].due > now[s])
       THEN End(s)
       ELSE /\ pc' = [pc EXCEPT ![s] = "record"]
            /\ UNCHANGED <<item, now, isNew, userLock>>
  /\ UNCHANGED <<day, tables, purging, deleted>>

\* The log's foreign keys share the rows of the user and of the item, so
\* they wait for a submit that holds the one and a purge of the other.
MayRecord(s) ==
  /\ pc[s] = "record"
  /\ userLock \in {s, Nobody}
  /\ ~Deleted(item[s], "item")

\* grade_mcq is all or nothing; grade_short_answer may give a share.
Marks(i) == IF i \in Choices THEN {0, 200} ELSE Credits
Grades == Credits \union {0, 200}

\* The schedule moves and the log grows in one commit, by the credit that
\* the answer was given.
Record(s) ==
  LET i == item[s]
      st == IF state[i] = NoState THEN FreshState(now[s]) ELSE state[i] IN
  /\ MayRecord(s)
  /\ \E p \in Marks(i) :
       /\ state' = [state EXCEPT ![i] = Advance(st, p, now[s], isNew[s])]
       /\ log' = [log EXCEPT ![i] = Append(@, [day |-> now[s], verdict |-> Verdict(p), credit |-> p])]
  /\ End(s)
  /\ UNCHANGED <<day, items, past, purging, deleted>>

\* The submits whose locks s waits for.
WaitsFor(s) ==
  CASE pc[s] = "advance" -> Holders(item[s])
    [] pc[s] = "record" -> {userLock} \ {s, Nobody}
    [] OTHER -> {}

\* Postgres ends one of two transactions that wait for each other: a purge
\* that has the item and needs its state, and a submit that has the state and
\* needs the item; or two submits of an item, one of which was new to it when
\* it began and holds the user's row.
Victim(s) ==
  /\ \/ pc[s] = "record" /\ Deleted(item[s], "item")
     \/ \E t \in WaitsFor(s) : s \in WaitsFor(t)
  /\ End(s)
  /\ UNCHANGED <<day, tables, purging, deleted>>

\* _purge_derived, for an item of the chunks that a sync replaces: the states
\* that it sees are deleted first, those of submits that are not over when they are.
StartPurge(i) ==
  /\ purging = Nobody /\ i \in items
  /\ state[i] = NoState \/ Holders(i) = {}
  /\ purging' = i
  /\ deleted' = IF state[i] = NoState THEN {} ELSE {"state"}
  /\ UNCHANGED <<day, tables, userLock, pc, item, now, isNew>>

\* Then the item, unless a submit has inserted a state, which refers to it.
DeleteItem ==
  /\ purging # Nobody /\ "item" \notin deleted
  /\ state[purging] = NoState => Holders(purging) = {}
  /\ deleted' = deleted \union {"item"}
  /\ UNCHANGED <<day, tables, userLock, purging, pc, item, now, isNew>>

\* Mutant: the purge is not committed.
PurgeUncommitted ==
  /\ "item" \in deleted /\ Holders(purging) = {}
  /\ items' = items \ {purging}
  /\ state' = [state EXCEPT ![purging] = NoState]
  /\ past' = past \union {log[purging][k].day : k \in DOMAIN log[purging]}
  /\ log' = [log EXCEPT ![purging] = <<>>]
  /\ UNCHANGED <<day, userLock, purging, deleted, pc, item, now, isNew>>

\* Mutant: the logs go with their item.
PurgeForgetting ==
  /\ "item" \in deleted /\ Holders(purging) = {}
  /\ items' = items \ {purging}
  /\ state' = [state EXCEPT ![purging] = NoState]
  /\ log' = [log EXCEPT ![purging] = <<>>]
  /\ purging' = Nobody /\ deleted' = {}
  /\ UNCHANGED <<day, past, userLock, pc, item, now, isNew>>

\* The cascade takes a state that was inserted meanwhile, and the sync commits.
\* The log stays, without its item.
Purge ==
  /\ "item" \in deleted /\ Holders(purging) = {}
  /\ items' = items \ {purging}
  /\ state' = [state EXCEPT ![purging] = NoState]
  /\ past' = past \union {log[purging][k].day : k \in DOMAIN log[purging]}
  /\ log' = [log EXCEPT ![purging] = <<>>]
  /\ purging' = Nobody /\ deleted' = {}
  /\ UNCHANGED <<day, userLock, pc, item, now, isNew>>

\* The sync fails, or is the one that a deadlock ends.
PurgeFails ==
  /\ purging # Nobody
  /\ purging' = Nobody /\ deleted' = {}
  /\ UNCHANGED <<day, tables, userLock, pc, item, now, isNew>>

Midnight ==
  /\ day < MaxDay
  /\ day' = day + 1
  /\ UNCHANGED <<tables, userLock, purging, deleted, pc, item, now, isNew>>

-----------------------------------------------------------------------------
Submit(s) == LockUser(s) \/ Grade(s) \/ Refuse(s) \/ LockState(s) \/ Record(s) \/ Victim(s)

Next ==
  \/ \E s \in Submits : Submit(s) \/ \E i \in Items : Open(s, i)
  \/ \E i \in Items : StartPurge(i)
  \/ DeleteItem \/ Purge \/ PurgeFails
  \/ Midnight

Spec == Init /\ [][Next]_vars

\* Graders answer or time out, row locks are given in turn, and the server
\* breaks deadlocks.
FairSpec ==
  /\ Spec
  /\ \A s \in Submits : SF_vars(Submit(s))
  /\ WF_vars(DeleteItem) /\ WF_vars(Purge)

-----------------------------------------------------------------------------
(* Properties *)

Answers == [day : 0..day, verdict : Verdicts, credit : -1..200]

\* Rows, locks and locals have their shapes.
TypeOK ==
  /\ day \in 0..MaxDay /\ items \subseteq Items
  /\ state \in [Items -> States]
  /\ log \in [Items -> Seq(Answers)]
  /\ past \subseteq 0..day
  /\ userLock \in Submits \union {Nobody}
  /\ purging \in items \union {Nobody}
  /\ deleted \subseteq {"state", "item"} /\ (purging = Nobody => deleted = {})
  /\ pc \in [Submits -> {"idle", "lock", "grade", "advance", "record"}]
  /\ item \in [Submits -> Items \union {Nobody}]
  /\ now \in [Submits -> 0..day]
  /\ isNew \in [Submits -> BOOLEAN]

\* No more new items are begun in a day than NEW_ITEMS_PER_DAY, however many
\* submits of a user run at once and however many of them span a midnight.
DailyCap ==
  \A d \in 0..day : Cardinality({i \in items : state[i].first = d}) <= NewItemsPerDay

\* A replayed or concurrent submit does not advance the schedule twice: an
\* item has at most one recorded answer for a day.
OneAnswerADay ==
  \A i \in Items : \A j, k \in DOMAIN log[i] : log[i][j].day = log[i][k].day => j = k

\* Whether a row of the log shows a lapse, to within the rounding of its credit.
ShowsLapse(answer) == answer.verdict # "correct" /\ answer.credit # AlmostPass

\* The two tables agree on an item begun since both record it: what the log shows
\* as not correct is what the schedule took for a lapse, and the answers since are
\* its repetitions.  Only a credit that is rounded up to PASS_CREDIT is a pass for
\* the schedule and none in the log.
ScheduleOfLog ==
  \A i \in items : state[i].first # -1 =>
    LET lapses == {k \in DOMAIN log[i] : ShowsLapse(log[i][k])} IN
    /\ state[i].lapses = Cardinality(lapses)
    /\ state[i].reps = Cardinality({k \in DOMAIN log[i] : \A j \in lapses : j < k})

\* The number shown is the length of the queue, as far as the page shows it.
CountOfQueue == QueueLength(day) = Smaller(QueueLimit, DueCount(day))

\* The streak is the number of days in a row with an answer, up to today or
\* yesterday, however long it is.
StreakIsRun ==
  LET end == StreakEnd(Answered) IN
  /\ \A d \in (end - Streak + 1)..end : d \in Answered
  /\ end - Streak \notin Answered

\* Concurrent submits add up to answers given one at a time: whatever they read
\* before they had their locks, each is recorded as if it had begun and ended at
\* its commit, and a purge takes an item's answers but not the days of them.
Journal == INSTANCE AnswerJournal
  WITH Cap <- NewItemsPerDay, LastDay <- MaxDay,
       Grades <- Grades, Passes <- AlmostPass..200,
       today <- day, kept <- items, journal <- log, studied <- Answered,
       begun <- [i \in Items |-> state[i].first], due <- [i \in Items |-> state[i].due]

ImplementsJournal == Journal!Spec

\* Every submit ends, recorded or refused: locks are not waited for in vain.
EverySubmitEnds == \A s \in Submits : (pc[s] # "idle") ~> (pc[s] = "idle")
=============================================================================
