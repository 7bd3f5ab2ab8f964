---------------------------- MODULE AnswerJournal ----------------------------
(***************************************************************************)
(* What the reviews of a user promise, without transactions and locks: a   *)
(* journal to which answers are added one at a time.                       *)
(*                                                                         *)
(* An answer is written under the day on which it was graded.  It begins   *)
(* its item, as long as the cap leaves room among the items begun that day *)
(* or later, or else the item must have come due.  A failed answer brings  *)
(* the item back the next day, any answer brings it back later.  An item   *)
(* may be torn out; that there was an answer on a day stays known.  Items  *)
(* of an older journal are due some day, but when they were begun is not   *)
(* known.                                                                  *)
(***************************************************************************)
EXTENDS Integers, Sequences, FiniteSets

CONSTANTS Items, Cap, LastDay,
          Grades, Passes   \* the grades there are, and those that are no failure

VARIABLES
  today,
  kept,     \* the items that are not torn out
  journal,  \* the answers of each item, in order
  begun,    \* the day of an item's first answer, or -1
  due,      \* the day from which it may be answered again, or -1 for a new item
  studied   \* the days with an answer

book == <<today, kept, journal, begun, due, studied>>

DaysOf(entries) == {entries[k].day : k \in DOMAIN entries}

Init ==
  /\ today = 0 /\ kept = Items
  /\ begun = [i \in Items |-> -1]
  /\ \A i \in Items :
       IF due[i] = -1 THEN journal[i] = <<>> ELSE \A d \in DaysOf(journal[i]) : d < due[i]
  /\ studied = UNION {DaysOf(journal[i]) : i \in Items}

Answerable(i, n) ==
  IF due[i] = -1 THEN Cardinality({j \in kept : begun[j] >= n}) < Cap ELSE due[i] <= n

Answer(i, n) ==
  /\ i \in kept /\ n <= today
  /\ Answerable(i, n)
  /\ due' = [due EXCEPT ![i] = due'[i]] /\ due'[i] > n
  /\ begun' = IF due[i] = -1 THEN [begun EXCEPT ![i] = n] ELSE begun
  /\ \E grade \in Grades, verdict \in {"correct", "partial", "incorrect"} :
       /\ journal' = [journal EXCEPT ![i] =
            Append(journal[i], [day |-> n, verdict |-> verdict, credit |-> grade])]
       /\ grade \notin Passes => due'[i] = n + 1
  /\ studied' = studied \union {n}
  /\ UNCHANGED <<today, kept>>

TearOut(i) ==
  /\ i \in kept
  /\ kept' = kept \ {i}
  /\ journal' = [journal EXCEPT ![i] = <<>>]
  /\ begun' = [begun EXCEPT ![i] = -1]
  /\ due' = [due EXCEPT ![i] = -1]
  /\ UNCHANGED <<today, studied>>

NextDay ==
  /\ today' = today + 1
  /\ UNCHANGED <<kept, journal, begun, due, studied>>

Next ==
  \/ \E i \in Items, n \in 0..LastDay : Answer(i, n)
  \/ \E i \in Items : TearOut(i)
  \/ NextDay

Spec == Init /\ [][Next]_book
=============================================================================
