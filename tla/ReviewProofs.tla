------------------------------ MODULE ReviewProofs ------------------------------
(***************************************************************************)
(* The invariants of Review, for every set of items and of concurrent      *)
(* submits, every cap and any number of days.                              *)
(***************************************************************************)
EXTENDS Review, SequenceTheorems, FiniteSetTheorems, WellFoundedInduction, TLAPS

\* The items that were begun on day n or later.
Begun(n) == {i \in items : state[i].first >= n}

\* A submit that begins an item holds the user's row, and with it a place
\* under the cap; one that records holds the row of an item that is due.
Granted(s) ==
  /\ pc[s] # "idle" => item[s] \in Items
  /\ pc[s] \in {"idle", "lock"} => ~isNew[s]
  /\ isNew[s] => userLock = s /\ Cardinality(Begun(now[s])) < NewItemsPerDay
  /\ pc[s] = "record" =>
       /\ item[s] \in items
       /\ state[item[s]] = NoState \/ state[item[s]].due <= now[s]
       /\ Holders(item[s]) = {s}

\* An item is due after its last answer, and one that is gone has none.
Dated ==
  /\ \A i \in Items : \A k \in DOMAIN log[i] : log[i][k].day < state[i].due
  /\ \A i \in items : state[i] = NoState \/ state[i].due >= 0

\* The cap of every day, also of those to come.
Capped ==
  \A d \in 0..MaxDay : Cardinality({i \in items : state[i].first = d}) <= NewItemsPerDay

\* The log's row of an answer, the lapses of a log, and what came after the last.
Entry(n, p) == [day |-> n, verdict |-> Verdict(p), credit |-> p]
Wrong(l) == {k \in DOMAIN l : ShowsLapse(l[k])}
Since(l) == {k \in DOMAIN l : \A j \in Wrong(l) : j < k}

\* An item without a state was never answered, and a submit that goes on knows
\* whether its item is one.
Linked ==
  /\ \A i \in items : state[i] = NoState => log[i] = <<>>
  /\ \A s \in Submits :
       pc[s] \in {"grade", "advance", "record"} /\ item[s] \in items =>
         (isNew[s] <=> state[item[s]] = NoState)

\* The inductive invariant, with Linked.
IInv ==
  /\ TypeOK
  /\ \A s \in Submits : Granted(s)
  /\ Dated /\ OneAnswerADay /\ Capped /\ ScheduleOfLog

-----------------------------------------------------------------------------
(* The operators of the model *)

\* A credit is taken for a lapse by the schedule exactly when the log shows
\* something else than a correct answer, or one that is rounded up to a pass.
LEMMA CreditFacts ==
  ASSUME NEW p \in 0..200
  PROVE  /\ Quality(p) \in 0..5
         /\ Quality(p) < 3 <=> p < AlmostPass
         /\ Verdict(p) \in Verdicts
         /\ \A n : ShowsLapse(Entry(n, p)) <=> p < AlmostPass
<1>1. Quality(p) \in 0..5 /\ (Quality(p) < 3 <=> p < AlmostPass)
  BY DEF Quality, AlmostPass
<1>2. Verdict(p) \in Verdicts /\ (Verdict(p) = "correct" <=> p > AlmostPass)
  BY DEF Verdict, Verdicts, AlmostPass
<1>3. p \in Int /\ AlmostPass \in Int
  BY DEF AlmostPass
<1>4. \A n : Entry(n, p).verdict = Verdict(p) /\ Entry(n, p).credit = p
  BY DEF Entry
<1>5. QED
  BY <1>1, <1>2, <1>3, <1>4 DEF ShowsLapse

\* The log's row of an answer is one.
LEMMA EntryFacts ==
  ASSUME NEW n \in 0..day, NEW p \in 0..200
  PROVE  Entry(n, p) \in Answers /\ Entry(n, p).day = n
<1>1. p \in -1..200 /\ Verdict(p) \in Verdicts
  BY CreditFacts
<1>2. QED
  BY <1>1 DEF Entry, Answers

LEMMA EaseFacts ==
  ASSUME NEW q \in 0..5, NEW e \in Nat
  PROVE  NextEase(q, e) \in Nat
<1>1. q \in {0, 1, 2, 3, 4, 5}
  OBVIOUS
<1>2. (5 - q) * (80 + (5 - q) * 20) \in Int
  BY <1>1
<1>3. QED
  BY <1>2 DEF NextEase, Larger

\* An interval is of a day at least.
LEMMA IntervalFacts ==
  ASSUME NEW q \in 0..5, NEW s \in States
  PROVE  Interval(q, s) \in Nat /\ Interval(q, s) >= 1
<1>1. s.interval \in Nat /\ s.ease \in Nat
  BY DEF States
<1>2. \A a, b \in Nat : a * b \in Nat
  OBVIOUS
<1>3. s.interval * NextEase(q, s.ease) \in Nat
  BY <1>1, <1>2, EaseFacts
<1>4. \A n \in Nat : Rounded(n) \in Nat
  BY DEF Rounded
<1>5. Rounded(s.interval * NextEase(q, s.ease)) \in Nat
  BY <1>3, <1>4
<1>6. QED
  BY <1>5 DEF Interval, Larger

LEMMA StateFacts ==
  /\ NoState \in States
  /\ NoState.due = -1 /\ NoState.first = -1 /\ NoState.reps = 0 /\ NoState.lapses = 0
  /\ \A n \in Nat :
       /\ FreshState(n) \in States /\ FreshState(n).first = -1
       /\ FreshState(n).reps = 0 /\ FreshState(n).lapses = 0
<1>1. -1 \in Int /\ -1 \in -1..MaxDay /\ 0 \in Nat /\ 2500 \in Nat
  BY BoundsAssumption
<1>2. NoState \in States
  BY <1>1 DEF NoState, States
<1>3. ASSUME NEW n \in Nat
      PROVE  FreshState(n) \in States
  <2>1. n \in Int
    OBVIOUS
  <2>2. QED
    BY <1>1, <2>1 DEF FreshState, States
<1>4. QED
  BY <1>2, <1>3 DEF NoState, FreshState

\* An answered item is due on a later day; it is begun by its first answer.
LEMMA AdvanceFacts ==
  ASSUME NEW s \in States, NEW p \in 0..200, NEW n \in 0..MaxDay,
         NEW new \in BOOLEAN
  PROVE  /\ Advance(s, p, n, new) \in States
         /\ Advance(s, p, n, new).due > n
         /\ Advance(s, p, n, new).first = IF new /\ s.first = -1 THEN n ELSE s.first
         /\ ~(p < AlmostPass) => /\ Advance(s, p, n, new).reps = s.reps + 1
                                 /\ Advance(s, p, n, new).lapses = s.lapses
         /\ p < AlmostPass => /\ Advance(s, p, n, new).reps = 0
                              /\ Advance(s, p, n, new).lapses = s.lapses + 1
<1> DEFINE q == Quality(p)
           d == n + Interval(q, s)
           f == IF new /\ s.first = -1 THEN n ELSE s.first
           r == IF q < 3 THEN 0 ELSE s.reps + 1
           e == NextEase(q, s.ease)
           l == IF q < 3 THEN s.lapses + 1 ELSE s.lapses
<1>1. Advance(s, p, n, new) =
        [due |-> d, first |-> f, interval |-> Interval(q, s), reps |-> r, ease |-> e, lapses |-> l]
  BY DEF Advance
<1>2. s.first \in -1..MaxDay /\ s.reps \in Nat /\ s.ease \in Nat /\ s.lapses \in Nat
  BY DEF States
<1>3. q \in 0..5 /\ (q < 3 <=> p < AlmostPass)
  BY CreditFacts
<1> HIDE DEF q
<1>4. Interval(q, s) \in Nat /\ Interval(q, s) >= 1
  BY <1>3, IntervalFacts
<1>5. e \in Nat
  BY <1>2, <1>3, EaseFacts
<1>6. d \in Int /\ d > n /\ f \in -1..MaxDay /\ r \in Nat /\ l \in Nat
  BY <1>2, <1>4, BoundsAssumption
<1>7. /\ ~(p < AlmostPass) => r = s.reps + 1 /\ l = s.lapses
      /\ p < AlmostPass => r = 0 /\ l = s.lapses + 1
  BY <1>2, <1>3
<1>8. f = IF new /\ s.first = -1 THEN n ELSE s.first
  OBVIOUS
<1> HIDE DEF d, f, r, e, l
<1>9. Advance(s, p, n, new) \in States
  BY <1>1, <1>4, <1>5, <1>6 DEF States
<1>10. /\ Advance(s, p, n, new).due = d /\ Advance(s, p, n, new).first = f
       /\ Advance(s, p, n, new).reps = r /\ Advance(s, p, n, new).lapses = l
  BY <1>1
<1>11. QED
  BY <1>6, <1>7, <1>8, <1>9, <1>10

\* What an answer adds to the counts of a log.
LEMMA AppendCounts ==
  ASSUME NEW S, NEW l \in Seq(S), NEW r \in S
  PROVE  /\ Append(l, r) \in Seq(S)
         /\ DOMAIN Append(l, r) = DOMAIN l \union {Len(l) + 1} /\ Len(l) + 1 \notin DOMAIN l
         /\ \A k \in DOMAIN l : Append(l, r)[k] = l[k]
         /\ Append(l, r)[Len(l) + 1] = r
         /\ Cardinality(Wrong(l)) \in Nat /\ Cardinality(Since(l)) \in Nat
         /\ ~ShowsLapse(r) =>
              /\ Cardinality(Wrong(Append(l, r))) = Cardinality(Wrong(l))
              /\ Cardinality(Since(Append(l, r))) = Cardinality(Since(l)) + 1
         /\ ShowsLapse(r) =>
              /\ Cardinality(Wrong(Append(l, r))) = Cardinality(Wrong(l)) + 1
              /\ Cardinality(Since(Append(l, r))) = 0
<1> DEFINE m == Append(l, r)
           n == Len(l) + 1
<1>1. /\ Len(l) \in Nat /\ DOMAIN l = 1..Len(l)
      /\ m \in Seq(S) /\ Len(m) = n /\ DOMAIN m = 1..n
      /\ \A k \in 1..Len(l) : m[k] = l[k]
      /\ m[n] = r
  BY LenProperties, AppendProperties
<1> HIDE DEF m
<1>2. DOMAIN m = DOMAIN l \union {n} /\ n \notin DOMAIN l /\ \A k \in DOMAIN l : k < n /\ k \in Nat
  BY <1>1
<1>3. IsFiniteSet(DOMAIN l)
  <2>1. 1 \in Int /\ Len(l) \in Int
    BY <1>1
  <2>2. IsFiniteSet(1..Len(l))
    BY <2>1, FS_Interval, Zenon
  <2>3. QED
    BY <1>1, <2>2
<1>4. IsFiniteSet(Wrong(l)) /\ IsFiniteSet(Since(l))
  <2>1. Wrong(l) \subseteq DOMAIN l /\ Since(l) \subseteq DOMAIN l
    BY DEF Wrong, Since
  <2>2. QED
    BY <1>3, <2>1, FS_Subset
<1>5. Cardinality(Wrong(l)) \in Nat /\ Cardinality(Since(l)) \in Nat
  BY <1>4, FS_CardinalityType
<1>6. n \notin Wrong(l) /\ n \notin Since(l)
  BY <1>2 DEF Wrong, Since
<1>7. ASSUME ~ShowsLapse(r)
      PROVE  /\ Cardinality(Wrong(m)) = Cardinality(Wrong(l))
             /\ Cardinality(Since(m)) = Cardinality(Since(l)) + 1
  <2>1. Wrong(m) = Wrong(l)
    BY <1>1, <1>2, <1>7 DEF Wrong
  <2>2. Since(m) = Since(l) \union {n}
    <3>1. \A j \in Wrong(l) : j < n
      BY <1>2 DEF Wrong
    <3>2. QED
      BY <1>2, <2>1, <3>1 DEF Since
  <2>3. QED
    BY <1>4, <1>6, <2>1, <2>2, FS_AddElement
<1>8. ASSUME ShowsLapse(r)
      PROVE  /\ Cardinality(Wrong(m)) = Cardinality(Wrong(l)) + 1
             /\ Cardinality(Since(m)) = 0
  <2>1. Wrong(m) = Wrong(l) \union {n}
    BY <1>1, <1>2, <1>8 DEF Wrong
  <2>2. Since(m) = {}
    <3>1. n \in Wrong(m) /\ \A k \in DOMAIN m : ~(n < k)
      BY <1>1, <2>1
    <3>2. QED
      BY <3>1 DEF Since
  <2>3. QED
    BY <1>4, <1>6, <2>1, <2>2, FS_AddElement, FS_EmptySet
<1>9. QED
  BY <1>1, <1>2, <1>5, <1>7, <1>8 DEF m

-----------------------------------------------------------------------------
(* What a step does *)

\* The locals of the submits other than s.
Others(s) ==
  \A t \in Submits \ {s} : /\ pc'[t] = pc[t] /\ item'[t] = item[t]
                           /\ now'[t] = now[t] /\ isNew'[t] = isNew[t]

LocalsTyped ==
  /\ pc' \in [Submits -> {"idle", "lock", "grade", "advance", "record"}]
  /\ item' \in [Submits -> Items \union {Nobody}]
  /\ now' \in [Submits -> 0..day]
  /\ isNew' \in [Submits -> BOOLEAN]

\* A submit that ends leaves nothing.
LEMMA EndFacts ==
  ASSUME TypeOK, NEW s \in Submits, End(s)
  PROVE  /\ LocalsTyped /\ Others(s)
         /\ pc'[s] = "idle" /\ ~isNew'[s]
         /\ userLock' \in {userLock, Nobody} /\ (userLock # s => userLock' = userLock)
         /\ userLock' # s
<1>1. 0 \in 0..day
  BY BoundsAssumption DEF TypeOK
<1>2. LocalsTyped
  BY <1>1 DEF End, LocalsTyped, TypeOK
<1>3. Others(s) /\ pc'[s] = "idle" /\ ~isNew'[s]
  BY DEF End, Others, TypeOK
<1>4. QED
  BY <1>2, <1>3, NobodyAssumption DEF End

LEMMA OpenFacts ==
  ASSUME TypeOK, NEW s \in Submits, NEW i \in Items, Open(s, i)
  PROVE  /\ LocalsTyped /\ Others(s) /\ pc[s] = "idle"
         /\ pc'[s] \in {"lock", "grade"} /\ item'[s] = i /\ isNew'[s] = isNew[s]
<1>1. day \in 0..day
  BY BoundsAssumption DEF TypeOK
<1>2. QED
  BY <1>1 DEF Open, LocalsTyped, Others, TypeOK

\* The lock of the user's row is had, or the submit is over.
LEMMA LockUserFacts ==
  ASSUME TypeOK, NEW s \in Submits, LockUser(s)
  PROVE  /\ pc[s] = "lock" /\ userLock = Nobody
         /\ \/ End(s)
            \/ /\ LocalsTyped /\ Others(s) /\ userLock' = s
               /\ pc'[s] = "grade" /\ item'[s] = item[s] /\ now'[s] = now[s]
               /\ isNew'[s] => Allowance(now[s]) # 0
BY DEF LockUser, LocalsTyped, Others, TypeOK

LEMMA GradeFacts ==
  ASSUME TypeOK, NEW s \in Submits, Grade(s)
  PROVE  /\ LocalsTyped /\ Others(s) /\ pc[s] = "grade"
         /\ pc'[s] = "advance" /\ item'[s] = item[s] /\ now'[s] = day /\ isNew'[s] = isNew[s]
<1>1. day \in 0..day
  BY BoundsAssumption DEF TypeOK
<1>2. QED
  BY <1>1 DEF Grade, LocalsTyped, Others, TypeOK

\* The row of the item's state is had while the item is due, or the submit is over.
LEMMA LockStateFacts ==
  ASSUME TypeOK, NEW s \in Submits, LockState(s)
  PROVE  /\ pc[s] = "advance"
         /\ \/ End(s)
            \/ /\ LocalsTyped /\ Others(s) /\ UNCHANGED <<item, now, isNew, userLock>>
               /\ pc'[s] = "record" /\ Holders(item[s]) = {} /\ item[s] \in items
               /\ state[item[s]] = NoState \/ state[item[s]].due <= now[s]
<1>1. CASE item[s] \notin items \/ (state[item[s]] # NoState /\ state[item[s]].due > now[s])
  BY <1>1 DEF LockState
<1>2. CASE ~(item[s] \notin items \/ (state[item[s]] # NoState /\ state[item[s]].due > now[s]))
  <2>1. item[s] \in items /\ state[item[s]] \in States
    BY <1>2 DEF TypeOK
  <2>2. state[item[s]].due \in Int /\ now[s] \in Int
    BY <2>1 DEF States, TypeOK
  <2>3. state[item[s]] = NoState \/ state[item[s]].due <= now[s]
    BY <1>2, <2>1, <2>2
  <2>4. /\ pc[s] = "advance" /\ Holders(item[s]) = {}
        /\ pc' = [pc EXCEPT ![s] = "record"] /\ UNCHANGED <<item, now, isNew, userLock>>
    BY <1>2 DEF LockState, StateFree
  <2>5. LocalsTyped /\ Others(s) /\ pc'[s] = "record"
    BY <2>4 DEF LocalsTyped, Others, TypeOK
  <2>6. QED
    BY <2>1, <2>3, <2>4, <2>5
<1>3. QED
  BY <1>1, <1>2

\* An answer moves the schedule of its item on and adds to its log.
LEMMA RecordFacts ==
  ASSUME IInv, NEW s \in Submits, Record(s)
  PROVE  \E i \in items, p \in 0..200, st \in States :
           /\ i = item[s] /\ End(s) /\ pc[s] = "record" /\ p \in Grades
           /\ userLock \in {s, Nobody}
           /\ st.lapses = state[i].lapses /\ st.reps = state[i].reps
           /\ st.first = state[i].first
           /\ state' = [state EXCEPT ![i] = Advance(st, p, now[s], isNew[s])]
           /\ log' = [log EXCEPT ![i] = Append(log[i], Entry(now[s], p))]
           /\ UNCHANGED <<day, items, past, purging, deleted>>
<1> USE DEF IInv
<1>1. pc[s] = "record" /\ userLock \in {s, Nobody}
  BY DEF Record, MayRecord
<1>2. PICK i \in items : i = item[s]
  BY <1>1 DEF Granted
<1>3. PICK p \in 0..200 :
        /\ p \in Grades
        /\ state' = [state EXCEPT ![i] = Advance(IF state[i] = NoState THEN FreshState(now[s])
                                                   ELSE state[i], p, now[s], isNew[s])]
        /\ log' = [log EXCEPT ![i] = Append(log[i], Entry(now[s], p))]
  <2>1. Marks(i) \subseteq Grades /\ Grades \subseteq 0..200
    BY CreditsAssumption DEF Marks, Grades
  <2>2. QED
    BY <1>2, <2>1 DEF Record, Entry
<1>4. PICK st \in States : /\ st = IF state[i] = NoState THEN FreshState(now[s]) ELSE state[i]
                           /\ st.lapses = state[i].lapses /\ st.reps = state[i].reps
                           /\ st.first = state[i].first
  <2>1. state[i] \in States /\ now[s] \in Nat
    BY <1>2 DEF TypeOK
  <2>2. QED
    BY <2>1, StateFacts
<1>5. End(s) /\ UNCHANGED <<day, items, past, purging, deleted>>
  BY DEF Record
<1>6. QED
  BY <1>1, <1>2, <1>3, <1>4, <1>5

-----------------------------------------------------------------------------
(* Submits and the locks *)

LEMMA Finite ==
  ASSUME TypeOK, NEW I, I \subseteq items
  PROVE  IsFiniteSet(I) /\ Cardinality(I) \in Nat
<1>1. IsFiniteSet(Items) /\ I \in SUBSET Items
  BY BoundsAssumption DEF TypeOK
<1>2. IsFiniteSet(I)
  BY <1>1, FS_Subset
<1>3. QED
  BY <1>2, FS_CardinalityType

LEMMA Fewer ==
  ASSUME TypeOK, NEW I, NEW J, I \subseteq J, J \subseteq items
  PROVE  Cardinality(I) <= Cardinality(J)
<1>1. IsFiniteSet(J) /\ I \in SUBSET J
  BY Finite
<1>2. QED
  BY <1>1, FS_Subset

\* A submit whose locals and rows are left alone keeps its grant.
LEMMA GrantedStays ==
  ASSUME TypeOK, NEW t \in Submits, Granted(t),
         pc'[t] = pc[t] /\ item'[t] = item[t] /\ now'[t] = now[t] /\ isNew'[t] = isNew[t],
         isNew[t] => userLock' = t,
         isNew[t] => \A i \in items' : i \in items /\ (state'[i].first = state[i].first
                                                         \/ state'[i].first = -1),
         pc[t] = "record" => /\ item[t] \in items' /\ state'[item[t]] = state[item[t]]
                             /\ Holders(item[t])' = {t}
  PROVE  Granted(t)'
<1>1. now[t] \in Nat /\ now[t] \in Int
  BY BoundsAssumption DEF TypeOK
<1>2. ASSUME isNew[t]
      PROVE  Cardinality(Begun(now[t]))' < NewItemsPerDay
  <2>1. {i \in items' : state'[i].first >= now'[t]} \subseteq Begun(now[t])
    BY <1>1, <1>2 DEF Begun
  <2>2. Begun(now[t]) \subseteq items
    BY DEF Begun
  <2>3. PICK I : I = {i \in items' : state'[i].first >= now'[t]}
    OBVIOUS
  <2>4. Cardinality(I) <= Cardinality(Begun(now[t]))
    BY <2>1, <2>2, <2>3, Fewer
  <2>5. Cardinality(I) \in Nat /\ Cardinality(Begun(now[t])) \in Nat
    BY <2>1, <2>2, <2>3, Finite
  <2>6. Cardinality(I) < NewItemsPerDay
    BY <1>2, <2>4, <2>5, BoundsAssumption DEF Granted
  <2>7. QED
    BY <2>3, <2>6 DEF Begun
<1>3. QED
  BY <1>2 DEF Granted

LEMMA HoldersStay ==
  ASSUME NEW s \in Submits, Others(s), NEW i, NEW t \in Submits \ {s}, Holders(i) = {t},
         pc'[s] = "record" => Holders(item[s]) = {} /\ item'[s] = item[s]
  PROVE  Holders(i)' = {t}
<1>1. pc[t] = "record" /\ item[t] = i
  BY DEF Holders
<1>2. t \in Holders(i)'
  BY <1>1 DEF Holders, Others
<1>3. \A u \in Submits \ {s} : u \in Holders(i)' => u = t
  BY DEF Holders, Others
<1>4. s \notin Holders(i)'
  BY <1>1 DEF Holders
<1>5. Holders(i)' \subseteq Submits
  BY DEF Holders
<1>6. QED
  BY <1>2, <1>3, <1>4, <1>5

\* What is left alone by every step that changes no table.
LEMMA TablesStay ==
  ASSUME IInv, UNCHANGED tables
  PROVE  Dated' /\ OneAnswerADay' /\ Capped' /\ ScheduleOfLog'
BY DEF IInv, tables, Dated, OneAnswerADay, Capped, ScheduleOfLog

\* The other submits do not notice a step of s that writes no table.
LEMMA OthersGranted ==
  ASSUME IInv, NEW s \in Submits, Others(s), UNCHANGED tables,
         userLock \in Submits \ {s} => userLock' = userLock,
         pc'[s] = "record" => Holders(item[s]) = {} /\ item'[s] = item[s]
  PROVE  \A t \in Submits \ {s} : Granted(t)'
<1> USE DEF IInv
<1> TAKE t \in Submits \ {s}
<1>1. Granted(t) /\ TypeOK
  OBVIOUS
<1>2. pc[t] = "record" => Holders(item[t])' = {t}
  <2>1. PICK i : i = item[t] /\ i = item'[t]
    BY DEF Others
  <2>2. pc[t] = "record" => Holders(i)' = {t}
    BY <1>1, <2>1, HoldersStay DEF Granted
  <2>3. Holders(i)' = Holders(item[t])'
    BY <2>1 DEF Holders
  <2>4. QED
    BY <2>2, <2>3
<1>3. isNew[t] => userLock' = t
  BY <1>1 DEF Granted
<1>4. QED
  BY <1>1, <1>2, <1>3, GrantedStays DEF Others, tables, Granted

LEMMA SubmitStep ==
  ASSUME IInv, NEW s \in Submits, UNCHANGED <<day, tables, purging, deleted>>,
         \/ LockUser(s) \/ Grade(s) \/ Refuse(s) \/ LockState(s) \/ Victim(s)
         \/ \E i \in Items : Open(s, i)
  PROVE  IInv'
<1> USE DEF IInv
<1>1. Dated' /\ OneAnswerADay' /\ Capped' /\ ScheduleOfLog'
  BY TablesStay DEF tables
<1>2. ASSUME LocalsTyped, Others(s), Granted(s)', userLock' \in Submits \union {Nobody},
             userLock \in Submits \ {s} => userLock' = userLock,
             pc'[s] = "record" => Holders(item[s]) = {} /\ item'[s] = item[s]
      PROVE  IInv'
  <2>1. TypeOK'
    BY <1>2 DEF TypeOK, LocalsTyped, tables, Answers
  <2>2. \A t \in Submits : Granted(t)'
    BY <1>2, OthersGranted
  <2>3. QED
    BY <1>1, <2>1, <2>2
<1>3. CASE End(s)
  <2>1. Granted(s)'
    BY <1>3, EndFacts DEF Granted
  <2>2. userLock' \in Submits \union {Nobody}
    BY <1>3, EndFacts DEF TypeOK
  <2>3. QED
    BY <1>2, <1>3, <2>1, <2>2, EndFacts
<1>4. ASSUME NEW i \in Items, Open(s, i)
      PROVE  IInv'
  <2>1. /\ LocalsTyped /\ Others(s) /\ pc[s] = "idle"
        /\ pc'[s] \in {"lock", "grade"} /\ item'[s] = i /\ isNew'[s] = isNew[s]
    BY <1>4, OpenFacts
  <2>2. ~isNew'[s]
    BY <2>1 DEF Granted
  <2>3. Granted(s)'
    BY <2>1, <2>2 DEF Granted
  <2>4. userLock' = userLock
    BY <1>4 DEF Open
  <2>5. QED
    BY <1>2, <2>1, <2>3, <2>4 DEF TypeOK
<1>5. CASE LockUser(s) /\ ~End(s)
  <2>1. /\ pc[s] = "lock" /\ userLock = Nobody
        /\ LocalsTyped /\ Others(s) /\ userLock' = s
        /\ pc'[s] = "grade" /\ item'[s] = item[s] /\ now'[s] = now[s]
        /\ isNew'[s] => Allowance(now[s]) # 0
    BY <1>5, LockUserFacts
  <2>2. ASSUME isNew'[s]
        PROVE  Cardinality(Begun(now[s]))' < NewItemsPerDay
    <3>1. Cardinality(Begun(now[s])) < NewItemsPerDay
      <4>1. Begun(now[s]) \subseteq items
        BY DEF Begun
      <4>2. Cardinality(Begun(now[s])) \in Nat
        BY <4>1, Finite
      <4>3. QED
        BY <2>1, <2>2, <4>2, BoundsAssumption DEF Allowance, Begun, Larger
    <3>2. Begun(now[s])' = Begun(now[s])
      BY <2>1 DEF Begun, tables
    <3>3. QED
      BY <3>1, <3>2
  <2>3. item[s] \in Items
    BY <2>1 DEF Granted
  <2>4. Granted(s)'
    BY <2>1, <2>2, <2>3 DEF Granted
  <2>5. QED
    BY <1>2, <2>1, <2>4, NobodyAssumption
<1>6. CASE Grade(s)
  <2>1. /\ LocalsTyped /\ Others(s) /\ pc[s] = "grade"
        /\ pc'[s] = "advance" /\ item'[s] = item[s] /\ now'[s] = day /\ isNew'[s] = isNew[s]
    BY <1>6, GradeFacts
  <2>2. userLock' = userLock
    BY <1>6 DEF Grade
  <2>3. ASSUME isNew[s]
        PROVE  Cardinality(Begun(now[s]))' < NewItemsPerDay
    <3>1. Cardinality(Begun(now[s])) < NewItemsPerDay
      BY <2>3 DEF Granted
    <3>2. PICK I : I = {i \in items : state[i].first >= day}
      OBVIOUS
    <3>3. I \subseteq Begun(now[s])
      <4>1. now[s] \in Int /\ day \in Int /\ now[s] <= day
        BY BoundsAssumption DEF TypeOK
      <4>2. \A i \in items : state[i].first \in Int
        BY BoundsAssumption DEF TypeOK, States
      <4>3. QED
        BY <3>2, <4>1, <4>2 DEF Begun
    <3>4. Begun(now[s]) \subseteq items
      BY DEF Begun
    <3>5. Cardinality(I) <= Cardinality(Begun(now[s]))
      BY <3>3, <3>4, Fewer
    <3>6. Cardinality(I) \in Nat /\ Cardinality(Begun(now[s])) \in Nat
      BY <3>3, <3>4, Finite
    <3>7. Begun(now[s])' = I
      BY <2>1, <3>2 DEF Begun, tables
    <3>8. QED
      BY <3>1, <3>5, <3>6, <3>7, BoundsAssumption
  <2>4. Granted(s)'
    BY <2>1, <2>2, <2>3 DEF Granted
  <2>5. QED
    BY <1>2, <2>1, <2>2, <2>4 DEF TypeOK
<1>7. CASE LockState(s) /\ ~End(s)
  <2>1. /\ pc[s] = "advance"
        /\ LocalsTyped /\ Others(s) /\ UNCHANGED <<item, now, isNew, userLock>>
        /\ pc'[s] = "record" /\ Holders(item[s]) = {} /\ item[s] \in items
        /\ state[item[s]] = NoState \/ state[item[s]].due <= now[s]
    BY <1>7, LockStateFacts
  <2>2. Holders(item[s])' = {s}
    <3>1. s \in Holders(item[s])'
      BY <2>1 DEF Holders
    <3>2. \A u \in Submits \ {s} : u \notin Holders(item[s])'
      BY <2>1 DEF Holders, Others
    <3>3. Holders(item[s])' \subseteq Submits
      BY DEF Holders
    <3>4. QED
      BY <3>1, <3>2, <3>3
  <2>3. isNew[s] => Begun(now[s])' = Begun(now[s])
    BY <2>1 DEF Begun, tables
  <2>4. Granted(s)'
    BY <2>1, <2>2, <2>3 DEF Granted, tables
  <2>5. QED
    BY <1>2, <2>1, <2>4 DEF TypeOK
<1>8. QED
  BY <1>3, <1>4, <1>5, <1>6, <1>7 DEF Refuse, Victim

LEMMA RecordStep ==
  ASSUME IInv, Linked, NEW s \in Submits, Record(s)
  PROVE  IInv'
<1> USE DEF IInv
<1>1. PICK i \in items, p \in 0..200, st \in States :
        /\ i = item[s] /\ End(s) /\ pc[s] = "record" /\ p \in Grades
        /\ userLock \in {s, Nobody}
        /\ st.lapses = state[i].lapses /\ st.reps = state[i].reps
        /\ st.first = state[i].first
        /\ state' = [state EXCEPT ![i] = Advance(st, p, now[s], isNew[s])]
        /\ log' = [log EXCEPT ![i] = Append(log[i], Entry(now[s], p))]
        /\ UNCHANGED <<day, items, past, purging, deleted>>
  BY RecordFacts
<1> DEFINE n == now[s]
           new == isNew[s]
           after == Advance(st, p, n, new)
           r == Entry(n, p)
<1>2. /\ n \in 0..day /\ n \in 0..MaxDay /\ n \in Nat /\ new \in BOOLEAN /\ i \in Items
      /\ log[i] \in Seq(Answers) /\ state[i] \in States
  BY BoundsAssumption DEF TypeOK
<1>3. /\ after \in States /\ after.due > n
      /\ after.first = IF new /\ st.first = -1 THEN n ELSE st.first
      /\ ~(p < AlmostPass) => after.reps = st.reps + 1 /\ after.lapses = st.lapses
      /\ p < AlmostPass => after.reps = 0 /\ after.lapses = st.lapses + 1
  BY <1>2, AdvanceFacts
<1>4. r \in Answers /\ r.day = n /\ (ShowsLapse(r) <=> p < AlmostPass)
  <2>1. r \in Answers /\ r.day = n
    BY <1>2, EntryFacts
  <2>2. QED
    BY <2>1, CreditFacts
<1> HIDE DEF after, r
<1>5. /\ state' = [state EXCEPT ![i] = after] /\ log' = [log EXCEPT ![i] = Append(log[i], r)]
      /\ state'[i] = after /\ \A j \in Items \ {i} : state'[j] = state[j] /\ log'[j] = log[j]
      /\ log'[i] = Append(log[i], r)
  BY <1>1, <1>2 DEF TypeOK, after, r
<1>6. /\ LocalsTyped /\ Others(s) /\ pc'[s] = "idle" /\ ~isNew'[s]
      /\ userLock' \in {userLock, Nobody} /\ (userLock # s => userLock' = userLock)
  BY <1>1, EndFacts
<1>7. /\ DOMAIN Append(log[i], r) = DOMAIN log[i] \union {Len(log[i]) + 1}
      /\ \A k \in DOMAIN log[i] : Append(log[i], r)[k] = log[i][k]
      /\ Append(log[i], r)[Len(log[i]) + 1] = r
      /\ Append(log[i], r) \in Seq(Answers)
  BY <1>2, <1>4, AppendCounts
<1>8. \A k \in DOMAIN log[i] : log[i][k].day < n /\ log[i][k].day \in Int
  <2> TAKE k \in DOMAIN log[i]
  <2>1. log[i][k] \in Answers
    BY <1>2
  <2>2. log[i][k].day \in Int /\ log[i][k].day >= 0 /\ log[i][k].day < state[i].due
    BY <1>2, <2>1 DEF Answers, Dated
  <2>3. state[i].due <= n
    BY <1>1, <2>2, StateFacts DEF Granted
  <2>4. state[i].due \in Int
    BY <1>2 DEF States
  <2>5. QED
    BY <1>2, <2>2, <2>3, <2>4
<1>9. TypeOK'
  <2>1. state' \in [Items -> States] /\ log' \in [Items -> Seq(Answers)]
    BY <1>3, <1>5, <1>7 DEF TypeOK
  <2>2. QED
    BY <1>1, <1>6, <2>1 DEF TypeOK, LocalsTyped, Answers
<1>10. ASSUME NEW t \in Submits
       PROVE  Granted(t)'
  <2>1. CASE t = s
    BY <1>6, <2>1 DEF Granted
  <2>2. CASE t # s
    <3>1. ~isNew[t]
      BY <1>1, <2>2, NobodyAssumption DEF Granted
    <3>2. Granted(t) /\ Granted(s)
      OBVIOUS
    <3>3. pc[t] = "record" => item[t] # i
      BY <1>1, <2>2, <3>2 DEF Granted, Holders
    <3>4. PICK j : j = item[t] /\ j = item'[t]
      BY <1>6, <2>2 DEF Others
    <3>5. pc[t] = "record" => Holders(j)' = {t}
      BY <1>6, <2>2, <3>2, <3>4, HoldersStay DEF Granted
    <3>6. Holders(j)' = Holders(item[t])'
      BY <3>4 DEF Holders
    <3>7. pc[t] = "record" => /\ item[t] \in items' /\ state'[item[t]] = state[item[t]]
                              /\ Holders(item[t])' = {t}
      BY <1>1, <1>5, <3>2, <3>3, <3>5, <3>6 DEF Granted, TypeOK
    <3>8. QED
      BY <1>6, <2>2, <3>1, <3>2, <3>7, GrantedStays DEF Others
  <2>3. QED
    BY <2>1, <2>2
<1>11. Dated'
  <2>1. ASSUME NEW k \in DOMAIN log'[i]
        PROVE  log'[i][k].day < state'[i].due
    <3>1. after.due \in Int
      BY <1>3 DEF States
    <3>2. QED
      BY <1>2, <1>3, <1>4, <1>5, <1>7, <1>8, <2>1, <3>1
  <2>2. state'[i].due >= 0
    <3>1. after.due \in Int
      BY <1>3 DEF States
    <3>2. QED
      BY <1>2, <1>3, <1>5, <3>1
  <2>3. \A j \in items' : j \in items /\ j \in Items
    BY <1>1 DEF TypeOK
  <2>4. QED
    BY <1>5, <2>1, <2>2, <2>3 DEF Dated
<1>12. OneAnswerADay'
  <2>1. ASSUME NEW j \in DOMAIN log'[i], NEW k \in DOMAIN log'[i],
               log'[i][j].day = log'[i][k].day
        PROVE  j = k
    <3>1. j \in DOMAIN log[i] \/ j = Len(log[i]) + 1
      BY <1>5, <1>7, <2>1
    <3>2. k \in DOMAIN log[i] \/ k = Len(log[i]) + 1
      BY <1>5, <1>7, <2>1
    <3>3. CASE j \in DOMAIN log[i] /\ k \in DOMAIN log[i]
      BY <1>2, <1>5, <1>7, <2>1, <3>3 DEF OneAnswerADay
    <3>4. CASE j \in DOMAIN log[i] /\ k = Len(log[i]) + 1
      BY <1>2, <1>4, <1>5, <1>7, <1>8, <2>1, <3>4
    <3>5. CASE k \in DOMAIN log[i] /\ j = Len(log[i]) + 1
      BY <1>2, <1>4, <1>5, <1>7, <1>8, <2>1, <3>5
    <3>6. QED
      BY <3>1, <3>2, <3>3, <3>4, <3>5
  <2>2. QED
    BY <1>5, <2>1 DEF OneAnswerADay
<1>13. ScheduleOfLog'
  <2>1. ASSUME after.first # -1
        PROVE  /\ state[i].lapses = Cardinality(Wrong(log[i]))
               /\ state[i].reps = Cardinality(Since(log[i]))
    <3>1. CASE state[i].first # -1
      BY <3>1 DEF ScheduleOfLog, Wrong, Since
    <3>2. CASE state[i].first = -1
      <4>1. new
        BY <1>1, <1>3, <2>1, <3>2
      <4>2. state[i] = NoState /\ log[i] = <<>>
        BY <1>1, <4>1 DEF Linked
      <4>3. Wrong(log[i]) = {} /\ Since(log[i]) = {}
        BY <4>2 DEF Wrong, Since
      <4>4. QED
        BY <4>2, <4>3, StateFacts, FS_EmptySet
    <3>3. QED
      BY <3>1, <3>2
  <2>2. ASSUME after.first # -1
        PROVE  /\ after.lapses = Cardinality(Wrong(Append(log[i], r)))
               /\ after.reps = Cardinality(Since(Append(log[i], r)))
    <3> HIDE DEF IInv
    <3>1. CASE ~(p < AlmostPass)
      BY <1>1, <1>2, <1>3, <1>4, <2>1, <2>2, <3>1, AppendCounts
    <3>2. CASE p < AlmostPass
      BY <1>1, <1>2, <1>3, <1>4, <2>1, <2>2, <3>2, AppendCounts
    <3>3. QED
      BY <3>1, <3>2
  <2>3. \A j \in items' : state'[j].first # -1 =>
          /\ state'[j].lapses = Cardinality(Wrong(log'[j]))
          /\ state'[j].reps = Cardinality(Since(log'[j]))
    <3> TAKE j \in items'
    <3>1. CASE j = i
      BY <1>5, <2>2, <3>1
    <3>2. CASE j # i
      <4>1. j \in items /\ state'[j] = state[j] /\ log'[j] = log[j]
        BY <1>1, <1>5, <3>2 DEF TypeOK
      <4>2. state[j].first # -1 => /\ state[j].lapses = Cardinality(Wrong(log[j]))
                                   /\ state[j].reps = Cardinality(Since(log[j]))
        BY <4>1 DEF ScheduleOfLog, Wrong, Since
      <4>3. QED
        BY <4>1, <4>2
    <3>3. QED
      BY <3>1, <3>2
  <2>4. QED
    BY <2>3 DEF ScheduleOfLog, Wrong, Since
<1>14. Capped'
  <2> SUFFICES ASSUME NEW d \in 0..MaxDay
               PROVE  Cardinality({j \in items : state'[j].first = d}) <= NewItemsPerDay
    BY <1>1 DEF Capped
  <2> DEFINE before == {j \in items : state[j].first = d}
             then == {j \in items : state'[j].first = d}
  <2>1. /\ before \subseteq items /\ then \subseteq items
        /\ Cardinality(before) \in Nat /\ Cardinality(then) \in Nat
    BY Finite
  <2>2. Cardinality(before) <= NewItemsPerDay
    BY DEF Capped
  <2>3. \A j \in items \ {i} : j \in then <=> j \in before
    BY <1>5 DEF TypeOK
  <2>4. CASE new /\ st.first = -1 /\ d = n
    <3>1. before \subseteq Begun(n) /\ Begun(n) \subseteq items
      BY <1>2, <2>4 DEF Begun
    <3>2. Cardinality(before) <= Cardinality(Begun(n)) /\ Cardinality(Begun(n)) \in Nat
      BY <3>1, Fewer, Finite
    <3>3. Cardinality(Begun(n)) < NewItemsPerDay
      BY <2>4 DEF Granted
    <3>4. i \notin before
      <4>1. state[i].first = -1
        <5>1. st.first = state[i].first
          BY <1>1
        <5>2. QED
          BY <2>4, <5>1
      <4>2. d # -1
        BY BoundsAssumption
      <4>3. QED
        BY <4>1, <4>2
    <3>5. then \subseteq before \union {i}
      BY <2>3
    <3>6. /\ Cardinality(before \union {i}) = Cardinality(before) + 1
          /\ before \union {i} \subseteq items
      BY <2>1, <3>4, Finite, FS_AddElement
    <3>7. Cardinality(then) <= Cardinality(before) + 1
      BY <3>5, <3>6, Fewer
    <3>8. QED
      BY <2>1, <3>2, <3>3, <3>7, BoundsAssumption
  <2>5. CASE ~(new /\ st.first = -1 /\ d = n)
    <3>1. i \in then => i \in before
      BY <1>1, <1>3, <1>5, <2>5
    <3>2. then \subseteq before
      BY <2>3, <3>1
    <3>3. Cardinality(then) <= Cardinality(before)
      BY <2>1, <3>2, Fewer
    <3>4. QED
      BY <2>1, <2>2, <3>3, BoundsAssumption
  <2>6. QED
    BY <2>4, <2>5
<1>15. QED
  BY <1>9, <1>10, <1>11, <1>12, <1>13, <1>14

-----------------------------------------------------------------------------
(* Purges and midnights *)

LEMMA PurgeStep ==
  ASSUME IInv, Purge
  PROVE  IInv'
<1> USE DEF IInv
<1>1. /\ purging \in items /\ Holders(purging) = {} /\ items' = items \ {purging}
      /\ state' = [state EXCEPT ![purging] = NoState]
      /\ past' = past \union {log[purging][k].day : k \in DOMAIN log[purging]}
      /\ log' = [log EXCEPT ![purging] = <<>>] /\ purging' = Nobody /\ deleted' = {}
      /\ UNCHANGED <<day, userLock, pc, item, now, isNew>>
  BY DEF Purge, TypeOK
<1>2. PICK i \in items : i = purging
  BY <1>1
<1>3. /\ i \in Items /\ state'[i] = NoState /\ log'[i] = <<>> /\ i \notin items'
      /\ \A j \in Items \ {i} : state'[j] = state[j] /\ log'[j] = log[j]
      /\ items' \subseteq items
  BY <1>1, <1>2 DEF TypeOK
<1>4. TypeOK'
  <2>1. <<>> \in Seq(Answers)
    OBVIOUS
  <2>2. state' \in [Items -> States] /\ log' \in [Items -> Seq(Answers)]
    BY <1>1, <2>1, StateFacts DEF TypeOK
  <2>3. log[i] \in Seq(Answers)
    BY <1>3 DEF TypeOK
  <2>4. \A k \in DOMAIN log[i] : log[i][k] \in Answers
    BY <2>3
  <2>5. past' \subseteq 0..day
    <3>1. \A k \in DOMAIN log[i] : log[i][k].day \in 0..day
      BY <2>4 DEF Answers
    <3>2. past \subseteq 0..day
      BY DEF TypeOK
    <3>3. QED
      BY <1>1, <1>2, <3>1, <3>2
  <2>6. QED
    BY <1>1, <1>3, <2>2, <2>5 DEF TypeOK, Answers
<1>5. ASSUME NEW t \in Submits
      PROVE  Granted(t)'
  <2>1. Granted(t)
    OBVIOUS
  <2>2. pc[t] = "record" => item[t] # i /\ item[t] \in items
    BY <1>1, <1>2, <2>1 DEF Granted, Holders
  <2>3. Holders(item[t])' = Holders(item[t])
    BY <1>1 DEF Holders
  <2>4. pc[t] = "record" => /\ item[t] \in items' /\ state'[item[t]] = state[item[t]]
                            /\ Holders(item[t])' = {t}
    BY <1>1, <1>2, <1>3, <2>1, <2>2, <2>3 DEF Granted, TypeOK
  <2>5. \A j \in items' : j \in items /\ state'[j].first = state[j].first
    BY <1>1, <1>2, <1>3 DEF TypeOK
  <2>6. isNew[t] => userLock' = t
    BY <1>1, <2>1 DEF Granted
  <2>7. QED
    BY <1>1, <2>1, <2>4, <2>5, <2>6, GrantedStays
<1>6. \A j \in items' : j \in items /\ state'[j] = state[j] /\ log'[j] = log[j]
  BY <1>1, <1>2, <1>3 DEF TypeOK
<1>7. Dated' /\ OneAnswerADay'
  <2>1. DOMAIN log'[i] = {}
    BY <1>3
  <2>2. \A j \in Items : j = i \/ (state'[j] = state[j] /\ log'[j] = log[j])
    BY <1>3
  <2>3. Dated'
    BY <1>6, <2>1, <2>2 DEF Dated
  <2>4. OneAnswerADay'
    BY <2>1, <2>2 DEF OneAnswerADay
  <2>5. QED
    BY <2>3, <2>4
<1>8. ScheduleOfLog'
  <2>1. \A j \in items : state[j].first # -1 =>
          /\ state[j].lapses = Cardinality(Wrong(log[j]))
          /\ state[j].reps = Cardinality(Since(log[j]))
    BY DEF ScheduleOfLog, Wrong, Since
  <2>2. \A j \in items' : state'[j].first # -1 =>
          /\ state'[j].lapses = Cardinality(Wrong(log'[j]))
          /\ state'[j].reps = Cardinality(Since(log'[j]))
    BY <1>6, <2>1
  <2>3. QED
    BY <2>2 DEF ScheduleOfLog, Wrong, Since
<1>9. ASSUME NEW d \in 0..MaxDay
      PROVE  Cardinality({j \in items' : state'[j].first = d}) <= NewItemsPerDay
  <2> DEFINE before == {j \in items : state[j].first = d}
             then == {j \in items' : state'[j].first = d}
  <2>1. then \subseteq before /\ before \subseteq items
    BY <1>6
  <2>2. /\ Cardinality(then) <= Cardinality(before)
        /\ Cardinality(then) \in Nat /\ Cardinality(before) \in Nat
    BY <2>1, Fewer, Finite
  <2>3. Cardinality(before) <= NewItemsPerDay
    BY DEF Capped
  <2>4. QED
    BY <2>2, <2>3, BoundsAssumption
<1>10. QED
  BY <1>4, <1>5, <1>7, <1>8, <1>9 DEF Capped

LEMMA AsideStep ==
  ASSUME IInv, UNCHANGED <<tables, userLock, pc, item, now, isNew>>,
         purging' \in items \union {Nobody}, deleted' \subseteq {"state", "item"},
         purging' = Nobody => deleted' = {}, day' \in {day, day + 1}, day' <= MaxDay
  PROVE  IInv'
<1> USE DEF IInv
<1>1. day' \in 0..MaxDay /\ 0..day \subseteq 0..day'
  BY BoundsAssumption DEF TypeOK
<1>2. Answers \subseteq Answers'
  BY <1>1 DEF Answers
<1>3. log' \in [Items -> Seq(Answers')]
  <2>1. \A l \in Seq(Answers) : l \in Seq(Answers')
    <3> TAKE l \in Seq(Answers)
    <3>1. Len(l) \in Nat /\ l \in [1..Len(l) -> Answers']
      BY <1>2, LenProperties
    <3>2. QED
      BY <3>1
  <2>2. log \in [Items -> Seq(Answers)] /\ log' = log
    BY DEF TypeOK, tables
  <2>3. QED
    BY <2>1, <2>2
<1>4. TypeOK'
  BY <1>1, <1>3 DEF TypeOK, tables
<1>5. \A s \in Submits : Granted(s)'
  BY DEF Granted, Begun, Holders, tables
<1>6. QED
  BY <1>4, <1>5, TablesStay

-----------------------------------------------------------------------------
(* Which items are new *)

\* Steps of a submit that write no table.
LEMMA LocksLinked ==
  ASSUME IInv, Linked, NEW s \in Submits, UNCHANGED tables,
         \/ LockUser(s) \/ Grade(s) \/ Refuse(s) \/ LockState(s) \/ Victim(s)
         \/ \E i \in Items : Open(s, i)
  PROVE  Linked'
<1> USE DEF IInv
<1>1. UNCHANGED <<items, state, log>>
  BY DEF tables
<1>2. ASSUME Others(s),
             pc'[s] \in {"grade", "advance", "record"} /\ item'[s] \in items =>
               (isNew'[s] <=> state[item'[s]] = NoState)
      PROVE  Linked'
  BY <1>1, <1>2 DEF Linked, Others
<1>3. CASE End(s)
  BY <1>2, <1>3, EndFacts
<1>4. ASSUME NEW i \in Items, Open(s, i)
      PROVE  Linked'
  <2>1. /\ Others(s) /\ item'[s] = i /\ ~isNew'[s]
        /\ pc'[s] = IF state[i] = NoState THEN "lock" ELSE "grade"
    BY <1>4, OpenFacts DEF Open, TypeOK, Granted
  <2>2. QED
    BY <1>2, <2>1
<1>5. CASE LockUser(s) /\ ~End(s)
  <2>1. /\ Others(s) /\ item'[s] = item[s]
        /\ isNew'[s] <=> state[item[s]] = NoState
    BY <1>5, LockUserFacts DEF LockUser, TypeOK
  <2>2. QED
    BY <1>2, <2>1
<1>6. CASE Grade(s)
  BY <1>2, <1>6, GradeFacts DEF Linked
<1>7. CASE LockState(s) /\ ~End(s)
  BY <1>2, <1>7, LockStateFacts DEF Linked
<1>8. QED
  BY <1>3, <1>4, <1>5, <1>6, <1>7 DEF Refuse, Victim

\* A failed answer brings an item back the next day.
LEMMA WrongFacts ==
  ASSUME NEW st \in States, NEW p \in 0..200, p < AlmostPass, NEW n, NEW new
  PROVE  Advance(st, p, n, new).due = n + 1
<1>1. Quality(p) < 3
  BY CreditFacts
<1>2. Interval(Quality(p), st) = 1
  BY <1>1 DEF Interval
<1>3. QED
  BY <1>2 DEF Advance

\* What the commit of an answer does to its item, by the day it was graded.
LEMMA RecordAdds ==
  ASSUME IInv, Linked, NEW s \in Submits, Record(s)
  PROVE  \E i \in items, n \in 0..day, p \in Grades :
           /\ i = item[s] /\ n = now[s] /\ pc[s] = "record" /\ End(s) /\ p \in 0..200
           /\ UNCHANGED <<day, items, past, purging, deleted>>
           /\ log' = [log EXCEPT ![i] = Append(log[i], Entry(n, p))]
           /\ state' = [state EXCEPT ![i] = state'[i]]
           /\ state'[i].due > n /\ (p < AlmostPass => state'[i].due = n + 1)
           /\ state'[i].first = IF state[i] = NoState THEN n ELSE state[i].first
           /\ state'[i] # NoState
<1> USE DEF IInv
<1>1. PICK i \in items, p \in 0..200, st \in States :
        /\ i = item[s] /\ End(s) /\ pc[s] = "record" /\ p \in Grades
        /\ userLock \in {s, Nobody}
        /\ st.lapses = state[i].lapses /\ st.reps = state[i].reps
        /\ st.first = state[i].first
        /\ state' = [state EXCEPT ![i] = Advance(st, p, now[s], isNew[s])]
        /\ log' = [log EXCEPT ![i] = Append(log[i], Entry(now[s], p))]
        /\ UNCHANGED <<day, items, past, purging, deleted>>
  BY RecordFacts
<1>2. PICK n \in 0..day : n = now[s] /\ n \in 0..MaxDay
  BY BoundsAssumption DEF TypeOK
<1>3. PICK new \in BOOLEAN : i \in Items /\ new = isNew[s]
  BY DEF TypeOK
<1>4. state'[i] = Advance(st, p, n, new)
  BY <1>1, <1>2, <1>3 DEF TypeOK
<1>5. /\ state'[i].due > n
      /\ state'[i].first = IF new /\ st.first = -1 THEN n ELSE st.first
  <2>1. /\ Advance(st, p, n, new).due > n
        /\ Advance(st, p, n, new).first = IF new /\ st.first = -1 THEN n ELSE st.first
    <3> HIDE DEF IInv
    <3>1. n \in 0..MaxDay
      BY <1>2
    <3>2. QED
      BY ONLY <3>1, AdvanceFacts, st \in States, p \in 0..200, new \in BOOLEAN
  <2>2. QED
    BY <1>4, <2>1
<1>6. p < AlmostPass => state'[i].due = n + 1
  BY <1>4, WrongFacts
<1>7. /\ isNew[s] <=> state[i] = NoState
      /\ state[i] = NoState => st.first = -1
  BY <1>1, StateFacts DEF Linked
<1>8. state'[i].first = IF state[i] = NoState THEN n ELSE state[i].first
  BY <1>1, <1>3, <1>5, <1>7
<1>9. state'[i] # NoState
  BY <1>2, <1>5, StateFacts
<1>10. state' = [state EXCEPT ![i] = state'[i]]
  BY <1>1, <1>2, <1>4
<1>11. log' = [log EXCEPT ![i] = Append(log[i], Entry(n, p))]
  BY <1>1, <1>2
<1> HIDE DEF IInv
<1>12. p \in Grades
  BY <1>1
<1>13. WITNESS i \in items, n \in 0..day, p \in Grades
<1>14. QED
  BY <1>1, <1>2, <1>5, <1>6, <1>8, <1>9, <1>10, <1>11

\* The submit of an item that nobody has answered is the only one that goes on.
LEMMA RecordLinked ==
  ASSUME IInv, Linked, NEW s \in Submits, Record(s)
  PROVE  Linked'
<1> USE DEF IInv
<1>1. PICK i \in items, n \in 0..day, p \in Grades :
        /\ i = item[s] /\ n = now[s] /\ pc[s] = "record" /\ End(s) /\ p \in 0..200
        /\ UNCHANGED <<day, items, past, purging, deleted>>
        /\ log' = [log EXCEPT ![i] = Append(log[i], Entry(n, p))]
        /\ state' = [state EXCEPT ![i] = state'[i]]
        /\ state'[i].due > n /\ (p < AlmostPass => state'[i].due = n + 1)
        /\ state'[i].first = IF state[i] = NoState THEN n ELSE state[i].first
        /\ state'[i] # NoState
  BY RecordAdds
<1>2. \A j \in Items \ {i} : state'[j] = state[j] /\ log'[j] = log[j]
  BY <1>1 DEF TypeOK
<1>3. \A j \in items : state'[j] = NoState => log'[j] = <<>>
  <2> TAKE j \in items
  <2>1. CASE j = i
    BY <1>1, <2>1
  <2>2. CASE j # i
    BY <1>2, <2>2 DEF Linked, TypeOK
  <2>3. QED
    BY <2>1, <2>2
<1>4. Others(s) /\ pc'[s] = "idle"
  BY <1>1, EndFacts
<1>5. ASSUME NEW t \in Submits, pc'[t] \in {"grade", "advance", "record"}, item'[t] \in items
      PROVE  isNew'[t] <=> state'[item'[t]] = NoState
  <2>1. t # s /\ pc[t] = pc'[t] /\ item[t] = item'[t] /\ isNew'[t] = isNew[t]
    BY <1>4, <1>5 DEF Others
  <2>2. isNew[t] <=> state[item[t]] = NoState
    BY <1>5, <2>1 DEF Linked
  <2>3. CASE item[t] = i
    <3>1. isNew[s] <=> state[i] = NoState
      BY <1>1 DEF Linked
    <3>2. ~isNew[t]
      BY <2>1, <2>2, <2>3, <3>1 DEF Granted
    <3>3. QED
      BY <1>1, <2>1, <2>3, <3>2
  <2>4. CASE item[t] # i
    BY <1>2, <1>5, <2>1, <2>2, <2>4 DEF TypeOK
  <2>5. QED
    BY <2>3, <2>4
<1>6. QED
  BY <1>1, <1>3, <1>5 DEF Linked

LEMMA LinkedStep == IInv /\ Linked /\ [Next]_vars => Linked'
<1> SUFFICES ASSUME IInv, Linked, [Next]_vars
             PROVE  Linked'
  OBVIOUS
<1>1. ASSUME NEW s \in Submits, Submit(s) \/ \E i \in Items : Open(s, i)
      PROVE  Linked'
  BY <1>1, LocksLinked, RecordLinked
     DEF Submit, LockUser, Grade, Refuse, LockState, Victim, Open
<1>2. CASE Purge
  <2>1. /\ purging \in items /\ items' = items \ {purging}
        /\ UNCHANGED <<pc, item, isNew>>
        /\ \A j \in items' : state'[j] = state[j] /\ log'[j] = log[j]
    BY <1>2 DEF Purge, IInv, TypeOK
  <2>2. QED
    BY <2>1 DEF Linked
<1>3. CASE UNCHANGED <<tables, pc, item, isNew>>
  BY <1>3 DEF Linked, tables
<1>4. QED
  BY <1>1, <1>2, <1>3 DEF Next, StartPurge, DeleteItem, PurgeFails, Midnight, vars, tables

-----------------------------------------------------------------------------
LEMMA InitIInv == Init => IInv /\ Linked
<1> SUFFICES ASSUME Init PROVE IInv /\ Linked
  OBVIOUS
<1>1. /\ day = 0 /\ items = Items /\ past = {} /\ userLock = Nobody
      /\ purging = Nobody /\ deleted = {}
      /\ \A s \in Submits : pc[s] = "idle" /\ ~isNew[s]
  BY DEF Init
<1>2. PICK row \in [Items -> OldRows \union {NoRow}] :
        /\ state = [i \in Items |-> row[i].state]
        /\ log = [i \in Items |-> row[i].log]
  BY DEF Init
<1>3. ASSUME NEW i \in Items
      PROVE  /\ state[i] \in States /\ state[i].first = -1 /\ log[i] \in OldLogs
             /\ state[i] = NoState => log[i] = <<>>
             /\ state[i] # NoState => state[i].due >= 0
             /\ log[i] # <<>> => state[i].due >= 1
  <2>1. PICK x \in OldRows \union {NoRow} : x.state = state[i] /\ x.log = log[i]
    BY <1>2
  <2>2. CASE x \in OldRows
    BY <2>1, <2>2, OldRowsAssumption, StateFacts
  <2>3. CASE x = NoRow
    BY <2>1, <2>3, StateFacts DEF NoRow, OldLogs
  <2>4. QED
    BY <2>2, <2>3
<1>4. ASSUME NEW l \in OldLogs
      PROVE  /\ l \in Seq(Answers) /\ DOMAIN l \subseteq {1}
             /\ \A k \in DOMAIN l : l[k].day = 0
             /\ l = <<>> \/ l[1].day = 0
  <2>1. CASE l = <<>>
    BY <2>1
  <2>2. CASE l # <<>>
    <3>1. PICK v \in Verdicts : l = <<[day |-> 0, verdict |-> v, credit |-> -1]>>
      BY <2>2 DEF OldLogs
    <3>2. [day |-> 0, verdict |-> v, credit |-> -1] \in Answers
      BY <1>1, <3>1 DEF Answers
    <3>3. QED
      BY <3>1, <3>2
  <2>3. QED
    BY <2>1, <2>2
<1>5. TypeOK
  <2>1. 0 \in 0..day
    BY <1>1
  <2>2. state \in [Items -> States] /\ log \in [Items -> Seq(Answers)]
    BY <1>2, <1>3, <1>4
  <2>3. QED
    BY <1>1, <2>1, <2>2, BoundsAssumption DEF Init, TypeOK
<1>6. (\A s \in Submits : Granted(s)) /\ Linked
  BY <1>1, <1>3 DEF Granted, Linked
<1>7. Dated
  <2>1. ASSUME NEW i \in Items, NEW k \in DOMAIN log[i]
        PROVE  log[i][k].day < state[i].due
    <3>1. log[i][k].day = 0 /\ log[i] # <<>>
      BY <1>3, <1>4, <2>1
    <3>2. state[i].due >= 1 /\ state[i].due \in Int
      BY <1>3, <3>1 DEF States
    <3>3. QED
      BY <3>1, <3>2
  <2>2. QED
    BY <1>1, <1>3, <2>1 DEF Dated
<1>8. OneAnswerADay
  <2>1. \A i \in Items : \A j, k \in DOMAIN log[i] : j = 1 /\ k = 1
    BY <1>3, <1>4
  <2>2. QED
    BY <2>1 DEF OneAnswerADay
<1>9. Capped
  <2> SUFFICES ASSUME NEW d \in 0..MaxDay
               PROVE  Cardinality({i \in items : state[i].first = d}) <= NewItemsPerDay
    BY DEF Capped
  <2>1. {i \in items : state[i].first = d} = {}
    BY <1>1, <1>3
  <2>2. QED
    BY <2>1, FS_EmptySet, BoundsAssumption
<1>10. ScheduleOfLog
  BY <1>1, <1>3 DEF ScheduleOfLog
<1>11. QED
  BY <1>5, <1>6, <1>7, <1>8, <1>9, <1>10 DEF IInv

\* The inductive invariant holds of every behaviour, however the submits,
\* purges and midnights interleave.
THEOREM Invariance == Spec => [](IInv /\ Linked)
<1>1. IInv /\ Linked /\ [Next]_vars => IInv'
  <2> SUFFICES ASSUME IInv, Linked, [Next]_vars PROVE IInv'
    OBVIOUS
  <2> USE DEF IInv
  <2>1. ASSUME NEW s \in Submits, Record(s) PROVE IInv'
    BY <2>1, RecordStep
  <2>2. ASSUME NEW s \in Submits,
               \/ LockUser(s) \/ Grade(s) \/ Refuse(s) \/ LockState(s) \/ Victim(s)
               \/ \E i \in Items : Open(s, i)
        PROVE  IInv'
    <3>1. UNCHANGED <<day, tables, purging, deleted>>
      BY <2>2 DEF LockUser, Grade, Refuse, LockState, Victim, Open
    <3>2. QED
      BY <2>2, <3>1, SubmitStep
  <2>3. CASE Purge
    BY <2>3, PurgeStep
  <2>4. TypeOK /\ day \in Int /\ day <= MaxDay
    BY BoundsAssumption DEF TypeOK
  <2>5. CASE PurgeFails \/ DeleteItem \/ \E i \in Items : StartPurge(i)
    <3>1. /\ UNCHANGED <<tables, userLock, pc, item, now, isNew>> /\ day' = day
          /\ purging' \in items \union {Nobody} /\ deleted' \subseteq {"state", "item"}
          /\ purging' = Nobody => deleted' = {}
      BY <2>4, <2>5, NobodyAssumption DEF PurgeFails, DeleteItem, StartPurge, TypeOK
    <3>2. QED
      BY <2>4, <3>1, AsideStep
  <2>6. CASE Midnight \/ UNCHANGED vars
    <3>1. /\ UNCHANGED <<tables, purging, deleted, userLock, pc, item, now, isNew>>
          /\ day' \in {day, day + 1} /\ day' <= MaxDay
      <4>1. CASE Midnight
        BY <2>4, <4>1, BoundsAssumption DEF Midnight, tables
      <4>2. CASE UNCHANGED vars
        BY <2>4, <4>2 DEF vars, tables
      <4>3. QED
        BY <2>6, <4>1, <4>2
    <3>2. QED
      BY <2>4, <3>1, AsideStep DEF TypeOK
  <2>7. QED
    BY <2>1, <2>2, <2>3, <2>5, <2>6 DEF Next, Submit
<1>2. QED
  BY InitIInv, <1>1, LinkedStep, PTL DEF Spec

\* Rows, locks and locals keep their shapes.
THEOREM TypeCorrect == Spec => []TypeOK
<1>1. IInv => TypeOK
  BY DEF IInv
<1>2. QED
  BY <1>1, Invariance, PTL

\* submit_answer begins no more new items in a day than NEW_ITEMS_PER_DAY,
\* however many submits race and span a midnight.
THEOREM CapKept == Spec => []DailyCap
<1>1. IInv => DailyCap
  <2>1. TypeOK => 0..day \subseteq 0..MaxDay
    BY BoundsAssumption DEF TypeOK
  <2>2. QED
    BY <2>1 DEF IInv, Capped, DailyCap
<1>2. QED
  BY <1>1, Invariance, PTL

\* A replayed or concurrent submit does not advance the schedule twice.
THEOREM AnsweredOnce == Spec => []OneAnswerADay
<1>1. IInv => OneAnswerADay
  BY DEF IInv
<1>2. QED
  BY <1>1, Invariance, PTL

\* submit_answer keeps the two tables in step: the lapses and repetitions of a
\* schedule are those that its log shows, whatever credits the grader gives; only
\* one that is rounded up to PASS_CREDIT counts as a pass and shows as partial.
THEOREM TablesAgree == Spec => []ScheduleOfLog
<1>1. IInv => ScheduleOfLog
  BY DEF IInv
<1>2. QED
  BY <1>1, Invariance, PTL

\* The count on the page and in the reminder is the length of the queue.
THEOREM CountIsRight == Spec => []CountOfQueue
<1>1. IInv => CountOfQueue
  <2> SUFFICES ASSUME IInv PROVE CountOfQueue
    OBVIOUS
  <2> USE DEF IInv
  <2> DEFINE o == Cardinality(Overdue(day))
             u == Cardinality(Unanswered)
             a == Allowance(day)
  <2>1. Overdue(day) \subseteq items /\ Unanswered \subseteq items
    BY DEF Overdue, Unanswered
  <2>2. o \in Nat /\ u \in Nat
    BY <2>1, Finite
  <2>3. a \in Nat
    <3>1. {i \in items : state[i].first >= day} \subseteq items
      OBVIOUS
    <3>2. Cardinality({i \in items : state[i].first >= day}) \in Nat
      BY <3>1, Finite
    <3>3. QED
      BY <3>2, BoundsAssumption DEF Allowance, Larger
  <2>4. /\ QueueLength(day) = Smaller(QueueLimit, o)
              + Smaller(u, Smaller(QueueLimit - Smaller(QueueLimit, o), a))
        /\ DueCount(day) = o + Smaller(u, a)
    BY DEF QueueLength, DueCount
  <2> HIDE DEF o, u, a
  <2>5. QueueLimit \in Nat
    BY BoundsAssumption
  <2>6. QED
    BY <2>2, <2>3, <2>4, <2>5 DEF CountOfQueue, Smaller
<1>2. QED
  BY <1>1, Invariance, PTL

-----------------------------------------------------------------------------
(* The streak, of any log: no invariant but the types is needed. *)

\* The order of the natural numbers, and the least of a set of them.
Below == {ss \in Nat \X Nat : ss[1] < ss[2]}

LEMMA LeastNat ==
  ASSUME NEW S \in SUBSET Nat, S # {}
  PROVE  \E x \in S : \A y \in S : x <= y
<1>1. IsWellFoundedOn(Below, Nat)
  BY NatLessThanWellFounded DEF OpToRel, Below
<1>2. PICK x \in S : \A y \in S : <<y, x>> \notin Below
  BY <1>1, WFMin
<1>3. \A y \in S : x <= y
  <2> TAKE y \in S
  <2>1. x \in Nat /\ y \in Nat /\ <<y, x>> \notin Below
    BY <1>2
  <2>2. QED
    BY <2>1 DEF Below
<1>4. QED
  BY <1>3

\* The subsets 1..0, 1..1 and so on are n + 1 of the 2^n subsets of 1..n.
LEMMA PowerGrows ==
  ASSUME NEW n \in Nat
  PROVE  2^n \in Nat /\ n + 1 <= 2^n
<1>1. IsFiniteSet(1..n) /\ Cardinality(1..n) = n
  BY FS_Interval
<1>2. IsFiniteSet(SUBSET (1..n)) /\ Cardinality(SUBSET (1..n)) = 2^n
  BY <1>1, FS_SUBSET
<1>3. 2^n \in Nat
  BY <1>2, FS_CardinalityType
<1> DEFINE f == [i \in 0..n |-> 1..i]
<1>4. f \in Injection(0..n, SUBSET (1..n))
  <2>1. \A i \in 0..n : 1..i \in SUBSET (1..n)
    OBVIOUS
  <2>2. ASSUME NEW i \in 0..n, NEW j \in 0..n, 1..i = 1..j
        PROVE  i = j
    <3>1. i \in Nat /\ j \in Nat
      OBVIOUS
    <3>2. CASE i < j
      <4>1. j \in 1..j /\ j \notin 1..i
        BY <3>1, <3>2
      <4>2. QED
        BY <2>2, <4>1
    <3>3. CASE j < i
      <4>1. i \in 1..i /\ i \notin 1..j
        BY <3>1, <3>3
      <4>2. QED
        BY <2>2, <4>1
    <3>4. QED
      BY <3>1, <3>2, <3>3
  <2>3. QED
    BY <2>1, <2>2 DEF Injection, IsInjective
<1> HIDE DEF f
<1>5. Cardinality(0..n) <= Cardinality(SUBSET (1..n))
  BY <1>2, <1>4, FS_Injection
<1>6. Cardinality(0..n) = n + 1
  BY FS_Interval
<1>7. QED
  BY <1>2, <1>3, <1>5, <1>6

\* After k windows more than k days were read, and after day + 3 of them all.
LEMMA LoadedFacts ==
  ASSUME NEW k \in Nat
  PROVE  Loaded(k) \in Nat /\ k <= Loaded(k)
<1>1. 2^k \in Nat /\ k <= 2^k - 1 /\ Window \in Nat \ {0}
  BY PowerGrows, BoundsAssumption
<1> DEFINE m == 2^k - 1
<1>2. m \in Nat /\ k <= m
  BY <1>1
<1> HIDE DEF m
<1>3. Window * m \in Nat /\ m <= Window * m
  BY <1>1, <1>2
<1>4. Loaded(k) = Window * m
  BY DEF Loaded, m
<1>5. QED
  BY <1>2, <1>3, <1>4

\* The last day before a streak, of any set of days.
LEMMA CursorFacts ==
  ASSUME day \in Nat, NEW D \in SUBSET Nat
  PROVE  /\ Cursor(D) \in -2..day /\ Cursor(D) <= StreakEnd(D) /\ Cursor(D) \notin D
         /\ \A d \in (Cursor(D) + 1)..StreakEnd(D) : d \in D
<1> DEFINE end == StreakEnd(D)
           S == {n \in 0..(end + 1) : end - n \notin D}
<1>1. end \in Int /\ end >= -1 /\ end <= day
  BY DEF StreakEnd
<1>2. end + 1 \in S /\ S \subseteq Nat
  BY <1>1
<1> HIDE DEF end
<1>3. PICK n \in S : \A y \in S : n <= y
  BY <1>2, LeastNat
<1>4. /\ n \in Nat /\ end - n \in -2..day /\ end - n <= end /\ end - n \notin D
  BY <1>1, <1>3
<1>5. \A d \in ((end - n) + 1)..end : d \in D
  <2> SUFFICES ASSUME NEW d \in ((end - n) + 1)..end, d \notin D
               PROVE  FALSE
    OBVIOUS
  <2>1. d \in Int /\ end - (end - d) = d /\ end - d < n /\ end - d \in 0..(end + 1)
    BY <1>1, <1>3, <1>4
  <2>2. QED
    BY <1>1, <1>3, <1>4, <2>1
<1>6. \E c \in -2..day : c <= end /\ c \notin D /\ \A d \in (c + 1)..end : d \in D
  BY <1>4, <1>5
<1>7. QED
  BY <1>6 DEF Cursor, end

\* The streak of windows that are read until it stops on a day that was read is
\* that of the whole log.
LEMMA StreakFacts ==
  ASSUME day \in Nat, Answered \subseteq Nat
  PROVE  StreakIsRun
<1> DEFINE Read(k) == {d \in Answered : d > day - Loaded(k)}
           Complete(k) == day - Cursor(Read(k)) < Loaded(k)
           Last(k) == Complete(k) /\ \A j \in 1..(k - 1) : ~Complete(j)
           last == CHOOSE k \in 1..(day + 3) : Last(k)
           D == Read(last)
           S == {k \in 1..(day + 3) : Complete(k)}
<1>1. \A k \in Nat : /\ Read(k) \in SUBSET Nat
                     /\ Cursor(Read(k)) \in -2..day /\ Cursor(Read(k)) \notin Read(k)
  BY CursorFacts
<1>2. day + 3 \in S
  <2>1. Loaded(day + 3) \in Nat /\ day + 3 <= Loaded(day + 3)
    BY LoadedFacts
  <2>2. Cursor(Read(day + 3)) \in -2..day
    BY <1>1
  <2> HIDE DEF Read
  <2>3. QED
    BY <2>1, <2>2
<1>3. \E k \in 1..(day + 3) : Last(k)
  <2>1. S \in SUBSET Nat /\ S # {}
    BY <1>2
  <2>2. PICK k \in S : \A y \in S : k <= y
    BY <2>1, LeastNat
  <2>3. \A j \in 1..(k - 1) : j \in 1..(day + 3) /\ j < k
    BY <2>2
  <2> HIDE DEF Complete
  <2>4. QED
    BY <2>2, <2>3
<1> HIDE DEF Last
<1>4. last \in 1..(day + 3) /\ Last(last)
  BY <1>3
<1>5. Streak = StreakEnd(D) - Cursor(D)
  BY DEF Streak, Last
<1> HIDE DEF last
<1>6. last \in Nat /\ Loaded(last) \in Nat /\ 1 <= Loaded(last) /\ Complete(last)
  BY <1>4, LoadedFacts DEF Last
<1>7. day \in D <=> day \in Answered
  BY <1>6
<1>8. StreakEnd(D) = StreakEnd(Answered)
  BY <1>7 DEF StreakEnd
<1>9. D \in SUBSET Nat
  BY <1>1, <1>6
<1>10. /\ Cursor(D) \in Int /\ Cursor(D) \notin D
       /\ \A d \in (Cursor(D) + 1)..StreakEnd(D) : d \in D
  BY <1>9, CursorFacts
<1>11. Cursor(D) \notin Answered
  BY <1>6, <1>10
<1>12. D \subseteq Answered
  OBVIOUS
<1> HIDE DEF D
<1>13. StreakEnd(D) \in Int
  BY DEF StreakEnd
<1>14. /\ StreakEnd(D) - Streak = Cursor(D)
       /\ (StreakEnd(D) - Streak) + 1 = Cursor(D) + 1
  BY <1>5, <1>10, <1>13
<1>15. QED
  BY <1>8, <1>10, <1>11, <1>12, <1>14 DEF StreakIsRun

\* However long the streak and wherever its windows end, what the page shows is the
\* number of days in a row with an answer.
THEOREM StreakIsWhole == Spec => []StreakIsRun
<1>1. TypeOK => day \in Nat /\ Answered \subseteq Nat
  <2> SUFFICES ASSUME TypeOK PROVE day \in Nat /\ Answered \subseteq Nat
    OBVIOUS
  <2>1. day \in Nat /\ past \subseteq Nat
    BY BoundsAssumption DEF TypeOK
  <2>2. ASSUME NEW i \in Items, NEW k \in DOMAIN log[i]
        PROVE  log[i][k].day \in Nat
    <3>1. log[i] \in Seq(Answers)
      BY DEF TypeOK
    <3>2. log[i][k] \in Answers
      BY <2>2, <3>1
    <3>3. QED
      BY <2>1, <3>2 DEF Answers
  <2>3. UNION {{log[i][k].day : k \in DOMAIN log[i]} : i \in Items} \subseteq Nat
    <3> SUFFICES ASSUME NEW i \in Items, NEW k \in DOMAIN log[i]
                 PROVE  log[i][k].day \in Nat
      OBVIOUS
    <3>1. QED
      BY <2>2
  <2>4. QED
    BY <2>1, <2>3 DEF Answered
<1>2. QED
  BY <1>1, StreakFacts, TypeCorrect, PTL

-----------------------------------------------------------------------------
(* The refinement *)

LEMMA AnsweredIs ==
  \A d : d \in Answered <=> d \in past \/ \E i \in Items : d \in Journal!DaysOf(log[i])
BY DEF Answered, Journal!DaysOf

LEMMA SameCount == \A S : Journal!Cardinality(S) = Cardinality(S)
BY DEF Journal!Cardinality, Cardinality

LEMMA RecordIsAnswer ==
  ASSUME IInv, Linked, NEW s \in Submits, Record(s)
  PROVE  Journal!Next
<1> USE DEF IInv
<1>1. PICK i \in items, n \in 0..day, p \in Grades :
        /\ i = item[s] /\ n = now[s] /\ pc[s] = "record" /\ End(s) /\ p \in 0..200
        /\ UNCHANGED <<day, items, past, purging, deleted>>
        /\ log' = [log EXCEPT ![i] = Append(log[i], Entry(n, p))]
        /\ state' = [state EXCEPT ![i] = state'[i]]
        /\ state'[i].due > n /\ (p < AlmostPass => state'[i].due = n + 1)
        /\ state'[i].first = IF state[i] = NoState THEN n ELSE state[i].first
        /\ state'[i] # NoState
  BY RecordAdds
<1>2. i \in Items /\ n \in 0..MaxDay /\ n \in Nat /\ n <= day
  BY BoundsAssumption DEF TypeOK
<1> DEFINE due == [j \in Items |-> state[j].due]
           begun == [j \in Items |-> state[j].first]
<1>3. due[i] = -1 <=> state[i] = NoState
  BY <1>1, <1>2, StateFacts DEF Dated
<1>4. Journal!Answerable(i, n)
  <2>1. {j \in items : begun[j] >= n} = Begun(n)
    BY DEF Begun, TypeOK
  <2>2. state[i] = NoState => Cardinality(Begun(n)) < NewItemsPerDay
    BY <1>1 DEF Linked, Granted
  <2>3. state[i] # NoState => state[i].due <= n
    BY <1>1 DEF Granted
  <2>4. QED
    BY <1>2, <1>3, <2>1, <2>2, <2>3, SameCount DEF Journal!Answerable
<1>5. due' = [due EXCEPT ![i] = due'[i]] /\ due'[i] = state'[i].due
  BY <1>1, <1>2 DEF TypeOK
<1>6. begun' = IF due[i] = -1 THEN [begun EXCEPT ![i] = n] ELSE begun
  <2>1. /\ state'[i].first = IF state[i] = NoState THEN n ELSE state[i].first
        /\ \A j \in Items \ {i} : state'[j] = state[j]
    BY <1>1, <1>2 DEF TypeOK
  <2>2. begun'[i] = IF due[i] = -1 THEN n ELSE begun[i]
    BY <1>2, <1>3, <2>1
  <2>3. \A j \in Items \ {i} : begun'[j] = begun[j]
    BY <2>1
  <2>4. begun' = [j \in Items |-> begun'[j]] /\ begun = [j \in Items |-> begun[j]]
    OBVIOUS
  <2>5. QED
    BY <1>2, <2>2, <2>3, <2>4
<1>7. Answered' = Answered \union {n}
  <2> DEFINE r == Entry(n, p)
  <2>1. /\ log[i] \in Seq(Answers) /\ r \in Answers /\ r.day = n
        /\ log'[i] = Append(log[i], r)
        /\ \A j \in Items \ {i} : log'[j] = log[j]
    <3>1. r \in Answers /\ r.day = n
      BY <1>1, <1>2, EntryFacts
    <3>2. log[i] \in Seq(Answers) /\ i \in DOMAIN log
      BY <1>1, <1>2 DEF TypeOK
    <3>3. QED
      BY <1>1, <1>2, <3>1 DEF TypeOK
  <2> HIDE DEF r
  <2>2. /\ DOMAIN log'[i] = DOMAIN log[i] \union {Len(log[i]) + 1}
        /\ \A k \in DOMAIN log[i] : log'[i][k] = log[i][k]
        /\ log'[i][Len(log[i]) + 1] = r
    BY <2>1, AppendCounts
  <2>3. Journal!DaysOf(log'[i]) = Journal!DaysOf(log[i]) \union {n}
    BY <2>1, <2>2 DEF Journal!DaysOf
  <2>4. \A j \in Items \ {i} : Journal!DaysOf(log'[j]) = Journal!DaysOf(log[j])
    BY <2>1 DEF Journal!DaysOf
  <2>5. \A d : d \in Answered' <=> d \in past' \/ \E j \in Items : d \in Journal!DaysOf(log'[j])
    BY DEF Answered, Journal!DaysOf
  <2>6. QED
    BY <1>1, <1>2, <2>3, <2>4, <2>5, AnsweredIs
<1>8. \E grade \in Grades, verdict \in {"correct", "partial", "incorrect"} :
        /\ log' = [log EXCEPT ![i] = Append(log[i],
             [day |-> n, verdict |-> verdict, credit |-> grade])]
        /\ grade \notin AlmostPass..200 => due'[i] = n + 1
  <2>1. Verdict(p) \in {"correct", "partial", "incorrect"}
    BY <1>1, CreditFacts DEF Verdicts
  <2>2. p \notin AlmostPass..200 => p < AlmostPass
    BY <1>1 DEF AlmostPass
  <2>3. WITNESS p \in Grades
  <2>4. WITNESS Verdict(p) \in {"correct", "partial", "incorrect"}
  <2>5. QED
    BY <1>1, <1>5, <2>2 DEF Entry
<1>9. Journal!Answer(i, n)
  BY <1>1, <1>2, <1>4, <1>5, <1>6, <1>7, <1>8 DEF Journal!Answer
<1>10. QED
  BY <1>2, <1>9 DEF Journal!Next

LEMMA PurgeIsTearOut ==
  ASSUME IInv, Purge
  PROVE  Journal!Next
<1> USE DEF IInv
<1>1. PICK i \in items :
        /\ i = purging /\ items' = items \ {i}
        /\ state' = [state EXCEPT ![i] = NoState] /\ log' = [log EXCEPT ![i] = <<>>]
        /\ past' = past \union Journal!DaysOf(log[i])
        /\ UNCHANGED day
  BY DEF Purge, TypeOK, Journal!DaysOf
<1>2. /\ i \in Items /\ log'[i] = <<>> /\ \A j \in Items \ {i} : log'[j] = log[j]
  BY <1>1 DEF TypeOK
<1> DEFINE due == [j \in Items |-> state[j].due]
           begun == [j \in Items |-> state[j].first]
<1>3. due' = [due EXCEPT ![i] = -1] /\ begun' = [begun EXCEPT ![i] = -1]
  BY <1>1, <1>2, StateFacts DEF TypeOK
<1>4. Answered' = Answered
  <2>1. Journal!DaysOf(log'[i]) = {}
    BY <1>2 DEF Journal!DaysOf
  <2>2. \A j \in Items \ {i} : Journal!DaysOf(log'[j]) = Journal!DaysOf(log[j])
    BY <1>2 DEF Journal!DaysOf
  <2>3. \A d : d \in Answered' <=> d \in past' \/ \E j \in Items : d \in Journal!DaysOf(log'[j])
    BY DEF Answered, Journal!DaysOf
  <2>4. QED
    BY <1>1, <1>2, <2>1, <2>2, <2>3, AnsweredIs
<1>5. Journal!TearOut(i)
  BY <1>1, <1>3, <1>4 DEF Journal!TearOut
<1>6. QED
  BY <1>2, <1>5 DEF Journal!Next

LEMMA JournalStep == IInv /\ Linked /\ [Next]_vars => [Journal!Next]_(Journal!book)
<1> SUFFICES ASSUME IInv, Linked, [Next]_vars
             PROVE  Journal!Next \/ UNCHANGED Journal!book
  OBVIOUS
<1>1. CASE UNCHANGED <<day, tables>>
  BY <1>1 DEF tables, Journal!book, Answered
<1>2. CASE Midnight
  <2>1. UNCHANGED <<items, log, state, past>> /\ day' = day + 1
    BY <1>2 DEF Midnight, tables
  <2>2. Answered' = Answered
    BY <2>1 DEF Answered
  <2>3. QED
    BY <2>1, <2>2 DEF Journal!Next, Journal!NextDay
<1>3. QED
  BY <1>1, <1>2, RecordIsAnswer, PurgeIsTearOut
     DEF Next, Submit, Open, LockUser, Grade, Refuse, LockState, Victim, StartPurge,
         DeleteItem, PurgeFails, vars, tables

\* submit_answer is as good as atomic: what concurrent submits, purges and midnights
\* do to logs and schedules is what answers that come one at a time may do, none
\* beyond the day's cap or before its item is due.
THEOREM JournalImplemented == Spec => ImplementsJournal
<1>1. Init => Journal!Init
  <2> SUFFICES ASSUME Init PROVE Journal!Init
    OBVIOUS
  <2>1. IInv /\ Linked
    BY InitIInv
  <2>2. day = 0 /\ items = Items /\ past = {}
    BY DEF Init
  <2>3. ASSUME NEW i \in Items
        PROVE  /\ state[i].first = -1
               /\ IF state[i].due = -1 THEN log[i] = <<>>
                  ELSE \A d \in Journal!DaysOf(log[i]) : d < state[i].due
    <3>1. state[i].first = -1
      <4>1. PICK x \in OldRows \union {NoRow} : x.state = state[i]
        BY DEF Init
      <4>2. QED
        BY <4>1, OldRowsAssumption, StateFacts DEF NoRow
    <3>2. state[i].due = -1 => state[i] = NoState
      BY <2>1, <2>2, StateFacts DEF IInv, Dated
    <3>3. \A d \in Journal!DaysOf(log[i]) : d < state[i].due
      BY <2>1 DEF IInv, Dated, Journal!DaysOf
    <3>4. QED
      BY <2>1, <2>2, <3>1, <3>2, <3>3 DEF Linked
  <2>4. Answered = UNION {Journal!DaysOf(log[i]) : i \in Items}
    BY <2>2 DEF Answered, Journal!DaysOf
  <2>5. [i \in Items |-> state[i].first] = [i \in Items |-> -1]
    BY <2>3
  <2>6. QED
    BY <2>2, <2>3, <2>4, <2>5 DEF Journal!Init
<1>2. IInv /\ Linked /\ [Next]_vars => [Journal!Next]_(Journal!book)
  BY JournalStep
<1>3. QED
  BY <1>1, <1>2, Invariance, PTL DEF Spec, ImplementsJournal, Journal!Spec
====
