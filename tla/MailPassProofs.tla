----------------------------- MODULE MailPassProofs -----------------------------
(***************************************************************************)
(* What any step of a job of MailPass does, whatever befell the job and    *)
(* whoever else sends: the lemmas that both jobs of Mailer rest on.        *)
(***************************************************************************)
EXTENDS MailPass, SequenceTheorems, FiniteSetTheorems, WellFoundedInduction, TLAPS

-----------------------------------------------------------------------------
(* The operators of the model *)

Below == {ss \in Nat \X Nat : ss[1] < ss[2]}

\* A set of events has an oldest.
LEMMA OldestIn ==
  ASSUME NEW b, b \subseteq Nat, b # {}
  PROVE  Oldest(b) \in b
<1>1. IsWellFoundedOn(Below, Nat)
  BY NatLessThanWellFounded DEF OpToRel, Below
<1>2. PICK e \in b : \A d \in b : <<d, e>> \notin Below
  BY <1>1, WFMin
<1>3. \A d \in b : e <= d
  <2> TAKE d \in b
  <2>1. <<d, e>> \in Nat \X Nat /\ <<d, e>>[1] = d /\ <<d, e>>[2] = e
    BY <1>2
  <2>2. ~(d < e)
    BY <1>2, <2>1 DEF Below
  <2>3. QED
    BY <1>2, <2>2
<1>4. QED
  BY <1>3 DEF Oldest

\* A set of events has a newest.
LEMMA NewestIn ==
  ASSUME NEW n \in Nat, NEW b, b \subseteq 0..n, b # {}
  PROVE  \E e \in b : \A d \in b : d <= e
<1> DEFINE m == {n - e : e \in b}
<1>0. \A e \in b : n - e \in Nat
  OBVIOUS
<1>1. m \subseteq Nat /\ m # {}
  BY <1>0
<1> HIDE DEF m
<1>2. PICK k \in m : \A l \in m : k <= l
  <2>1. IsWellFoundedOn(Below, Nat)
    BY NatLessThanWellFounded DEF OpToRel, Below
  <2>2. PICK k \in m : \A l \in m : <<l, k>> \notin Below
    BY <1>1, <2>1, WFMin
  <2>3. ASSUME NEW l \in m PROVE k <= l
    <3>1. <<l, k>> \in Nat \X Nat /\ <<l, k>>[1] = l /\ <<l, k>>[2] = k
      BY <1>1, <2>2
    <3>2. ~(l < k)
      BY <2>2, <3>1 DEF Below
    <3>3. QED
      BY <1>1, <2>2, <3>2
  <2>4. QED
    BY <2>2, <2>3
<1>3. PICK e \in b : k = n - e
  BY <1>2 DEF m
<1>4. \A d \in b : n - e <= n - d
  BY <1>2, <1>3 DEF m
<1>5. QED
  BY <1>4

LEMMA RowsFacts ==
  ASSUME TablesOK
  PROVE  /\ DOMAIN rows = 1..Len(rows) /\ Len(rows) \in Nat /\ Len(rows) <= MaxEvents
         /\ DOMAIN rows \subseteq Ids /\ DOMAIN rows \subseteq Nat
         /\ rows \in [DOMAIN rows -> Row]
<1>1. /\ DOMAIN rows = 1..Len(rows) /\ Len(rows) \in Nat /\ Len(rows) <= MaxEvents
      /\ rows \in [1..Len(rows) -> Row]
  BY LenProperties DEF TablesOK
<1>2. QED
  BY <1>1, BoundsAssumption DEF Ids

LEMMA RowFacts ==
  ASSUME NEW r \in Row
  PROVE  /\ r.owner \in Users /\ r.kind \in {"new_material", "review_due"}
         /\ r.sent \in BOOLEAN /\ r.failed \in BOOLEAN /\ r.batch \in Keys
         /\ [r EXCEPT !.sent = TRUE] \in Row /\ [r EXCEPT !.failed = TRUE] \in Row
         /\ \A k \in Keys : [r EXCEPT !.batch = k] \in Row
BY Zenon DEF Row

LEMMA KeyFacts ==
  /\ NoBatch \in Keys /\ Legacy \in Keys /\ Batches \subseteq Keys
  /\ NoBatch \notin Batches /\ Legacy \notin Batches /\ NoBatch # Legacy
BY BoundsAssumption DEF NoBatch, Legacy, Keys, Batches

\* There is always a key to spare.
LEMMA NewBatchFree ==
  ASSUME TablesOK
  PROVE  NewBatch \in Batches /\ \A d \in DOMAIN rows : rows[d].batch # NewBatch
<1>1. SUFFICES ASSUME \A k \in Batches : \E d \in DOMAIN rows : rows[d].batch = k
               PROVE  FALSE
  BY DEF NewBatch
<1> DEFINE f == [k \in Batches |-> CHOOSE d \in DOMAIN rows : rows[d].batch = k]
<1>2. \A k \in Batches : f[k] \in DOMAIN rows /\ rows[f[k]].batch = k
  BY <1>1
<1>3. f \in [Batches -> DOMAIN rows]
  BY <1>2
<1>4. \A n \in Nat : IsFiniteSet(1..n) /\ Cardinality(1..n) = n
  <2> TAKE n \in Nat
  <2>1. 1 \in Int /\ n \in Int
    OBVIOUS
  <2>2. IsFiniteSet(1..n) /\ Cardinality(1..n) = IF 1 > n THEN 0 ELSE n - 1 + 1
    BY <2>1, FS_Interval, Zenon
  <2>3. QED
    BY <2>2
<1>5. IsFiniteSet(Batches) /\ Cardinality(Batches) = MaxEvents + 1
  BY <1>4, BoundsAssumption DEF Batches
<1>6. /\ IsFiniteSet(DOMAIN rows) /\ Cardinality(DOMAIN rows) = Len(rows)
      /\ Len(rows) \in Nat /\ Len(rows) <= MaxEvents
  <2>1. DOMAIN rows = 1..Len(rows) /\ Len(rows) \in Nat /\ Len(rows) <= MaxEvents
    BY RowsFacts
  <2>2. QED
    BY <1>4, <2>1, Zenon
<1>7. Cardinality(DOMAIN rows) < Cardinality(Batches)
  BY <1>5, <1>6, BoundsAssumption
<1> HIDE DEF f
<1>8. \E x, y \in Batches : x # y /\ f[x] = f[y]
  BY <1>3, <1>5, <1>6, <1>7, FS_PigeonHole
<1>9. QED
  BY <1>2, <1>8

\* Rows that are changed in place are rows.
LEMMA Remade ==
  ASSUME TablesOK, NEW g \in [DOMAIN rows -> Row]
  PROVE  g \in Seq(Row) /\ DOMAIN g = DOMAIN rows /\ Len(g) = Len(rows)
<1>1. g \in [1..Len(rows) -> Row] /\ Len(rows) \in Nat
  BY RowsFacts
<1>2. g \in Seq(Row)
  BY <1>1
<1>3. QED
  BY <1>1, <1>2

FailedRows(b) ==
  [e \in DOMAIN rows |-> IF e \in b THEN [rows[e] EXCEPT !.failed = TRUE] ELSE rows[e]]
\* What failing, tagging and sending leave of the rows.
LEMMA RowsFailed ==
  ASSUME TablesOK, NEW b, NEW g, g = FailedRows(b)
  PROVE  /\ g \in [DOMAIN rows -> Row]
         /\ \A e \in DOMAIN rows :
              /\ g[e].owner = rows[e].owner /\ g[e].kind = rows[e].kind
              /\ g[e].sent = rows[e].sent /\ g[e].batch = rows[e].batch
              /\ g[e].failed <=> rows[e].failed \/ e \in b
<1>1. g \in [DOMAIN rows -> Row]
  BY RowsFacts, RowFacts DEF FailedRows
<1>2. ASSUME NEW e \in DOMAIN rows
      PROVE  /\ g[e].owner = rows[e].owner /\ g[e].kind = rows[e].kind
             /\ g[e].sent = rows[e].sent /\ g[e].batch = rows[e].batch
             /\ g[e].failed <=> rows[e].failed \/ e \in b
  <2>1. rows[e] \in Row
    BY RowsFacts
  <2>2. g[e] = IF e \in b THEN [rows[e] EXCEPT !.failed = TRUE] ELSE rows[e]
    BY DEF FailedRows
  <2>3. QED
    BY <2>1, <2>2 DEF Row
<1>3. QED
  BY <1>1, <1>2

LEMMA RowsSent ==
  ASSUME TablesOK, NEW b, NEW g, g = Marked(b)
  PROVE  /\ g \in [DOMAIN rows -> Row]
         /\ \A e \in DOMAIN rows :
              /\ g[e].owner = rows[e].owner /\ g[e].kind = rows[e].kind
              /\ g[e].failed = rows[e].failed /\ g[e].batch = rows[e].batch
              /\ g[e].sent <=> rows[e].sent \/ e \in b
<1>1. g \in [DOMAIN rows -> Row]
  BY RowsFacts, RowFacts DEF Marked
<1>2. ASSUME NEW e \in DOMAIN rows
      PROVE  /\ g[e].owner = rows[e].owner /\ g[e].kind = rows[e].kind
             /\ g[e].failed = rows[e].failed /\ g[e].batch = rows[e].batch
             /\ g[e].sent <=> rows[e].sent \/ e \in b
  <2>1. rows[e] \in Row
    BY RowsFacts
  <2>2. g[e] = IF e \in b THEN [rows[e] EXCEPT !.sent = TRUE] ELSE rows[e]
    BY DEF Marked
  <2>3. QED
    BY <2>1, <2>2 DEF Row
<1>3. QED
  BY <1>1, <1>2

LEMMA RowsTagged ==
  ASSUME TablesOK, NEW b, NEW k \in Keys, NEW g, g = Tagged(b, k)
  PROVE  /\ g \in [DOMAIN rows -> Row]
         /\ \A e \in DOMAIN rows :
              /\ g[e].owner = rows[e].owner /\ g[e].kind = rows[e].kind
              /\ g[e].failed = rows[e].failed /\ g[e].sent = rows[e].sent
              /\ g[e].batch = IF e \in b THEN k ELSE rows[e].batch
<1>1. g \in [DOMAIN rows -> Row]
  BY RowsFacts, RowFacts DEF Tagged
<1>2. ASSUME NEW e \in DOMAIN rows
      PROVE  /\ g[e].owner = rows[e].owner /\ g[e].kind = rows[e].kind
             /\ g[e].failed = rows[e].failed /\ g[e].sent = rows[e].sent
             /\ g[e].batch = IF e \in b THEN k ELSE rows[e].batch
  <2>1. rows[e] \in Row
    BY RowsFacts
  <2>2. g[e] = IF e \in b THEN [rows[e] EXCEPT !.batch = k] ELSE rows[e]
    BY DEF Tagged
  <2>3. QED
    BY <2>1, <2>2 DEF Row
<1>3. QED
  BY <1>1, <1>2

LEMMA RowsAdded ==
  ASSUME TablesOK, Len(rows) < MaxEvents, NEW u \in Users,
         NEW k \in {"new_material", "review_due"},
         NEW g, g = Append(rows, Event(u, k, NoBatch))
  PROVE  /\ g \in Seq(Row) /\ Len(g) <= MaxEvents
         /\ DOMAIN g = DOMAIN rows \union {Len(g)} /\ Len(g) = Len(rows) + 1
         /\ \A e \in DOMAIN rows : g[e] = rows[e] /\ e < Len(g)
         /\ g[Len(g)] = Event(u, k, NoBatch)
<1>1. Event(u, k, NoBatch) \in Row
  <2>1. NoBatch \in Keys
    BY KeyFacts
  <2>2. QED
    BY <2>1, Zenon DEF Event, Row
<1>2. rows \in Seq(Row)
  BY DEF TablesOK
<1>3. /\ g \in Seq(Row) /\ Len(g) = Len(rows) + 1
      /\ \A i \in 1..Len(rows) : g[i] = rows[i]
      /\ g[Len(rows) + 1] = Event(u, k, NoBatch)
  BY <1>1, <1>2, AppendProperties
<1>4. DOMAIN g = 1..Len(g)
  BY <1>3, LenProperties
<1>5. QED
  BY <1>3, <1>4, RowsFacts, BoundsAssumption

LEMMA GroupsFacts ==
  ASSUME NEW I
  PROVE  /\ \A b \in Groups(I) : b # {} /\ b \subseteq I
         /\ \A a, b \in Groups(I) : a = b \/ a \intersect b = {}
         /\ \A b \in Groups(I), e \in I, d \in I :
              e \in b => /\ d \in b => read[d] = read[e]
                         /\ read[d] = read[e] /\ read[e] # NoBatch => d \in b
<1> DEFINE fresh == {e \in I : read[e] = NoBatch}
           place(d) == Rank(d, fresh) \div BatchSize
           old(e) == {d \in I : read[d] = read[e]}
           new(e) == {d \in fresh : place(d) = place(e)}
<1>1. Groups(I) = {old(e) : e \in I \ fresh} \union {new(e) : e \in fresh}
  BY Zenon DEF Groups
<1> HIDE DEF place
<1>2. \A b \in Groups(I) :
        (\E e \in I \ fresh : b = old(e)) \/ (\E e \in fresh : b = new(e))
  BY <1>1
<1>3. \A b \in Groups(I) : b # {} /\ b \subseteq I
  BY <1>2
<1>4. ASSUME NEW a \in Groups(I), NEW b \in Groups(I), NEW d \in a, d \in b
      PROVE  a = b
  <2>1. CASE d \in fresh
    <3>1. a = new(d) /\ b = new(d)
      BY <1>2, <1>4, <2>1
    <3>2. QED
      BY <3>1
  <2>2. CASE d \notin fresh
    <3>1. a = old(d) /\ b = old(d)
      BY <1>2, <1>4, <2>2
    <3>2. QED
      BY <3>1
  <2>3. QED
    BY <2>1, <2>2
<1>5. ASSUME NEW b \in Groups(I), NEW e \in I, NEW d \in I, e \in b
      PROVE  /\ d \in b => read[d] = read[e]
             /\ read[d] = read[e] /\ read[e] # NoBatch => d \in b
  BY <1>2, <1>5
<1>6. QED
  BY <1>3, <1>4, <1>5

-----------------------------------------------------------------------------
(* What a step does *)

\* Rows are only added, failed, sent and given other keys, and only a queued
\* event gets on its way.
Grows ==
  /\ DOMAIN rows \subseteq DOMAIN rows'
  /\ \A e \in DOMAIN rows :
       /\ rows'[e].owner = rows[e].owner /\ rows'[e].kind = rows[e].kind
       /\ rows[e].sent => rows'[e].sent
       /\ rows[e].failed => rows'[e].failed
       /\ InHand(e)' => InHand(e) \/ (Queued(e) /\ pc = "look")
  /\ \A e \in DOMAIN rows' \ DOMAIN rows :
       /\ rows'[e].batch = NoBatch /\ ~rows'[e].sent /\ ~rows'[e].failed
       /\ ~InHand(e)'

\* What each point of a job has in hand.
Shape ==
  /\ pc # "check" => todo = {} /\ items = {}
  /\ pc \in {"idle", "look", "check"} => pending = {}
  /\ pc \in {"idle", "look", "check", "send"} => hand = {}
  /\ pc \in {"request", "confirm"} => hand # {}
  /\ pc # "look" => remind = {}
  /\ todo \intersect items = {}

\* What a job is to mark sent was delivered.
Answered == pc = "confirm" => \A e \in hand : Mailed(e)

\* A job delivers only what it has in hand, and marks only that as sent.
Sends ==
  /\ accepted \subseteq accepted'
  /\ \A q \in accepted' \ accepted : q.events \subseteq hand
  /\ \A e \in DOMAIN rows : rows'[e].sent => rows[e].sent \/ (pc = "confirm" /\ e \in hand)

\* The events of b, and nothing else, become failed.
Failing(b) ==
  /\ rows' \in [DOMAIN rows -> Row]
  /\ \A e \in DOMAIN rows :
       /\ rows'[e].owner = rows[e].owner /\ rows'[e].kind = rows[e].kind
       /\ rows'[e].sent = rows[e].sent /\ rows'[e].batch = rows[e].batch
       /\ rows'[e].failed <=> rows[e].failed \/ e \in b

\* The keys of b, and of nothing else, become k.
Tagging(b, k) ==
  /\ rows' \in [DOMAIN rows -> Row]
  /\ \A e \in DOMAIN rows :
       /\ rows'[e].owner = rows[e].owner /\ rows'[e].kind = rows[e].kind
       /\ rows'[e].failed = rows[e].failed /\ rows'[e].sent = rows[e].sent
       /\ rows'[e].batch = IF e \in b THEN k ELSE rows[e].batch

\* An event is added.
Adding(u, k) == Len(rows) < MaxEvents /\ rows' = Append(rows, Event(u, k, NoBatch))

Free(k) == k \in Batches /\ \A d \in DOMAIN rows : rows[d].batch # k

LEMMA RoomFacts == TablesOK /\ Room => Len(rows) < MaxEvents
BY RowsFacts, BoundsAssumption DEF Room

LEMMA InHandFacts ==
  ASSUME JobOK, NEW e, InHand(e)
  PROVE  e \in DOMAIN rows
BY DEF JobOK, InHand

\* The oldest of the events to check is failed or kept.
LEMMA CheckFacts ==
  ASSUME TablesOK, JobOK, Check
  PROVE  \E e \in todo :
           /\ e \in DOMAIN rows
           /\ todo' = todo \ {e}
           /\ \/ items' = items /\ Failing({e}) /\ read' = read /\ cached' = {}
              \/ /\ items' = items \union {e} /\ rows' = rows
                 /\ read' = [read EXCEPT ![e] = Key(e)] /\ cached' = cached \union {e}
<1> DEFINE e == Oldest(todo)
<1>1. todo # {} /\ todo \subseteq DOMAIN rows
  BY DEF Check, JobOK
<1>2. e \in todo /\ e \in DOMAIN rows
  BY <1>1, OldestIn, RowsFacts
<1>3. todo' = todo \ {e}
  BY DEF Check
<1>4. \/ rows' = [rows EXCEPT ![e].failed = TRUE] /\ items' = items /\ read' = read /\ cached' = {}
      \/ /\ items' = items \union {e} /\ rows' = rows
         /\ read' = [read EXCEPT ![e] = Key(e)] /\ cached' = cached \union {e}
  BY DEF Check
<1> HIDE DEF e
<1>5. CASE /\ rows' = [rows EXCEPT ![e].failed = TRUE] /\ items' = items
           /\ read' = read /\ cached' = {}
  <2> DEFINE b == {e}
  <2>1. rows' = FailedRows(b)
    BY <1>2, <1>5, RowsFacts DEF FailedRows
  <2> HIDE DEF b
  <2>2. Failing(b)
    BY <2>1, RowsFailed DEF Failing
  <2>3. QED
    BY <1>2, <1>3, <1>5, <2>2 DEF b
<1>6. CASE /\ items' = items \union {e} /\ rows' = rows
           /\ read' = [read EXCEPT ![e] = Key(e)] /\ cached' = cached \union {e}
  BY <1>2, <1>3, <1>6
<1>7. QED
  BY <1>4, <1>5, <1>6

\* A batch that has no key may get one of its own when it is taken.
LEMMA TakeFacts ==
  ASSUME TablesOK, JobOK, NEW b \in pending, Take(b)
  PROVE  /\ b # {} /\ b \subseteq DOMAIN rows /\ Oldest(b) \in b
         /\ legacy' = (Key(Oldest(b)) = Legacy)
         /\ \/ /\ UNCHANGED <<rows, read, cached>>
               /\ ~(Cardinality(b) > 1 /\ Key(Oldest(b)) = NoBatch)
            \/ /\ Free(NewBatch) /\ Tagging(b, NewBatch) /\ Expire
               /\ Key(Oldest(b)) = NoBatch
<1>1. b # {} /\ b \subseteq DOMAIN rows
  BY DEF JobOK
<1>2. Oldest(b) \in b
  BY <1>1, OldestIn, RowsFacts
<1>3. ASSUME rows' = Tagged(b, NewBatch)
      PROVE  Free(NewBatch) /\ Tagging(b, NewBatch)
  <2>1. Free(NewBatch) /\ NewBatch \in Keys
    BY NewBatchFree, KeyFacts DEF Free
  <2>2. QED
    BY <1>3, <2>1, RowsTagged DEF Tagging
<1>4. QED
  BY <1>1, <1>2, <1>3 DEF Take

LEMMA RekeyFacts ==
  ASSUME TablesOK, Rekey
  PROVE  /\ Free(NewBatch) /\ Tagging(hand, NewBatch) /\ Expire
         /\ legacy /\ \E q \in accepted : q.legacy /\ q # Request
<1>1. Free(NewBatch) /\ NewBatch \in Keys
  BY NewBatchFree, KeyFacts DEF Free
<1>2. Tagging(hand, NewBatch)
  BY <1>1, RowsTagged DEF Tagging, Rekey
<1>3. QED
  BY <1>1, <1>2 DEF Rekey, Conflict

LEMMA RejectFacts ==
  ASSUME TablesOK, Reject
  PROVE  /\ \E e \in hand : rows[e].owner \in Refused
         /\ pc' = "send" /\ hand' = {} /\ legacy' = FALSE
         /\ \/ UNCHANGED <<rows, read, cached, pending>> /\ ~(Cardinality(hand) > 1)
            \/ /\ Cardinality(hand) > 1
               /\ Tagging(hand, NoBatch) /\ Expire
               /\ pending' = pending \union {{e} : e \in hand}
<1>1. CASE Cardinality(hand) > 1
  <2>1. rows' = Tagged(hand, NoBatch)
    BY <1>1 DEF Reject
  <2>2. Tagging(hand, NoBatch)
    BY <2>1, KeyFacts, RowsTagged DEF Tagging
  <2>3. QED
    BY <1>1, <2>2 DEF Reject, Invalid, Drop
<1>2. CASE ~(Cardinality(hand) > 1)
  BY <1>2 DEF Reject, Invalid, Drop
<1>3. QED
  BY <1>1, <1>2

\* What is remembered of a user is a reminder just delivered, or what it was.
LEMMA AcceptFacts ==
  ASSUME TablesOK, JobOK, Accept
  PROVE  /\ Request \in Requests /\ Request.events = hand /\ Request.site = body
         /\ Request.legacy = legacy
         /\ accepted' = accepted \union {Request}
         /\ DOMAIN recent' = Users
         /\ \A u \in Users :
              \/ recent'[u] = recent[u]
              \/ /\ recent'[u] \in hand /\ recent'[u] \in DOMAIN rows
                 /\ rows[recent'[u]].owner = u /\ rows[recent'[u]].kind = "review_due"
         /\ \/ pc' = "confirm" /\ UNCHANGED <<hand, legacy, upsets>>
            \/ /\ pc' = "send" /\ hand' = {} /\ legacy' = FALSE
               /\ upsets' = upsets + 1 /\ upsets < MaxUpsets
<1>1. Request = [legacy |-> legacy, events |-> hand, site |-> body]
  BY DEF Request
<1>2. Request \in Requests
  <2>1. legacy \in BOOLEAN /\ hand \in SUBSET Ids /\ body \in 0..MaxUpsets
    BY RowsFacts DEF JobOK
  <2>2. QED
    BY <1>1, <2>1, Zenon DEF Requests
<1>3. ASSUME NEW u \in Users
      PROVE  \/ recent'[u] = recent[u]
             \/ /\ recent'[u] \in hand /\ recent'[u] \in DOMAIN rows
                /\ rows[recent'[u]].owner = u /\ rows[recent'[u]].kind = "review_due"
  <2> DEFINE new == {e \in hand : rows[e].owner = u /\ rows[e].kind = "review_due"
                                    /\ Request \notin accepted}
  <2>1. recent'[u] = IF new = {} THEN recent[u] ELSE CHOOSE e \in new : \A d \in new : d <= e
    BY <1>3 DEF Accept
  <2>2. \A e \in new : /\ e \in hand /\ e \in DOMAIN rows
                       /\ rows[e].owner = u /\ rows[e].kind = "review_due"
    BY DEF JobOK
  <2>3. new \subseteq 0..Len(rows) /\ Len(rows) \in Nat
    BY <2>2, RowsFacts
  <2> HIDE DEF new
  <2>4. new # {} => recent'[u] \in new
    BY <2>1, <2>3, NewestIn
  <2>5. QED
    BY <2>1, <2>2, <2>4
<1>4. \/ pc' = "confirm" /\ UNCHANGED <<hand, legacy, upsets>>
      \/ /\ pc' = "send" /\ hand' = {} /\ legacy' = FALSE
         /\ upsets' = upsets + 1 /\ upsets < MaxUpsets
  BY DEF Accept, Upset, Drop
<1>5. QED
  BY <1>1, <1>2, <1>3, <1>4 DEF Accept

\* A step that keeps the domain of the rows keeps their type.
LEMMA RowsTyped ==
  ASSUME TablesOK, rows' \in [DOMAIN rows -> Row]
  PROVE  rows' \in Seq(Row) /\ DOMAIN rows' = DOMAIN rows /\ Len(rows') <= MaxEvents
BY Remade, RowsFacts

LEMMA AddingFacts ==
  ASSUME TablesOK, NEW u \in Users, NEW k \in {"new_material", "review_due"}, Adding(u, k)
  PROVE  /\ rows' \in Seq(Row) /\ Len(rows') <= MaxEvents
         /\ DOMAIN rows' = DOMAIN rows \union {Len(rows')} /\ Len(rows') = Len(rows) + 1
         /\ \A e \in DOMAIN rows : rows'[e] = rows[e] /\ e < Len(rows')
         /\ \A e \in DOMAIN rows' \ DOMAIN rows :
              /\ e = Len(rows') /\ rows'[e].owner = u /\ rows'[e].kind = k
              /\ rows'[e].batch = NoBatch /\ ~rows'[e].sent /\ ~rows'[e].failed
<1>1. /\ rows' \in Seq(Row) /\ Len(rows') <= MaxEvents
      /\ DOMAIN rows' = DOMAIN rows \union {Len(rows')} /\ Len(rows') = Len(rows) + 1
      /\ \A e \in DOMAIN rows : rows'[e] = rows[e] /\ e < Len(rows')
      /\ rows'[Len(rows')] = Event(u, k, NoBatch)
  BY RowsAdded DEF Adding
<1>2. QED
  BY <1>1 DEF Event

\* An addition that leaves a job's hands alone.
LEMMA AddingStep ==
  ASSUME TablesOK, JobOK, NEW u \in Users, NEW k \in {"new_material", "review_due"},
         Adding(u, k), UNCHANGED <<mailOn, recent, site, accepted, overtaken, upsets,
                                   pc, body, todo, items, pending, hand, read, cached, legacy>>,
         remind' \subseteq Users
  PROVE  TablesOK' /\ JobOK' /\ Grows /\ \A e \in DOMAIN rows : rows'[e] = rows[e]
<1>1. /\ rows' \in Seq(Row) /\ Len(rows') <= MaxEvents
      /\ DOMAIN rows' = DOMAIN rows \union {Len(rows')}
      /\ \A e \in DOMAIN rows : rows'[e] = rows[e]
      /\ \A e \in DOMAIN rows' \ DOMAIN rows :
           rows'[e].batch = NoBatch /\ ~rows'[e].sent /\ ~rows'[e].failed
  BY AddingFacts
<1>2. TablesOK'
  BY <1>1 DEF TablesOK
<1>3. JobOK'
  BY <1>1 DEF JobOK
<1>4. \A e : InHand(e)' <=> InHand(e)
  BY DEF InHand
<1>5. Grows
  BY <1>1, <1>4, InHandFacts DEF Grows
<1>6. QED
  BY <1>1, <1>2, <1>3, <1>5

\* A step that changes rows in place, and puts nothing new in a job's hands.
LEMMA InPlaceStep ==
  ASSUME TablesOK, rows' \in [DOMAIN rows -> Row],
         \A e \in DOMAIN rows :
           /\ rows'[e].owner = rows[e].owner /\ rows'[e].kind = rows[e].kind
           /\ rows[e].sent => rows'[e].sent
           /\ rows[e].failed => rows'[e].failed,
         mailOn' \in [Users -> BOOLEAN], recent' \in [Users -> {0} \union DOMAIN rows],
         UNCHANGED <<site, accepted>>, overtaken' \in BOOLEAN,
         upsets' = upsets \/ (upsets < MaxUpsets /\ upsets' = upsets + 1),
         \A e : InHand(e)' => InHand(e)
  PROVE  TablesOK' /\ DOMAIN rows' = DOMAIN rows /\ Grows
<1>1. rows' \in Seq(Row) /\ DOMAIN rows' = DOMAIN rows /\ Len(rows') <= MaxEvents
  BY RowsTyped
<1>2. upsets' \in 0..MaxUpsets /\ site' \in 0..upsets'
  BY BoundsAssumption DEF TablesOK
<1>3. TablesOK'
  BY <1>1, <1>2 DEF TablesOK
<1>4. QED
  BY <1>1, <1>3 DEF Grows

\* A session that holds no rows.
LEMMA NothingRead == DOMAIN <<>> = {} /\ <<>> \in [DOMAIN <<>> -> Keys]
<1>1. DOMAIN <<>> = {}
  OBVIOUS
<1>2. <<>> = [e \in {} |-> 0]
  OBVIOUS
<1>3. [e \in {} |-> 0] \in [{} -> Keys]
  OBVIOUS
<1>4. QED
  BY <1>1, <1>2, <1>3

\* Any step of a job.
LEMMA JobStep ==
  ASSUME TablesOK, JobOK, Shape, Answered, Go \/ Mishap
  PROVE  /\ TablesOK' /\ JobOK' /\ Shape' /\ Answered' /\ Grows /\ Sends
         /\ UNCHANGED <<mailOn, site, overtaken>>
<1> DEFINE Goal == /\ TablesOK' /\ JobOK' /\ Shape' /\ Answered' /\ Grows /\ Sends
                   /\ UNCHANGED <<mailOn, site, overtaken>>
<1>0. /\ mailOn \in [Users -> BOOLEAN] /\ recent \in [Users -> {0} \union DOMAIN rows]
      /\ overtaken \in BOOLEAN /\ rows \in [DOMAIN rows -> Row]
  BY RowsFacts DEF TablesOK
<1>1. ASSUME NEW u \in Users, Look(u)
      PROVE  Goal
  <2>1. /\ UNCHANGED <<mailOn, recent, rows, site, accepted, overtaken, upsets, pc, body, todo,
                       items, pending, hand, read, cached, legacy>>
        /\ remind' = {u} /\ pc = "look"
    BY <1>1 DEF Look, sharedVars
  <2>2. TablesOK' /\ Answered' /\ Grows /\ Sends
    BY <2>1 DEF TablesOK, Grows, Answered, Sends, InHand, Mailed
  <2>3. JobOK' /\ Shape'
    BY <2>1 DEF JobOK, Shape
  <2>4. QED
    BY <2>1, <2>2, <2>3
<1>2. ASSUME NEW u \in remind, Remind(u)
      PROVE  Goal
  <2>1. UNCHANGED <<mailOn, recent, site, accepted, overtaken, upsets,
                    pc, body, todo, items, pending, hand, read, cached, legacy>> /\ remind' = {}
    BY <1>2 DEF Remind
  <2>2. CASE UNCHANGED rows
    <3>1. TablesOK' /\ Answered' /\ Grows /\ Sends
      BY <2>1, <2>2 DEF TablesOK, Grows, Answered, Sends, InHand, Mailed
    <3>2. JobOK' /\ Shape'
      BY <2>1, <2>2 DEF JobOK, Shape
    <3>3. QED
      BY <2>1, <3>1, <3>2
  <2>3. CASE Adding(u, "review_due")
    <3>1. u \in Users
      BY DEF JobOK
    <3>2. TablesOK' /\ JobOK' /\ Grows /\ \A e \in DOMAIN rows : rows'[e] = rows[e]
      BY <2>1, <2>3, <3>1, AddingStep
    <3>3. Shape'
      BY <2>1 DEF Shape
    <3>4. Answered' /\ Sends
      BY <2>1, <3>2 DEF Answered, Sends, Mailed
    <3>5. QED
      BY <2>1, <3>2, <3>3, <3>4
  <2>4. QED
    BY <1>2, <2>2, <2>3, RoomFacts DEF Remind, Adding
<1>3. CASE Load
  <2>1. Waiting \subseteq DOMAIN rows /\ \A e \in DOMAIN rows : rows[e].batch \in Keys
    BY <1>0, RowFacts DEF Waiting
  <2>2. /\ pc = "look" /\ pc' = "check" /\ body' = site /\ todo' = Waiting /\ cached' = Waiting
        /\ read' = [e \in Waiting |-> rows[e].batch] /\ remind = {}
        /\ UNCHANGED <<mailOn, recent, rows, site, accepted, overtaken, upsets, remind, items,
                       pending, hand, legacy>>
    BY <1>3 DEF Load, sharedVars
  <2>3. DOMAIN read' = Waiting /\ read' \in [DOMAIN read' -> Keys]
    BY <2>1, <2>2
  <2>4. body' \in 0..MaxUpsets
    BY <2>2, BoundsAssumption DEF TablesOK
  <2>5. items = {} /\ pending = {} /\ hand = {}
    BY <2>2 DEF Shape
  <2>6. JobOK' /\ Shape'
    BY <2>1, <2>2, <2>3, <2>4, <2>5 DEF JobOK, Shape
  <2>7. TablesOK' /\ Answered' /\ Grows /\ Sends
    BY <2>2, <2>5 DEF TablesOK, Grows, Answered, Sends, InHand, Waiting, Mailed
  <2>8. QED
    BY <2>2, <2>6, <2>7
<1>4. CASE Check
  <2>1. PICK e \in todo :
          /\ e \in DOMAIN rows
          /\ todo' = todo \ {e}
          /\ \/ items' = items /\ Failing({e}) /\ read' = read /\ cached' = {}
             \/ /\ items' = items \union {e} /\ rows' = rows
                /\ read' = [read EXCEPT ![e] = Key(e)] /\ cached' = cached \union {e}
    BY <1>4, CheckFacts
  <2>2. UNCHANGED <<mailOn, recent, site, accepted, overtaken, upsets, pc, remind, body, pending,
                    hand, legacy>> /\ pc = "check"
    BY <1>4 DEF Check
  <2>3. /\ rows' \in [DOMAIN rows -> Row]
        /\ \A d \in DOMAIN rows :
             /\ rows'[d].owner = rows[d].owner /\ rows'[d].kind = rows[d].kind
             /\ rows'[d].sent = rows[d].sent
             /\ rows[d].failed => rows'[d].failed
    BY <1>0, <2>1 DEF Failing
  <2>4. \A d : InHand(d)' => InHand(d)
    BY <2>1, <2>2 DEF InHand
  <2>5. TablesOK' /\ DOMAIN rows' = DOMAIN rows /\ Grows
    BY <1>0, <2>2, <2>3, <2>4, InPlaceStep
  <2>6. /\ DOMAIN read' \subseteq DOMAIN rows /\ read' \in [DOMAIN read' -> Keys]
        /\ todo' \union items' \union cached' \subseteq DOMAIN read'
    <3>1. e \in DOMAIN read /\ read \in [DOMAIN read -> Keys] /\ DOMAIN read \subseteq DOMAIN rows
      BY <2>1 DEF JobOK
    <3>2. Key(e) \in Keys
      BY <1>0, <2>1, <3>1, RowFacts DEF Key
    <3>3. DOMAIN read' = DOMAIN read /\ read' \in [DOMAIN read -> Keys]
      BY <2>1, <3>1, <3>2
    <3>4. QED
      BY <2>1, <3>1, <3>3 DEF JobOK
  <2>7. JobOK' /\ Shape'
    BY <2>1, <2>2, <2>5, <2>6 DEF JobOK, Shape
  <2>8. Answered' /\ Sends
    BY <2>2, <2>3 DEF Answered, Sends, Mailed
  <2>9. QED
    BY <2>2, <2>5, <2>7, <2>8
<1>5. CASE Plan
  <2>1. /\ UNCHANGED <<mailOn, recent, rows, site, accepted, overtaken, upsets, remind, body,
                       todo, hand, cached, legacy>>
        /\ pc = "check" /\ pc' = "send" /\ todo = {} /\ pending' = Groups(items) /\ items' = {}
        /\ read' = [e \in cached |-> read[e]]
    BY <1>5 DEF Plan, sharedVars
  <2>2. {} \notin pending' /\ UNION pending' \subseteq items
    BY <2>1, GroupsFacts
  <2>3. DOMAIN read' = cached /\ read' \in [cached -> Keys]
    BY <2>1 DEF JobOK
  <2>4. JobOK' /\ Shape'
    BY <2>1, <2>2, <2>3 DEF JobOK, Shape
  <2>5. TablesOK' /\ Answered' /\ Grows /\ Sends
    BY <2>1, <2>2 DEF TablesOK, Grows, Answered, Sends, InHand, Mailed
  <2>6. QED
    BY <2>1, <2>4, <2>5
<1>6. ASSUME NEW b \in pending, Take(b)
      PROVE  Goal
  <2>1. /\ UNCHANGED <<mailOn, recent, site, accepted, overtaken, upsets, remind, body, todo,
                       items>>
        /\ pc = "send" /\ pc' = "request" /\ pending' = pending \ {b} /\ hand' = b
    BY <1>6 DEF Take
  <2>2. /\ b # {} /\ legacy' \in BOOLEAN
        /\ \/ UNCHANGED <<rows, read, cached>>
           \/ Tagging(b, NewBatch) /\ Expire
    BY <1>6, TakeFacts
  <2>3. /\ rows' \in [DOMAIN rows -> Row]
        /\ \A d \in DOMAIN rows :
             /\ rows'[d].owner = rows[d].owner /\ rows'[d].kind = rows[d].kind
             /\ rows'[d].sent = rows[d].sent /\ rows'[d].failed = rows[d].failed
    BY <1>0, <2>2 DEF Tagging
  <2>4. \A d : InHand(d)' => InHand(d)
    BY <2>1 DEF InHand
  <2>5. TablesOK' /\ DOMAIN rows' = DOMAIN rows /\ Grows
    BY <1>0, <2>1, <2>3, <2>4, InPlaceStep
  <2>6. todo = {} /\ items = {}
    BY <2>1 DEF Shape
  <2>7. JobOK' /\ Shape'
    BY <2>1, <2>2, <2>5, <2>6, NothingRead DEF JobOK, Shape, Expire
  <2>8. Answered' /\ Sends
    BY <2>1, <2>3 DEF Answered, Sends, Mailed
  <2>9. QED
    BY <2>1, <2>5, <2>7, <2>8
<1>7. CASE Accept
  <2>1. /\ UNCHANGED <<mailOn, rows, site, overtaken, remind, body, todo, items, pending, read,
                       cached>> /\ pc = "request"
    BY <1>7 DEF Accept
  <2>2. PICK r \in Requests : /\ r.events = hand /\ accepted' = accepted \union {r}
    BY <1>7, AcceptFacts
  <2>3. \/ pc' = "confirm" /\ UNCHANGED <<hand, legacy, upsets>>
        \/ /\ pc' = "send" /\ hand' = {} /\ legacy' = FALSE
           /\ upsets' = upsets + 1 /\ upsets < MaxUpsets
    BY <1>7, AcceptFacts
  <2>4. recent' \in [Users -> {0} \union DOMAIN rows]
    <3>1. recent' = [u \in Users |-> recent'[u]]
      BY <1>7 DEF Accept
    <3>2. \A u \in Users : recent'[u] \in {0} \union DOMAIN rows
      BY <1>0, <1>7, AcceptFacts
    <3>3. QED
      BY <3>1, <3>2
  <2>5. TablesOK'
    <3>1. upsets' \in 0..MaxUpsets /\ site' \in 0..upsets'
      BY <2>1, <2>3, BoundsAssumption DEF TablesOK
    <3>2. QED
      BY <2>1, <2>2, <2>4, <3>1 DEF TablesOK
  <2>6. JobOK' /\ Shape'
    BY <2>1, <2>3 DEF JobOK, Shape
  <2>7. Answered' /\ Grows /\ Sends
    BY <2>1, <2>2, <2>3 DEF Grows, Answered, Sends, InHand, Mailed
  <2>8. QED
    BY <2>1, <2>5, <2>6, <2>7
<1>8. CASE Rekey
  <2>1. /\ UNCHANGED <<mailOn, recent, site, accepted, overtaken, upsets,
                       pc, remind, body, todo, items, pending, hand>>
        /\ pc = "request" /\ legacy' = FALSE /\ Tagging(hand, NewBatch) /\ Expire
    BY <1>8, RekeyFacts DEF Rekey
  <2>2. \A d : InHand(d)' => InHand(d)
    BY <2>1 DEF InHand
  <2>3. TablesOK' /\ DOMAIN rows' = DOMAIN rows /\ Grows
    BY <1>0, <2>1, <2>2, InPlaceStep DEF Tagging
  <2>4. JobOK' /\ Shape'
    BY <2>1, <2>3, NothingRead DEF JobOK, Shape, Expire
  <2>5. Answered' /\ Sends
    BY <2>1 DEF Answered, Sends, Tagging, Mailed
  <2>6. QED
    BY <2>1, <2>3, <2>4, <2>5
<1>9. CASE Reject
  <2>1. /\ UNCHANGED <<mailOn, recent, site, accepted, overtaken, upsets, remind, body, todo,
                       items>>
        /\ pc = "request" /\ pc' = "send" /\ hand' = {} /\ legacy' = FALSE
    BY <1>9, RejectFacts DEF Reject
  <2>2. \/ UNCHANGED <<rows, read, cached, pending>>
        \/ /\ Tagging(hand, NoBatch) /\ Expire
           /\ pending' = pending \union {{e} : e \in hand}
    BY <1>9, RejectFacts
  <2>3. /\ rows' \in [DOMAIN rows -> Row]
        /\ \A d \in DOMAIN rows :
             /\ rows'[d].owner = rows[d].owner /\ rows'[d].kind = rows[d].kind
             /\ rows'[d].sent = rows[d].sent /\ rows'[d].failed = rows[d].failed
    BY <1>0, <2>2 DEF Tagging
  <2>4. {} \notin pending' /\ UNION pending' \subseteq (UNION pending) \union hand
    BY <2>2 DEF JobOK
  <2>5. \A d : InHand(d)' => InHand(d)
    BY <2>1, <2>4 DEF InHand
  <2>6. TablesOK' /\ DOMAIN rows' = DOMAIN rows /\ Grows
    BY <1>0, <2>1, <2>3, <2>5, InPlaceStep
  <2>7. todo = {} /\ items = {}
    BY <2>1 DEF Shape
  <2>8. JobOK' /\ Shape'
    BY <2>1, <2>2, <2>4, <2>6, <2>7, NothingRead DEF JobOK, Shape, Expire
  <2>9. Answered' /\ Sends
    BY <2>1, <2>3 DEF Answered, Sends, Mailed
  <2>10. QED
    BY <2>1, <2>6, <2>8, <2>9
<1>10. CASE Confirm
  <2>1. /\ UNCHANGED <<mailOn, recent, site, accepted, overtaken, upsets, remind, body, todo,
                       items, pending>>
        /\ pc = "confirm" /\ pc' = "send" /\ hand' = {} /\ legacy' = FALSE
        /\ rows' = Marked(hand) /\ Expire
    BY <1>10 DEF Confirm, Drop
  <2>2. /\ rows' \in [DOMAIN rows -> Row]
        /\ \A d \in DOMAIN rows :
             /\ rows'[d].owner = rows[d].owner /\ rows'[d].kind = rows[d].kind
             /\ rows'[d].sent <=> rows[d].sent \/ d \in hand
             /\ rows'[d].failed = rows[d].failed
    BY <2>1, RowsSent
  <2>3. \A d : InHand(d)' => InHand(d)
    BY <2>1 DEF InHand
  <2>4. TablesOK' /\ DOMAIN rows' = DOMAIN rows /\ Grows
    BY <1>0, <2>1, <2>2, <2>3, InPlaceStep
  <2>5. JobOK' /\ Shape'
    BY <2>1, <2>4, NothingRead DEF JobOK, Shape, Expire
  <2>6. Answered' /\ Sends
    BY <2>1, <2>2 DEF Answered, Sends, Mailed
  <2>7. QED
    BY <2>1, <2>4, <2>5, <2>6
<1>11. CASE EndPass \/ Crash
  <2>1. /\ UNCHANGED <<mailOn, recent, rows, site, accepted, overtaken>> /\ pc' = "idle"
        /\ remind' = {} /\ body' = 0 /\ todo' = {} /\ items' = {} /\ pending' = {} /\ hand' = {}
        /\ read' = <<>> /\ cached' = {} /\ legacy' = FALSE
        /\ upsets' = upsets \/ (upsets < MaxUpsets /\ upsets' = upsets + 1)
    BY <1>11 DEF EndPass, Crash, Leave, Upset
  <2>2. \A d : InHand(d)' => InHand(d)
    BY <2>1 DEF InHand
  <2>3. TablesOK' /\ Grows
    BY <1>0, <2>1, <2>2, InPlaceStep
  <2>4. JobOK' /\ Shape'
    <3>1. read' \in [DOMAIN read' -> Keys] /\ DOMAIN read' = {}
      BY <2>1, NothingRead
    <3>2. body' \in 0..MaxUpsets /\ UNION pending' = {}
      BY <2>1, BoundsAssumption
    <3>3. JobOK'
      BY <2>1, <3>1, <3>2 DEF JobOK
    <3>4. QED
      BY <2>1, <3>3 DEF Shape
  <2>5. QED
    BY <2>1, <2>3, <2>4 DEF Answered, Sends, Mailed
<1>12. CASE Fail
  <2>1. /\ UNCHANGED <<mailOn, recent, rows, site, accepted, overtaken, remind, body, todo, items,
                       read, cached>>
        /\ pc = "request" /\ pc' = "send" /\ hand' = {} /\ legacy' = FALSE
        /\ pending' \in {pending, {}}
        /\ upsets < MaxUpsets /\ upsets' = upsets + 1
    BY <1>12 DEF Fail, Drop, Upset
  <2>2. \A d : InHand(d)' => InHand(d)
    BY <2>1 DEF InHand
  <2>3. TablesOK' /\ Grows
    BY <1>0, <2>1, <2>2, InPlaceStep
  <2>4. JobOK' /\ Shape'
    BY <2>1 DEF JobOK, Shape
  <2>5. QED
    BY <2>1, <2>3, <2>4 DEF Answered, Sends, Mailed
<1>13. QED
  BY <1>1, <1>2, <1>3, <1>4, <1>5, <1>6, <1>7, <1>8, <1>9, <1>10, <1>11, <1>12 DEF Go, Mishap
=============================================================================
