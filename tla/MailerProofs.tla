------------------------------ MODULE MailerProofs ------------------------------
(***************************************************************************)
(* The invariants and the step properties of Mailer, for every set of      *)
(* users and every bound.                                                  *)
(***************************************************************************)
EXTENDS Mailer, MailPassProofs

\* The lemmas about a job, for the job left behind.
Other == INSTANCE MailPassProofs
  WITH pc <- pcB, remind <- remindB, body <- bodyB, todo <- todoB, items <- itemsB,
       pending <- pendingB, hand <- handB, read <- readB, cached <- cachedB, legacy <- legacyB

\* What waited when its user said no is settled and on nobody's way.
Off == \A e \in barred : ~Queued(e) /\ ~OnItsWay(e)

\* What holds whether or not a job was overtaken.
Ever ==
  /\ TypeOK
  /\ Shape /\ Other!Shape
  /\ Answered /\ Other!Answered
  /\ SentWasMailed /\ Off

-----------------------------------------------------------------------------
(* Any step *)

\* The job left behind is a job.
LEMMA BehindIsJob ==
  /\ Behind!Go \/ Behind!Mishap => Other!Go \/ Other!Mishap
  /\ (Behind!JobOK <=> Other!JobOK) /\ (Behind!JobOK' <=> Other!JobOK')
  /\ TablesOK <=> Other!TablesOK
  /\ \A e : /\ Behind!InHand(e) <=> Other!InHand(e)
            /\ Behind!InHand(e)' <=> Other!InHand(e)'
            /\ Mailed(e) <=> Other!Mailed(e)
<1>1. Behind!Go \/ Behind!Mishap => Other!Go \/ Other!Mishap
  BY DEF Behind!Go, Other!Go, Behind!Look, Other!Look, Behind!Remindable, Other!Remindable,
         Behind!Reminders, Other!Reminders, Behind!Room, Other!Room, Behind!sharedVars,
         Other!sharedVars, Behind!Remind, Other!Remind, Behind!Event, Other!Event,
         Behind!NoBatch, Other!NoBatch, Behind!Load, Other!Load, Behind!Waiting, Other!Waiting,
         Behind!Queued, Other!Queued, Behind!Check, Other!Check, Behind!Oldest, Other!Oldest,
         Behind!Undeliverable, Other!Undeliverable, Behind!Key, Other!Key, Behind!Plan,
         Other!Plan, Behind!Groups, Other!Groups, Behind!Rank, Other!Rank, Behind!Cardinality,
         Other!Cardinality, Behind!Take, Other!Take, Behind!Legacy, Other!Legacy, Behind!Tagged,
         Other!Tagged, Behind!NewBatch, Other!NewBatch, Behind!Batches, Other!Batches,
         Behind!Expire, Other!Expire, Behind!Accept, Other!Accept, Behind!Conflict,
         Other!Conflict, Behind!Request, Other!Request, Behind!Invalid, Other!Invalid,
         Behind!Upset, Other!Upset, Behind!Drop, Other!Drop, Behind!Rekey, Other!Rekey,
         Behind!Reject, Other!Reject, Behind!Confirm, Other!Confirm, Behind!Marked,
         Other!Marked, Behind!EndPass, Other!EndPass, Behind!Leave, Other!Leave, Behind!Mishap,
         Other!Mishap, Behind!Fail, Other!Fail, Behind!Crash, Other!Crash
<1>2. (Behind!JobOK <=> Other!JobOK) /\ (Behind!JobOK' <=> Other!JobOK')
  BY DEF Behind!JobOK, Other!JobOK, Behind!Keys, Other!Keys, Behind!NoBatch, Other!NoBatch
<1>3. TablesOK <=> Other!TablesOK
  BY DEF TablesOK, Other!TablesOK, Row, Other!Row, Keys, Other!Keys, NoBatch, Other!NoBatch,
         Requests, Other!Requests, Ids, Other!Ids
<1>4. \A e : /\ Behind!InHand(e) <=> Other!InHand(e)
             /\ Behind!InHand(e)' <=> Other!InHand(e)'
             /\ Mailed(e) <=> Other!Mailed(e)
  BY DEF Behind!InHand, Other!InHand, Mailed, Other!Mailed
<1>5. QED
  BY <1>1, <1>2, <1>3, <1>4

\* What a step of the job left behind does to the tables.
LEMMA BehindStep ==
  ASSUME TypeOK, Other!Shape, Other!Answered, Behind!Go \/ Behind!Mishap
  PROVE  /\ TablesOK' /\ Behind!JobOK' /\ Other!Shape' /\ Other!Answered'
         /\ UNCHANGED <<mailOn, site, overtaken>>
         /\ DOMAIN rows \subseteq DOMAIN rows'
         /\ \A e \in DOMAIN rows :
              /\ rows[e].sent => rows'[e].sent
              /\ rows[e].failed => rows'[e].failed
              /\ Behind!InHand(e)' => Behind!InHand(e) \/ Queued(e)
              /\ rows'[e].sent => rows[e].sent \/ (pcB = "confirm" /\ e \in handB)
         /\ \A e \in DOMAIN rows' \ DOMAIN rows : ~rows'[e].sent
         /\ accepted \subseteq accepted'
         /\ \A q \in accepted' \ accepted : q.events \subseteq handB
<1>1. Other!TablesOK /\ Other!JobOK /\ (Other!Go \/ Other!Mishap)
  BY BehindIsJob DEF TypeOK
<1>2. /\ Other!TablesOK' /\ Other!JobOK' /\ Other!Shape' /\ Other!Answered'
      /\ Other!Grows /\ Other!Sends /\ UNCHANGED <<mailOn, site, overtaken>>
  BY <1>1, UsersAssumption, BoundsAssumption, Other!JobStep
<1>3. TablesOK'
  BY <1>2
  DEF TablesOK, Other!TablesOK, Row, Other!Row, Keys, Other!Keys, NoBatch, Other!NoBatch,
      Requests, Other!Requests, Ids, Other!Ids
<1>4. Behind!JobOK'
  BY <1>2, BehindIsJob
<1>5. \A e \in DOMAIN rows : Behind!InHand(e)' => Behind!InHand(e) \/ Queued(e)
  BY <1>2, BehindIsJob DEF Other!Grows, Queued, Other!Queued
<1>6. QED
  BY <1>2, <1>3, <1>4, <1>5 DEF Other!Grows, Other!Sends

\* Opting out fails what waits for the user, and bars what is on no job's way.
LEMMA SwitchFacts ==
  ASSUME TypeOK, NEW u \in Users, ChangeMind(u)
  PROVE  /\ UNCHANGED <<recent, site, accepted, overtaken, jobVars, behindVars>>
         /\ mailOn' \in [Users -> BOOLEAN]
         /\ upsets < MaxUpsets /\ upsets' = upsets + 1
         /\ \/ /\ Failing({e \in Waiting : rows[e].owner = u})
               /\ barred' = barred \union {e \in Waiting : rows[e].owner = u /\ ~OnItsWay(e)}
            \/ rows' = rows /\ barred' = barred
<1>1. PICK on \in BOOLEAN : Switch(u, on)
  BY DEF ChangeMind, OptOut, OptIn
<1>2. /\ UNCHANGED <<recent, site, accepted, overtaken, jobVars, behindVars>>
      /\ mailOn' \in [Users -> BOOLEAN]
      /\ upsets < MaxUpsets /\ upsets' = upsets + 1
  BY <1>1 DEF Switch, Upset, TypeOK, TablesOK
<1>3. CASE OptOut(u)
  <2> DEFINE b == {e \in Waiting : rows[e].owner = u}
  <2>1. barred' = barred \union {e \in Waiting : rows[e].owner = u /\ ~OnItsWay(e)}
    BY <1>3 DEF OptOut, Switch
  <2>2. rows' = FailedRows(b)
    BY <1>3 DEF OptOut, FailedRows
  <2> HIDE DEF b
  <2>3. Failing(b)
    BY <2>2, RowsFailed DEF Failing, TypeOK
  <2>4. QED
    BY <1>2, <2>1, <2>3 DEF b
<1>4. CASE OptIn(u)
  <2>1. rows' = rows /\ barred' = barred
    BY <1>4 DEF OptIn, Switch
  <2>2. QED
    BY <1>2, <2>1
<1>5. QED
  BY <1>3, <1>4 DEF ChangeMind

\* The steps of users and deployments, and of nobody.
UserNext ==
  \/ \E u \in Users : NewMaterial(u) \/ CooldownEnds(u) \/ ChangeMind(u)
  \/ Move
  \/ UNCHANGED vars

LEMMA UserStep ==
  ASSUME Ever, UserNext
  PROVE  /\ TablesOK' /\ JobOK' /\ Behind!JobOK'
         /\ Grows
         /\ UNCHANGED <<accepted, overtaken, jobVars, behindVars>>
         /\ \A e \in DOMAIN rows :
              rows'[e].sent = rows[e].sent /\ rows'[e].batch = rows[e].batch
<1> USE DEF Ever, TypeOK
<1> DEFINE Goal == /\ TablesOK' /\ DOMAIN rows \subseteq DOMAIN rows' /\ Grows
                   /\ UNCHANGED <<accepted, overtaken, jobVars, behindVars>>
                   /\ \A e \in DOMAIN rows :
                        rows'[e].sent = rows[e].sent /\ rows'[e].batch = rows[e].batch
<1>0. /\ mailOn \in [Users -> BOOLEAN] /\ recent \in [Users -> {0} \union DOMAIN rows]
      /\ overtaken \in BOOLEAN /\ rows \in [DOMAIN rows -> Row]
  BY RowsFacts DEF TablesOK
<1>1. ASSUME NEW u \in Users, NewMaterial(u)
      PROVE  Goal
  <2>1. /\ UNCHANGED <<mailOn, recent, site, accepted, overtaken, upsets, jobVars, behindVars>>
        /\ Adding(u, "new_material")
    BY <1>1, RoomFacts DEF NewMaterial, Adding
  <2>2. UNCHANGED <<pc, remind, body, todo, items, pending, hand, read, cached, legacy>>
    BY <2>1 DEF jobVars
  <2>3. remind' \subseteq Users
    BY <2>2 DEF JobOK
  <2>4. TablesOK' /\ Grows /\ \A e \in DOMAIN rows : rows'[e] = rows[e]
    BY <2>1, <2>2, <2>3, AddingStep
  <2>5. QED
    BY <2>1, <2>4 DEF Grows
<1>2. ASSUME NEW u \in Users, CooldownEnds(u)
      PROVE  Goal
  <2>1. /\ UNCHANGED <<mailOn, rows, site, accepted, overtaken, upsets, jobVars, behindVars>>
        /\ recent' = [recent EXCEPT ![u] = 0]
    BY <1>2 DEF CooldownEnds
  <2>2. \A e : InHand(e)' <=> InHand(e)
    BY <2>1 DEF InHand, jobVars
  <2>3. TablesOK'
    BY <1>0, <2>1 DEF TablesOK
  <2>4. QED
    BY <2>1, <2>2, <2>3 DEF Grows
<1>3. ASSUME NEW u \in Users, ChangeMind(u)
      PROVE  Goal
  <2>1. /\ UNCHANGED <<recent, site, accepted, overtaken, jobVars, behindVars>>
        /\ mailOn' \in [Users -> BOOLEAN]
        /\ upsets < MaxUpsets /\ upsets' = upsets + 1
        /\ rows' = rows \/ \E b : Failing(b)
    BY <1>3, SwitchFacts
  <2>2. /\ rows' \in [DOMAIN rows -> Row]
        /\ \A e \in DOMAIN rows :
             /\ rows'[e].owner = rows[e].owner /\ rows'[e].kind = rows[e].kind
             /\ rows'[e].sent = rows[e].sent /\ rows'[e].batch = rows[e].batch
             /\ rows[e].failed => rows'[e].failed
    BY <1>0, <2>1 DEF Failing
  <2>3. \A e : InHand(e)' => InHand(e)
    BY <2>1 DEF InHand, jobVars
  <2>4. TablesOK' /\ DOMAIN rows' = DOMAIN rows /\ Grows
    BY <1>0, <2>1, <2>2, <2>3, InPlaceStep
  <2>5. QED
    BY <2>1, <2>2, <2>4
<1>4. ASSUME Move
      PROVE  Goal
  <2>1. /\ UNCHANGED <<mailOn, recent, rows, accepted, overtaken, jobVars, behindVars>>
        /\ site' = site + 1 /\ upsets < MaxUpsets /\ upsets' = upsets + 1
    BY <1>4 DEF Move, Upset
  <2>2. site' \in 0..upsets' /\ upsets' \in 0..MaxUpsets
    BY <2>1, BoundsAssumption DEF TablesOK
  <2>3. TablesOK'
    BY <2>1, <2>2 DEF TablesOK
  <2>4. \A e : InHand(e)' <=> InHand(e)
    BY <2>1 DEF InHand, jobVars
  <2>5. QED
    BY <2>1, <2>3, <2>4 DEF Grows
<1>5. ASSUME UNCHANGED vars
      PROVE  Goal
  BY <1>5 DEF vars, sharedVars, jobVars, TablesOK, Grows, InHand
<1>6. Goal
  BY <1>1, <1>2, <1>3, <1>4, <1>5 DEF UserNext
<1>7. JobOK' /\ Behind!JobOK'
  BY <1>6 DEF jobVars, behindVars, JobOK, Behind!JobOK
<1>8. QED
  BY <1>6, <1>7

\* A step leaves what was barred settled and on nobody's way.
LEMMA OffStays ==
  ASSUME Ever, NEW e \in barred, rows[e].sent => rows'[e].sent, rows[e].failed => rows'[e].failed,
         InHand(e)' => InHand(e) \/ Queued(e),
         Behind!InHand(e)' => Behind!InHand(e) \/ Queued(e)
  PROVE  ~Queued(e)' /\ ~OnItsWay(e)'
BY DEF Ever, Off, OnItsWay, Queued

LEMMA UserEver ==
  ASSUME Ever, UserNext
  PROVE  Ever'
<1> USE DEF Ever
<1>1. /\ TablesOK' /\ JobOK' /\ Behind!JobOK' /\ Grows
      /\ UNCHANGED <<accepted, overtaken, jobVars, behindVars>>
      /\ \A e \in DOMAIN rows : rows'[e].sent = rows[e].sent
  BY UserStep
<1>2. /\ Shape' /\ Other!Shape' /\ Answered' /\ Other!Answered'
      /\ \A e : Mailed(e)' <=> Mailed(e)
      /\ \A e : InHand(e)' <=> InHand(e)
      /\ \A e : Behind!InHand(e)' <=> Behind!InHand(e)
  BY <1>1 DEF jobVars, behindVars, Shape, Other!Shape, Answered, Other!Answered, Mailed,
     Other!Mailed, InHand, Behind!InHand
<1>3. SentWasMailed'
  BY <1>1, <1>2 DEF SentWasMailed, Grows
<1>4. \A e \in barred : e \in DOMAIN rows /\ ~Queued(e)' /\ ~OnItsWay(e)'
  BY <1>1, <1>2, OffStays DEF TypeOK, Grows
<1>5. CASE barred' = barred
  BY <1>1, <1>2, <1>3, <1>4, <1>5 DEF TypeOK, Off, Grows
<1>6. ASSUME NEW u \in Users, ChangeMind(u), barred' # barred
      PROVE  Ever'
  <2>1. /\ Failing({e \in Waiting : rows[e].owner = u})
        /\ barred' = barred \union {e \in Waiting : rows[e].owner = u /\ ~OnItsWay(e)}
    BY <1>6, SwitchFacts
  <2>2. ASSUME NEW e \in Waiting, rows[e].owner = u, ~OnItsWay(e)
        PROVE  e \in DOMAIN rows /\ ~Queued(e)' /\ ~OnItsWay(e)'
    <3>1. e \in DOMAIN rows /\ rows'[e].failed
      BY <2>1, <2>2 DEF Failing, Waiting
    <3>2. QED
      BY <1>2, <2>2, <3>1 DEF Queued, OnItsWay
  <2>3. Off' /\ barred' \subseteq DOMAIN rows
    BY <1>4, <2>1, <2>2 DEF Off
  <2>4. QED
    BY <1>1, <1>2, <1>3, <2>3 DEF TypeOK, Grows
<1>7. barred' = barred \/ \E u \in Users : ChangeMind(u)
  BY Zenon DEF UserNext, NewMaterial, CooldownEnds, Move, vars
<1>8. QED
  BY <1>5, <1>6, <1>7

\* The job of the queue takes a step.
LEMMA PassEver ==
  ASSUME Ever, Go \/ Mishap, UNCHANGED <<behindVars, barred>>
  PROVE  Ever'
<1> USE DEF Ever
<1>1. /\ TablesOK' /\ JobOK' /\ Shape' /\ Answered' /\ Grows /\ Sends
  BY JobStep DEF TypeOK
<1>2. /\ \A e : Mailed(e) => Mailed(e)'
      /\ \A e : Behind!InHand(e)' <=> Behind!InHand(e)
  BY <1>1 DEF Sends, Mailed, behindVars, Behind!InHand
<1>3. Behind!JobOK'
  BY <1>1 DEF Grows, TypeOK, behindVars, Behind!JobOK
<1>4. Other!Shape' /\ Other!Answered'
  BY <1>1 DEF Sends, behindVars, Other!Shape, Other!Answered, Other!Mailed
<1>5. SentWasMailed'
  BY <1>1, <1>2 DEF SentWasMailed, Sends, Grows, Answered
<1>6. \A e \in barred : ~Queued(e)' /\ ~OnItsWay(e)'
  BY <1>1, <1>2, OffStays DEF TypeOK, Grows
<1>7. QED
  BY <1>1, <1>3, <1>4, <1>5, <1>6 DEF TypeOK, Off, Grows

\* The job left behind takes a step.
LEMMA BehindEver ==
  ASSUME Ever, Behind!Go \/ Behind!Mishap, UNCHANGED <<jobVars, barred>>
  PROVE  Ever'
<1> USE DEF Ever
<1>1. /\ TablesOK' /\ Behind!JobOK' /\ Other!Shape' /\ Other!Answered'
      /\ DOMAIN rows \subseteq DOMAIN rows'
      /\ \A e \in DOMAIN rows :
           /\ rows[e].sent => rows'[e].sent
           /\ rows[e].failed => rows'[e].failed
           /\ Behind!InHand(e)' => Behind!InHand(e) \/ Queued(e)
           /\ rows'[e].sent => rows[e].sent \/ (pcB = "confirm" /\ e \in handB)
      /\ \A e \in DOMAIN rows' \ DOMAIN rows : ~rows'[e].sent
      /\ accepted \subseteq accepted'
  BY BehindStep
<1>2. /\ \A e : Mailed(e) => Mailed(e)'
      /\ \A e : InHand(e)' <=> InHand(e)
      /\ pcB = "confirm" => \A e \in handB : Mailed(e)
  BY <1>1 DEF Mailed, jobVars, InHand, Other!Answered, Other!Mailed
<1>3. JobOK'
  BY <1>1 DEF TypeOK, jobVars, JobOK
<1>4. Shape' /\ Answered'
  BY <1>2 DEF jobVars, Shape, Answered
<1>5. SentWasMailed'
  BY <1>1, <1>2 DEF SentWasMailed
<1>6. \A e \in barred : ~Queued(e)' /\ ~OnItsWay(e)'
  BY <1>1, <1>2, OffStays DEF TypeOK
<1>7. QED
  BY <1>1, <1>3, <1>4, <1>5, <1>6 DEF TypeOK, Off

\* A job is overtaken: it is left behind as it is, and a job that has nothing
\* is in its place.
LEMMA OvertakeEver ==
  ASSUME Ever, Overtake
  PROVE  Ever'
<1> USE DEF Ever
<1>1. /\ pcB' = pc /\ remindB' = remind /\ bodyB' = body /\ todoB' = todo /\ itemsB' = items
      /\ pendingB' = pending /\ handB' = hand /\ readB' = read /\ cachedB' = cached
      /\ legacyB' = legacy
      /\ UNCHANGED <<mailOn, recent, rows, site, accepted, barred>> /\ overtaken' = TRUE
      /\ upsets < MaxUpsets /\ upsets' = upsets + 1
      /\ pcB = "idle"
  BY DEF Overtake, Leave, Upset
<1>2. /\ pc' = "idle" /\ remind' = {} /\ body' = 0
      /\ todo' = {} /\ items' = {} /\ pending' = {} /\ hand' = {}
      /\ read' = <<>> /\ cached' = {} /\ legacy' = FALSE
  BY DEF Overtake, Leave
<1>3. TablesOK'
  <2>1. upsets' \in 0..MaxUpsets /\ site' \in 0..upsets'
    BY <1>1, BoundsAssumption DEF TypeOK, TablesOK
  <2>2. QED
    BY <1>1, <2>1 DEF TypeOK, TablesOK
<1>4. JobOK' /\ Shape' /\ Answered'
  <2>1. read' \in [DOMAIN read' -> Keys] /\ DOMAIN read' = {}
    BY <1>2, NothingRead
  <2>2. body' \in 0..MaxUpsets /\ UNION pending' = {}
    BY <1>2, BoundsAssumption
  <2>3. JobOK'
    BY <1>2, <2>1, <2>2 DEF JobOK
  <2>4. QED
    BY <1>2, <2>3 DEF Shape, Answered
<1>5. Behind!JobOK'
  BY <1>1 DEF TypeOK, JobOK, Behind!JobOK, Keys, Behind!Keys, NoBatch, Behind!NoBatch
<1>6. Other!Shape' /\ Other!Answered'
  BY <1>1 DEF Shape, Other!Shape, Answered, Other!Answered, Mailed, Other!Mailed
<1>7. SentWasMailed'
  BY <1>1 DEF SentWasMailed, Mailed
<1>8. Off'
  <2>1. \A e : ~InHand(e)' /\ (Behind!InHand(e)' <=> InHand(e))
    BY <1>1, <1>2 DEF InHand, Behind!InHand
  <2>2. QED
    BY <1>1, <2>1 DEF Off, Queued, OnItsWay
<1>9. QED
  BY <1>1, <1>3, <1>4, <1>5, <1>6, <1>7, <1>8 DEF TypeOK

LEMMA EverStep ==
  ASSUME Ever, [Next]_vars
  PROVE  Ever'
<1>1. CASE Start /\ UNCHANGED <<behindVars, barred>>
  <2>1. /\ UNCHANGED <<mailOn, recent, rows, site, accepted, overtaken, upsets, remind, body, todo,
                       items, pending, hand, read, cached, legacy, behindVars, barred>>
        /\ pc = "idle" /\ pc' = "look"
    BY <1>1 DEF Start, sharedVars
  <2>2. TablesOK' /\ JobOK' /\ Behind!JobOK' /\ barred' \subseteq DOMAIN rows'
    BY <2>1 DEF Ever, TypeOK, TablesOK, JobOK, Behind!JobOK, behindVars
  <2>3. Shape' /\ Answered' /\ Other!Shape' /\ Other!Answered'
    BY <2>1 DEF Ever, Shape, Answered, behindVars, Other!Shape, Other!Answered, Other!Mailed
  <2>4. SentWasMailed' /\ Off'
    BY <2>1 DEF Ever, SentWasMailed, Mailed, Off, Queued, OnItsWay, InHand, Behind!InHand,
       behindVars
  <2>5. QED
    BY <2>2, <2>3, <2>4 DEF Ever, TypeOK
<1>2. QED
  BY <1>1, UserEver, PassEver, BehindEver, OvertakeEver DEF Next, Pass, UserNext

-----------------------------------------------------------------------------
(* What holds while no job was overtaken *)

\* There is no other job.
Alone == ~overtaken /\ Behind!NoJob

\* An event that is settled, and no longer on its way.
Gone(d) == ~Queued(d) /\ ~InHand(d)

\* The batches of a job share no event.
Apart ==
  /\ \A a, b \in pending : a = b \/ a \intersect b = {}
  /\ \A b \in pending : b \intersect hand = {}

\* A batch is of one key, and it is all that is left under it.
Batched(b) ==
  \A e \in b, d \in DOMAIN rows :
    /\ d \in b => rows[d].batch = rows[e].batch
    /\ d \notin b /\ rows[d].batch = rows[e].batch /\ rows[e].batch # NoBatch => Gone(d)

AllBatched ==
  /\ \A b \in pending \union {hand} : Batched(b)
  /\ pc = "check" => \A e \in Waiting : rows[e].batch # NoBatch => e \in todo \union items
  /\ pc \in {"request", "confirm"} /\ Cardinality(hand) > 1 =>
       \A e \in hand : rows[e].batch # NoBatch

\* The keys that a job has read are those of the rows: nobody else sets any.
Current ==
  /\ \A e \in items \union cached : read[e] = rows[e].batch
  /\ pc = "request" => \A e \in hand : legacy <=> rows[e].batch = Legacy

\* What is on its way has not been marked sent.
Unsent == \A e \in DOMAIN rows : InHand(e) => ~rows[e].sent

\* The mails of a job have their body.
Sending == pc \notin {"idle", "look"}

\* A delivered request: its events, their owners and its body.
Delivered(q) ==
  /\ q.events # {} /\ q.events \subseteq DOMAIN rows
  /\ \A e \in q.events : rows[e].owner \notin Refused
  /\ q.site <= site /\ (Sending => q.site <= body)

AllDelivered ==
  /\ \A q \in accepted : Delivered(q)
  /\ \A q, r \in accepted : q.legacy /\ r.legacy => q = r
  /\ Sending => body <= site

\* A delivered batch keeps its key to itself ...
KeptBy(q, k) ==
  /\ k = Legacy <=> q.legacy
  /\ \A e \in q.events : rows[e].batch = k
  /\ \A d \in DOMAIN rows \ q.events : rows[d].batch = k => Gone(d)
  /\ \A d, e \in q.events : rows[d].sent => Gone(e)

Kept(q) == \E k \in Keys \ {NoBatch} : KeptBy(q, k)

\* ... or has lost a member or its body for good.
Past(q) ==
  \/ \E d \in q.events : rows[d].failed /\ Gone(d)
  \/ q.site < site /\ (Sending => q.site < body)

AllKept == \A q \in accepted : Cardinality(q.events) > 1 => Kept(q) \/ Past(q)

IsReminder(e, u) == e \in DOMAIN rows /\ rows[e].owner = u /\ rows[e].kind = "review_due"

\* The reminders of a user were failed, or sent a while ago ...
Over(e, u) == rows[e].failed \/ (rows[e].sent /\ recent[u] # e)

\* ... when the user is found due for another,
Looked == \A u \in remind : \A d \in DOMAIN rows : IsReminder(d, u) => Over(d, u)

\* and all but the last of them always,
Reminded ==
  \A u \in Users :
    /\ recent[u] # 0 => IsReminder(recent[u], u)
    /\ \A d, e \in DOMAIN rows : IsReminder(d, u) /\ IsReminder(e, u) /\ d < e =>
         /\ Over(d, u)
         \* which is not on its way if an earlier one is.
         /\ InHand(d) => ~InHand(e) /\ recent[u] # e

OneInv ==
  /\ Ever /\ Alone
  /\ Apart /\ AllBatched /\ Current
  /\ Unsent /\ AllDelivered /\ AllKept /\ BatchMailedOnce
  /\ Looked /\ Reminded

\* The steps that do not have a job overtaken.
OneNext ==
  \/ UserNext
  \/ (Start \/ Go \/ Mishap) /\ UNCHANGED <<behindVars, barred>>

LEMMA OneFacts ==
  ASSUME OneInv
  PROVE  /\ TypeOK /\ TablesOK /\ JobOK /\ Shape /\ Answered /\ SentWasMailed
         /\ DOMAIN rows = 1..Len(rows) /\ DOMAIN rows \subseteq Nat
         /\ rows \in [DOMAIN rows -> Row]
         /\ \A e \in DOMAIN rows : rows[e].batch \in Keys
<1>1. TypeOK /\ TablesOK /\ JobOK /\ Shape /\ Answered /\ SentWasMailed
  BY DEF OneInv, Ever, TypeOK
<1>2. QED
  BY <1>1, RowsFacts, RowFacts

LEMMA OneStep ==
  ASSUME OneInv, OneNext
  PROVE  /\ Ever' /\ Alone' /\ TablesOK' /\ JobOK' /\ Shape' /\ Grows
         /\ DOMAIN rows' \subseteq Nat
<1>1. Ever'
  BY EverStep DEF OneInv, OneNext, Next, Pass, UserNext
<1>2. Grows /\ overtaken' = overtaken /\ UNCHANGED behindVars
  <2>1. CASE UserNext
    BY <2>1, UserStep DEF OneInv
  <2>2. CASE (Go \/ Mishap) /\ UNCHANGED <<behindVars, barred>>
    BY <2>2, OneFacts, JobStep
  <2>3. CASE Start /\ UNCHANGED <<behindVars, barred>>
    BY <2>3 DEF Start, sharedVars, Grows, InHand
  <2>4. QED
    BY <2>1, <2>2, <2>3 DEF OneNext
<1>3. Alone'
  BY <1>2 DEF OneInv, Alone, Behind!NoJob, behindVars
<1>4. QED
  BY <1>1, <1>2, <1>3, LenProperties DEF Ever, TypeOK, TablesOK

-----------------------------------------------------------------------------
(* The batches of a job *)

\* What is settled and on no job's way stays so.
LEMMA GoneStays ==
  ASSUME Grows, NEW d \in DOMAIN rows, Gone(d)
  PROVE  Gone(d)'
BY DEF Grows, Gone, Queued

\* The batch in hand, and its key.
LEMMA HandFacts ==
  ASSUME OneInv, pc \in {"request", "confirm"}
  PROVE  \E k \in Keys :
           /\ hand # {} /\ hand \subseteq DOMAIN rows
           /\ \A e \in hand : rows[e].batch = k /\ InHand(e)
           /\ pc = "request" => (legacy <=> k = Legacy)
<1>1. hand # {} /\ hand \subseteq DOMAIN rows /\ \A e \in hand : rows[e].batch \in Keys
  BY OneFacts DEF Shape, JobOK
<1>2. PICK d \in hand : TRUE
  BY <1>1
<1>3. \A e \in hand : rows[e].batch = rows[d].batch /\ InHand(e)
  BY <1>1, <1>2 DEF OneInv, AllBatched, Batched, InHand
<1>4. pc = "request" => (legacy <=> rows[d].batch = Legacy)
  BY <1>2 DEF OneInv, Current
<1>5. QED
  BY <1>1, <1>2, <1>3, <1>4

\* A batch gets a key of its own when it is taken, or has one, or is alone.
LEMMA TakenFacts ==
  ASSUME OneInv, NEW b \in pending, Take(b)
  PROVE  /\ b # {} /\ b \subseteq DOMAIN rows
         /\ \/ /\ UNCHANGED <<rows, read, cached>>
               /\ Cardinality(b) > 1 => \A e \in b : rows[e].batch # NoBatch
               /\ \A e \in b : legacy' <=> rows[e].batch = Legacy
            \/ /\ Free(NewBatch) /\ Tagging(b, NewBatch) /\ Expire /\ legacy' = FALSE
               /\ \A e \in b : rows[e].batch = NoBatch
<1>1. /\ b # {} /\ b \subseteq DOMAIN rows /\ Oldest(b) \in b
      /\ legacy' = (Key(Oldest(b)) = Legacy)
      /\ \/ /\ UNCHANGED <<rows, read, cached>>
            /\ ~(Cardinality(b) > 1 /\ Key(Oldest(b)) = NoBatch)
         \/ /\ Free(NewBatch) /\ Tagging(b, NewBatch) /\ Expire
            /\ Key(Oldest(b)) = NoBatch
  BY OneFacts, TakeFacts
<1>2. \A e \in b : rows[e].batch = Key(Oldest(b))
  <2>1. Key(Oldest(b)) = rows[Oldest(b)].batch
    BY DEF OneInv, Current, Key
  <2>2. QED
    BY <1>1, <2>1 DEF OneInv, AllBatched, Batched
<1>3. QED
  BY <1>1, <1>2, KeyFacts

LEMMA ApartStep ==
  ASSUME OneInv, OneNext
  PROVE  Apart'
<1> USE DEF OneInv
<1>1. ASSUME pending' \in {pending, {}}, hand' \in {hand, {}}
      PROVE  Apart'
  BY <1>1 DEF Apart
<1>2. CASE Plan
  BY <1>2, GroupsFacts, OneFacts DEF Plan, Apart, Shape
<1>3. ASSUME NEW b \in pending, Take(b)
      PROVE  Apart'
  BY <1>3 DEF Take, Apart
<1>4. CASE Reject
  <2>1. /\ hand' = {}
        /\ pending' = pending \/ pending' = pending \union {{e} : e \in hand}
    BY <1>4, OneFacts, RejectFacts
  <2>2. ASSUME NEW a \in pending \union {{e} : e \in hand},
               NEW b \in pending \union {{e} : e \in hand}
        PROVE  a = b \/ a \intersect b = {}
    <3>1. a \in pending \/ \E e \in hand : a = {e}
      OBVIOUS
    <3>2. b \in pending \/ \E e \in hand : b = {e}
      OBVIOUS
    <3>3. \A b1 \in pending : b1 \intersect hand = {}
      BY DEF Apart
    <3>4. ASSUME NEW x \in a, x \in b PROVE a = b
      BY <3>1, <3>2, <3>3, <3>4 DEF Apart
    <3>5. QED
      BY <3>4
  <2>3. QED
    BY <2>1, <2>2 DEF Apart
<1>5. CASE Accept
  <2>1. UNCHANGED pending
    BY <1>5 DEF Accept
  <2>2. QED
    BY <1>1, <1>5, <2>1, OneFacts, AcceptFacts
<1>6. CASE UserNext
  BY <1>1, <1>6, UserStep DEF jobVars
<1>7. QED
  BY <1>1, <1>2, <1>3, <1>4, <1>5, <1>6
  DEF OneNext, Start, Go, Mishap, Look, Remind, Rekey, Load, Check, Fail, Confirm, Drop, EndPass,
      Crash, Leave, sharedVars

\* Only the steps that deal with keys change any, and only Confirm marks
\* events sent.
LEMMA KeysStay ==
  ASSUME OneInv, OneNext, ~Rekey, ~Reject, \A b \in pending : ~Take(b)
  PROVE  /\ \A e \in DOMAIN rows : rows'[e].batch = rows[e].batch
         /\ UserNext \/ (\E u \in remind : Remind(u)) \/ Check \/ Confirm \/ UNCHANGED rows
<1>1. CASE UserNext
  BY <1>1, UserStep DEF OneInv
<1>2. ASSUME NEW u \in remind, Remind(u)
      PROVE  \A e \in DOMAIN rows : rows'[e].batch = rows[e].batch
  <2>1. CASE Adding(u, "review_due")
    BY <2>1, OneFacts, AddingFacts DEF JobOK
  <2>2. QED
    BY <1>2, <2>1, OneFacts, RoomFacts DEF Remind, Adding
<1>3. CASE Check
  BY <1>3, OneFacts, CheckFacts DEF Failing
<1>4. CASE Confirm
  BY <1>4, OneFacts, RowsSent DEF Confirm
<1>5. CASE UNCHANGED rows
  BY <1>5
<1>6. QED
  BY <1>1, <1>2, <1>3, <1>4, <1>5
  DEF OneNext, Start, Go, Mishap, Look, Load, Plan, Accept, EndPass, Fail, Crash, Leave, sharedVars

LEMMA SentStays ==
  ASSUME OneInv, OneNext
  PROVE  Confirm \/ \A e \in DOMAIN rows : rows'[e].sent = rows[e].sent
<1>1. CASE UserNext
  BY <1>1, UserStep DEF OneInv
<1>2. CASE UNCHANGED rows
  BY <1>2
<1>3. CASE (Go \/ Mishap) /\ ~Confirm
  <2>0. pc = "confirm" => remind = {}
    BY OneFacts DEF Shape
  <2>1. pc # "confirm" \/ UNCHANGED rows
    BY <1>3, <2>0 DEF Go, Mishap, Look, Remind, Load, Check, Plan, Take, Accept, Rekey, Reject, EndPass,
                Fail, Crash, Leave, sharedVars
  <2>2. Sends /\ Grows
    BY <1>3, OneFacts, JobStep
  <2>3. \A e \in DOMAIN rows : rows[e].sent \in BOOLEAN /\ rows'[e].sent \in BOOLEAN
    <3>1. \A e \in DOMAIN rows : rows[e] \in Row /\ rows'[e] \in Row
      BY <2>2, OneFacts, OneStep DEF TablesOK, Grows
    <3>2. QED
      BY <3>1, RowFacts
  <2>4. QED
    BY <1>2, <2>1, <2>2, <2>3 DEF Sends, Grows
<1>4. QED
  BY <1>1, <1>2, <1>3 DEF OneNext, Start, sharedVars

LEMMA BatchedStays ==
  ASSUME Grows, NEW b, b \subseteq DOMAIN rows, Batched(b),
         \A e \in DOMAIN rows : rows'[e].batch = rows[e].batch
  PROVE  Batched(b)'
<1> SUFFICES ASSUME NEW e \in b, NEW d \in DOMAIN rows'
             PROVE  /\ d \in b => rows'[d].batch = rows'[e].batch
                    /\ d \notin b /\ rows'[d].batch = rows'[e].batch /\ rows'[e].batch # NoBatch
                         => Gone(d)'
  BY DEF Batched
<1>1. CASE d \in DOMAIN rows
  BY <1>1, GoneStays DEF Batched
<1>2. CASE d \notin DOMAIN rows
  BY <1>2 DEF Grows
<1>3. QED
  BY <1>1, <1>2

LEMMA BatchedTagged ==
  ASSUME Grows, NEW c, NEW k, c \subseteq DOMAIN rows, Tagging(c, k), k = NoBatch \/ Free(k)
  PROVE  /\ \A b : b \subseteq DOMAIN rows /\ b \intersect c = {} /\ Batched(b) => Batched(b)'
         /\ Free(k) => Batched(c)'
         /\ k = NoBatch => \A e \in c : Batched({e})'
<1>1. DOMAIN rows' = DOMAIN rows
  BY DEF Tagging
<1>2. ASSUME NEW b, b \subseteq DOMAIN rows, b \intersect c = {}, Batched(b),
             NEW e \in b, NEW d \in DOMAIN rows
      PROVE  /\ d \in b => rows'[d].batch = rows'[e].batch
             /\ d \notin b /\ rows'[d].batch = rows'[e].batch /\ rows'[e].batch # NoBatch
                  => Gone(d)'
  <2>1. rows'[e].batch = rows[e].batch
    BY <1>2 DEF Tagging
  <2>2. CASE d \in c
    BY <1>2, <2>1, <2>2 DEF Tagging, Free
  <2>3. CASE d \notin c
    BY <1>2, <2>1, <2>3, GoneStays DEF Tagging, Batched
  <2>4. QED
    BY <2>2, <2>3
<1>3. Free(k) => Batched(c)'
  BY <1>1 DEF Batched, Tagging, Free
<1>4. k = NoBatch => \A e \in c : Batched({e})'
  BY <1>1 DEF Batched, Tagging
<1>5. QED
  BY <1>1, <1>2, <1>3, <1>4 DEF Batched

LEMMA AllBatchedStep ==
  ASSUME OneInv, OneNext
  PROVE  AllBatched'
<1> USE DEF OneInv
<1>1. Grows
  BY OneStep
<1>2. /\ \A b \in pending \union {hand} : b \subseteq DOMAIN rows /\ Batched(b)
      /\ hand = {} \/ pc \in {"request", "confirm"}
      /\ todo \union items \subseteq DOMAIN rows
  BY OneFacts DEF JobOK, Shape, AllBatched
<1>3. \A e \in DOMAIN rows' : Queued(e)' => (e \in DOMAIN rows /\ Queued(e))
                                               \/ rows'[e].batch = NoBatch
  BY <1>1 DEF Grows, Queued
<1>4. ASSUME \A e \in DOMAIN rows : rows'[e].batch = rows[e].batch,
             pending' \subseteq pending, hand' \in {hand, {}},
             pc' = "check" => pc = "check" /\ UNCHANGED <<todo, items>>
      PROVE  AllBatched'
  <2>1. \A b \in pending \union {hand} : Batched(b)'
    BY <1>1, <1>2, <1>4, BatchedStays
  <2>2. Batched({})'
    BY DEF Batched
  <2>3. ASSUME NEW e \in DOMAIN rows', pc' = "check", Queued(e)', rows'[e].batch # NoBatch
        PROVE  e \in todo' \union items'
    BY <1>3, <1>4, <2>3 DEF AllBatched, Waiting
  <2>4. ASSUME NEW e \in hand', pc' \in {"request", "confirm"}, Cardinality(hand') > 1
        PROVE  rows'[e].batch # NoBatch
    BY <1>2, <1>4, <2>4 DEF AllBatched
  <2>5. QED
    BY <1>4, <2>1, <2>2, <2>3, <2>4 DEF AllBatched, Waiting
<1>5. CASE Load
  <2>1. UNCHANGED <<rows, pending, hand>> /\ pc' = "check" /\ todo' = Waiting
    BY <1>5 DEF Load, sharedVars
  <2>2. \A b \in pending \union {hand} : Batched(b)'
    BY <1>1, <1>2, <2>1, BatchedStays
  <2>3. QED
    BY <2>1, <2>2 DEF AllBatched, Waiting, Queued
<1>6. CASE Check
  <2>1. PICK e \in todo :
          /\ e \in DOMAIN rows /\ todo' = todo \ {e}
          /\ (items' = items /\ Failing({e})) \/ (items' = items \union {e} /\ rows' = rows)
    BY <1>6, OneFacts, CheckFacts
  <2>2. pc = "check" /\ UNCHANGED <<pc, pending, hand>>
    BY <1>6 DEF Check
  <2>3. /\ \A d \in DOMAIN rows : rows'[d].batch = rows[d].batch
        /\ DOMAIN rows' = DOMAIN rows
    BY <2>1, OneFacts DEF Failing
  <2>4. \A b \in pending \union {hand} : Batched(b)'
    BY <1>1, <1>2, <2>3, BatchedStays
  <2>5. ASSUME NEW d \in DOMAIN rows', Queued(d)', rows'[d].batch # NoBatch
        PROVE  d \in todo' \union items'
    <3>1. d \in todo \union items
      BY <1>3, <2>2, <2>3, <2>5 DEF AllBatched, Waiting
    <3>2. d = e => items' = items \union {e}
      BY <2>1, <2>5 DEF Failing, Queued
    <3>3. QED
      BY <2>1, <3>1, <3>2
  <2>6. QED
    BY <2>2, <2>4, <2>5 DEF AllBatched, Waiting
<1>7. CASE Plan
  <2>1. /\ UNCHANGED <<rows, hand>> /\ pc = "check" /\ pc' = "send" /\ todo = {}
        /\ todo' = {} /\ items' = {} /\ pending' = Groups(items) /\ hand = {} /\ pending = {}
    BY <1>7, OneFacts DEF Plan, Shape, sharedVars
  <2>2. ASSUME NEW b \in Groups(items), NEW e \in b, NEW d \in DOMAIN rows
        PROVE  /\ d \in b => rows[d].batch = rows[e].batch
               /\ d \notin b /\ rows[d].batch = rows[e].batch /\ rows[e].batch # NoBatch
                    => Gone(d)'
    <3>1. b \subseteq items /\ \A c \in items : read[c] = rows[c].batch
      BY GroupsFacts DEF Current
    <3>2. d \in b => rows[d].batch = rows[e].batch
      BY <2>2, <3>1, GroupsFacts
    <3>3. ASSUME d \notin b, rows[d].batch = rows[e].batch, rows[e].batch # NoBatch
          PROVE  Gone(d)'
      <4>1. d \notin items
        BY <2>2, <3>1, <3>3, GroupsFacts
      <4>2. ~Queued(d)
        BY <2>1, <3>3, <4>1 DEF AllBatched, Waiting
      <4>3. ~InHand(d)
        BY <2>1, <4>1 DEF InHand
      <4>4. QED
        BY <1>1, <4>2, <4>3, GoneStays DEF Gone
    <3>4. QED
      BY <3>2, <3>3
  <2>3. \A b \in Groups(items) : Batched(b)'
    BY <2>1, <2>2 DEF Batched
  <2>4. Batched({})'
    BY DEF Batched
  <2>5. QED
    BY <2>1, <2>3, <2>4 DEF AllBatched
<1>8. ASSUME NEW b \in pending, Take(b)
      PROVE  AllBatched'
  <2>1. pc' = "request" /\ pending' = pending \ {b} /\ hand' = b
    BY <1>8 DEF Take
  <2>2. \A c \in pending \ {b} : c \intersect b = {}
    BY DEF Apart
  <2>3. CASE /\ UNCHANGED rows
             /\ Cardinality(b) > 1 => \A e \in b : rows[e].batch # NoBatch
    <3>1. \A c \in pending : Batched(c)'
      BY <1>1, <1>2, <2>3, BatchedStays
    <3>2. QED
      BY <2>1, <2>3, <3>1 DEF AllBatched
  <2>4. CASE Free(NewBatch) /\ Tagging(b, NewBatch)
    <3>1. \A c \in pending : Batched(c)'
      BY <1>1, <1>2, <2>2, <2>4, BatchedTagged
    <3>2. \A e \in b : rows'[e].batch # NoBatch
      BY <1>2, <2>4, KeyFacts DEF Tagging, Free
    <3>3. QED
      BY <2>1, <3>1, <3>2 DEF AllBatched
  <2>5. QED
    BY <1>8, <2>3, <2>4, TakenFacts
<1>9. CASE Rekey
  <2>1. UNCHANGED <<pc, todo, items, pending, hand>> /\ pc = "request"
    BY <1>9 DEF Rekey
  <2>2. Free(NewBatch) /\ Tagging(hand, NewBatch)
    BY <1>9, OneFacts, RekeyFacts
  <2>3. \A c \in pending : c \intersect hand = {}
    BY DEF Apart
  <2>4. \A c \in pending \union {hand} : Batched(c)'
    BY <1>1, <1>2, <2>2, <2>3, BatchedTagged
  <2>5. \A e \in hand : rows'[e].batch # NoBatch
    BY <1>2, <2>2, KeyFacts DEF Tagging, Free
  <2>6. QED
    BY <2>1, <2>4, <2>5 DEF AllBatched
<1>10. CASE Reject
  <2>1. pc' = "send" /\ hand' = {}
    BY <1>10, OneFacts, RejectFacts
  <2>2. Batched({})'
    BY DEF Batched
  <2>3. CASE UNCHANGED <<rows, pending>>
    <3>1. \A c \in pending : Batched(c)'
      BY <1>1, <1>2, <2>3, BatchedStays
    <3>2. QED
      BY <2>1, <2>2, <2>3, <3>1 DEF AllBatched
  <2>4. CASE Tagging(hand, NoBatch) /\ pending' = pending \union {{e} : e \in hand}
    <3>1. \A c \in pending : c \intersect hand = {}
      BY DEF Apart
    <3>2. /\ \A c \in pending : Batched(c)'
          /\ \A e \in hand : Batched({e})'
      BY <1>1, <1>2, <2>4, <3>1, BatchedTagged
    <3>3. \A c \in {{e} : e \in hand} : Batched(c)'
      BY <3>2
    <3>4. QED
      BY <2>1, <2>2, <2>4, <3>2, <3>3 DEF AllBatched
  <2>5. QED
    BY <1>10, <2>3, <2>4, OneFacts, RejectFacts
<1>11. ASSUME pending' \subseteq pending, hand' \in {hand, {}},
              pc' = "check" => pc = "check" /\ UNCHANGED <<todo, items>>,
              ~Rekey, ~Reject, \A b \in pending : ~Take(b)
       PROVE  AllBatched'
  BY <1>4, <1>11, KeysStay
<1>12. CASE UserNext
  <2>1. UNCHANGED jobVars /\ \A e \in DOMAIN rows : rows'[e].batch = rows[e].batch
    BY <1>12, UserStep
  <2>2. QED
    BY <1>4, <2>1 DEF jobVars
<1>13. CASE Accept
  <2>1. UNCHANGED <<rows, pending>>
    BY <1>13 DEF Accept
  <2>2. pc' # "check" /\ hand' \in {hand, {}}
    BY <1>13, OneFacts, AcceptFacts
  <2>3. QED
    BY <1>4, <2>1, <2>2
<1>14. ASSUME (Start \/ Go \/ Mishap), ~Load, ~Check, ~Plan, ~Rekey, ~Reject, ~Accept,
              \A b \in pending : ~Take(b)
       PROVE  /\ pending' \subseteq pending /\ hand' \in {hand, {}}
              /\ pc' = "check" => pc = "check" /\ UNCHANGED <<todo, items>>
  BY <1>14 DEF Start, Go, Mishap, Look, Remind, Confirm, Drop, Fail, EndPass, Crash, Leave
<1>15. QED
  BY <1>5, <1>6, <1>7, <1>8, <1>9, <1>10, <1>11, <1>12, <1>13, <1>14 DEF OneNext

LEMMA CurrentStep ==
  ASSUME OneInv, OneNext
  PROVE  Current'
<1> USE DEF OneInv
<1>1. /\ items \union cached \union hand \subseteq DOMAIN rows
      /\ \A e \in DOMAIN rows : e \in items \union cached => read[e] = rows[e].batch
      /\ pc # "check" => items = {}
  BY OneFacts DEF JobOK, Current, Shape
<1>2. ASSUME \A e \in DOMAIN rows : rows'[e].batch = rows[e].batch,
             items' \subseteq items, cached' \subseteq cached,
             \A e \in items' \union cached' : read'[e] = read[e],
             pc' = "request" => pc = "request" /\ UNCHANGED <<hand, legacy>>
      PROVE  Current'
  BY <1>1, <1>2 DEF Current
<1>3. ASSUME items' = {}, Expire, pc' # "request"
      PROVE  Current'
  BY <1>3 DEF Current, Expire
<1>4. CASE Load
  <2>1. /\ cached' = Waiting /\ read' = [e \in Waiting |-> rows[e].batch] /\ pc' = "check"
        /\ items' = {} /\ rows' = rows
    BY <1>1, <1>4 DEF Load, sharedVars
  <2>2. QED
    BY <2>1 DEF Current
<1>5. CASE Check
  <2>1. PICK e \in todo :
          /\ e \in DOMAIN rows
          /\ \/ items' = items /\ Failing({e}) /\ read' = read /\ cached' = {}
             \/ /\ items' = items \union {e} /\ rows' = rows
                /\ read' = [read EXCEPT ![e] = Key(e)] /\ cached' = cached \union {e}
    BY <1>5, OneFacts, CheckFacts
  <2>2. pc' = "check" /\ todo \union items \union cached \subseteq DOMAIN read
    BY <1>5, OneFacts DEF Check, JobOK
  <2>3. Key(e) = rows[e].batch
    BY <1>1, <2>1 DEF Key
  <2>4. CASE items' = items /\ Failing({e}) /\ read' = read /\ cached' = {}
    BY <1>1, <2>2, <2>4 DEF Current, Failing
  <2>5. CASE /\ items' = items \union {e} /\ rows' = rows
             /\ read' = [read EXCEPT ![e] = Key(e)] /\ cached' = cached \union {e}
    <3>1. \A d \in items' \union cached' : read'[d] = rows'[d].batch
      BY <1>1, <2>1, <2>2, <2>3, <2>5
    <3>2. QED
      BY <2>2, <3>1 DEF Current
  <2>6. QED
    BY <2>1, <2>4, <2>5
<1>6. CASE Plan
  BY <1>2, <1>6 DEF Plan, sharedVars
<1>7. ASSUME NEW b \in pending, Take(b)
      PROVE  Current'
  <2>1. /\ b \subseteq DOMAIN rows /\ hand' = b /\ items' = {}
        /\ \/ UNCHANGED <<rows, read, cached>> /\ \A e \in b : legacy' <=> rows[e].batch = Legacy
           \/ Free(NewBatch) /\ Tagging(b, NewBatch) /\ Expire /\ legacy' = FALSE
    BY <1>1, <1>7, TakenFacts DEF Take
  <2>2. CASE UNCHANGED <<rows, read, cached>> /\ \A e \in b : legacy' <=> rows[e].batch = Legacy
    BY <1>1, <2>1, <2>2 DEF Current
  <2>3. CASE Free(NewBatch) /\ Tagging(b, NewBatch) /\ Expire /\ legacy' = FALSE
    BY <2>1, <2>3, KeyFacts DEF Current, Tagging, Expire, Free
  <2>4. QED
    BY <2>1, <2>2, <2>3
<1>8. CASE Rekey
  <2>1. /\ hand' = hand /\ items' = {} /\ legacy' = FALSE
        /\ Free(NewBatch) /\ Tagging(hand, NewBatch) /\ Expire
    BY <1>1, <1>8, OneFacts, RekeyFacts DEF Rekey
  <2>2. QED
    BY <1>1, <2>1, KeyFacts DEF Current, Tagging, Expire, Free
<1>9. CASE Reject
  <2>1. /\ pc' = "send" /\ items' = {}
        /\ UNCHANGED <<rows, read, cached>> \/ Expire
    BY <1>1, <1>9, OneFacts, RejectFacts DEF Reject
  <2>2. QED
    BY <1>2, <1>3, <2>1
<1>10. CASE Confirm
  BY <1>1, <1>3, <1>10 DEF Confirm, Drop
<1>11. CASE EndPass \/ Crash
  BY <1>3, <1>11 DEF EndPass, Crash, Leave, Expire
<1>12. CASE UserNext
  <2>1. UNCHANGED jobVars /\ \A e \in DOMAIN rows : rows'[e].batch = rows[e].batch
    BY <1>12, UserStep
  <2>2. QED
    BY <1>2, <2>1 DEF jobVars
<1>13. CASE Accept
  <2>1. UNCHANGED <<rows, items, cached, read>> /\ pc' # "request"
    BY <1>13, OneFacts, AcceptFacts DEF Accept
  <2>2. QED
    BY <1>2, <2>1
<1>14. ASSUME NEW u \in remind, Remind(u)
       PROVE  Current'
  <2>1. \A e \in DOMAIN rows : rows'[e].batch = rows[e].batch
    BY <1>14, KeysStay DEF OneNext, Go, Remind, Rekey, Reject, Take, Shape
  <2>2. QED
    BY <1>2, <1>14, <2>1 DEF Remind
<1>15. CASE Start \/ Fail \/ \E u \in Users : Look(u)
  BY <1>2, <1>15 DEF Start, Fail, Drop, Look, sharedVars
<1>16. QED
  BY <1>4, <1>5, <1>6, <1>7, <1>8, <1>9, <1>10, <1>11, <1>12, <1>13, <1>14, <1>15
  DEF OneNext, Go, Mishap

-----------------------------------------------------------------------------
(* What was sent and delivered *)

\* Only Accept has a request delivered.
LEMMA OnlyAccept ==
  ASSUME OneInv, OneNext, ~Accept
  PROVE  accepted' = accepted
<1>1. CASE UserNext
  BY <1>1, UserStep DEF OneInv
<1>2. QED
  BY <1>1 DEF OneNext, Start, Go, Mishap, Look, Remind, Load, Check, Plan, Take, Rekey, Reject,
              Confirm, EndPass, Fail, Crash, Leave, sharedVars

LEMMA UnsentStep ==
  ASSUME OneInv, OneNext
  PROVE  Unsent'
<1> USE DEF OneInv
<1>1. Grows
  BY OneStep
<1> SUFFICES ASSUME NEW e \in DOMAIN rows', InHand(e)', rows'[e].sent
             PROVE  FALSE
  BY DEF Unsent
<1>2. e \in DOMAIN rows /\ ~rows[e].sent
  BY <1>1 DEF Grows, Unsent, Queued
<1>3. CASE Confirm
  <2>1. rows' = Marked(hand) /\ UNCHANGED <<todo, items, pending>> /\ hand' = {}
    BY <1>3 DEF Confirm, Drop
  <2>2. e \in hand
    BY <1>2, <2>1, OneFacts, RowsSent
  <2>3. todo = {} /\ items = {} /\ \A b \in pending : b \intersect hand = {}
    BY <1>3, OneFacts DEF Confirm, Shape, Apart
  <2>4. QED
    BY <2>1, <2>2, <2>3 DEF InHand
<1>4. QED
  BY <1>2, <1>3, SentStays

\* The site only moves on, and a job keeps the body that it began with.
LEMMA SiteStep ==
  ASSUME OneInv, OneNext
  PROVE  /\ site \in Nat /\ site' \in Nat /\ body \in Nat /\ body' \in Nat
         /\ site' >= site
         /\ Sending' => (Sending /\ body' = body) \/ body' = site'
<1>1. /\ site \in Nat /\ site' \in Nat /\ body \in Nat /\ body' \in Nat
  <2>1. TablesOK /\ JobOK /\ TablesOK' /\ JobOK'
    BY OneFacts, OneStep
  <2>2. QED
    BY <2>1, BoundsAssumption DEF TablesOK, JobOK
<1>2. CASE UserNext
  <2>1. UNCHANGED <<pc, body>>
    BY <1>2, UserStep DEF OneInv, jobVars
  <2>2. site' = site \/ site' = site + 1
    <3>1. ASSUME NEW u \in Users, ChangeMind(u)
          PROVE  site' = site
      BY <3>1, SwitchFacts, OneFacts
    <3>2. QED
      BY <1>2, <3>1 DEF UserNext, NewMaterial, CooldownEnds, Move, vars, sharedVars
  <2>3. QED
    BY <1>1, <2>1, <2>2 DEF Sending
<1>3. CASE Start \/ Go \/ Mishap
  <2>1. site' = site
    BY <1>3, JobStep, OneFacts DEF Start, sharedVars
  <2>2. Sending' => (Sending /\ body' = body) \/ body' = site'
    BY <1>3, <2>1 DEF Start, Go, Mishap, Look, Remind, Load, Check, Plan, Take, Accept, Rekey,
                Reject, Confirm, Drop, EndPass, Fail, Crash, Leave, Sending, sharedVars
  <2>3. QED
    BY <1>1, <2>1, <2>2
<1>4. QED
  BY <1>2, <1>3 DEF OneNext

LEMMA AllDeliveredStep ==
  ASSUME OneInv, OneNext
  PROVE  AllDelivered'
<1> USE DEF OneInv
<1>1. Grows
  BY OneStep
<1>2. /\ site \in Nat /\ site' \in Nat /\ body \in Nat /\ body' \in Nat
      /\ site' >= site
      /\ Sending' => (Sending /\ body' = body) \/ body' = site'
  BY SiteStep
<1>3. \A q \in accepted : q.site \in Nat
  BY OneFacts, BoundsAssumption DEF TablesOK, Requests
<1>4. ASSUME NEW q \in accepted
      PROVE  Delivered(q)'
  <2>1. q.site <= site /\ (Sending => q.site <= body) /\ q.site \in Nat
    BY <1>3, <1>4 DEF AllDelivered, Delivered
  <2>2. q.site <= site' /\ (Sending' => q.site <= body')
    BY <1>2, <2>1
  <2>3. /\ q.events # {} /\ q.events \subseteq DOMAIN rows'
        /\ \A e \in q.events : rows'[e].owner \notin Refused
    BY <1>1, <1>4 DEF AllDelivered, Delivered, Grows
  <2>4. QED
    BY <2>2, <2>3 DEF Delivered
<1>5. Sending' => body' <= site'
  BY <1>2 DEF AllDelivered
<1>6. CASE Accept
  <2>1. PICK r \in Requests :
          /\ r = Request /\ r.events = hand /\ r.site = body /\ accepted' = accepted \union {r}
    BY <1>6, OneFacts, AcceptFacts
  <2>2. UNCHANGED <<rows, site, body>> /\ pc = "request"
    BY <1>6 DEF Accept
  <2>3. r \notin accepted => \A e \in hand : rows[e].owner \notin Refused
    BY <1>6, <2>1 DEF Accept, Invalid
  <2>4. r \notin accepted => Delivered(r)'
    <3>1. hand # {} /\ hand \subseteq DOMAIN rows /\ body <= site /\ body <= body
      BY <1>2, <2>2, HandFacts DEF AllDelivered, Sending
    <3>2. QED
      BY <2>1, <2>2, <2>3, <3>1 DEF Delivered
  <2>5. \A q \in accepted' : Delivered(q)'
    BY <1>4, <2>1, <2>4
  <2>6. r.legacy => \A q \in accepted : q.legacy => q = r
    BY <1>6, <2>1, OneFacts, AcceptFacts DEF Accept, Conflict
  <2>7. \A q, p \in accepted' : q.legacy /\ p.legacy => q = p
    BY <2>1, <2>6 DEF AllDelivered
  <2>8. QED
    BY <1>5, <2>5, <2>7 DEF AllDelivered
<1>7. CASE ~Accept
  <2>1. accepted' = accepted
    BY <1>7, OnlyAccept
  <2>2. QED
    BY <1>4, <1>5, <2>1 DEF AllDelivered
<1>8. QED
  BY <1>6, <1>7

-----------------------------------------------------------------------------
(* Reminders *)

LEMMA RecentStep ==
  ASSUME OneInv, OneNext, NEW u \in Users
  PROVE  \/ recent'[u] = recent[u] \/ recent'[u] = 0
         \/ recent'[u] \in hand /\ IsReminder(recent'[u], u) /\ InHand(recent'[u])
<1>1. CASE Accept
  BY <1>1, OneFacts, AcceptFacts DEF InHand, IsReminder
<1>2. ASSUME NEW v \in Users, CooldownEnds(v)
      PROVE  recent'[u] = recent[u] \/ recent'[u] = 0
  BY <1>2, OneFacts DEF CooldownEnds, TablesOK
<1>3. CASE UNCHANGED recent
  BY <1>3
<1>4. ASSUME NEW v \in Users, ChangeMind(v)
      PROVE  UNCHANGED recent
  BY <1>4, SwitchFacts, OneFacts
<1>5. QED
  BY <1>1, <1>2, <1>3, <1>4
  DEF OneNext, UserNext, NewMaterial, Move, vars, Start, Go, Mishap, Look, Remind, Load, Check,
      Plan, Take, Rekey, Reject, Confirm, EndPass, Fail, Crash, Leave, sharedVars

\* What is over stays so, unless it is delivered again.
LEMMA OverStays ==
  ASSUME OneInv, OneNext, NEW u \in Users, NEW d \in DOMAIN rows, Over(d, u)
  PROVE  Over(d, u)'
<1>1. d # 0 /\ Grows
  BY OneFacts, OneStep
<1>2. rows[d].sent => ~InHand(d)
  BY DEF OneInv, Unsent
<1>3. recent'[u] = d => recent[u] = d \/ InHand(d)
  BY <1>1, RecentStep
<1>4. QED
  BY <1>1, <1>2, <1>3 DEF Over, Grows

\* A reminder is added only by Remind.
LEMMA ReminderAdded ==
  ASSUME OneInv, OneNext, NEW u \in Users, NEW e \in DOMAIN rows' \ DOMAIN rows,
         IsReminder(e, u)'
  PROVE  u \in remind /\ Remind(u) /\ \A d \in DOMAIN rows' : d <= e
<1>1. /\ UserNext \/ (\E v \in remind : Remind(v))
  <2>1. CASE Rekey
    BY <2>1, OneFacts, RekeyFacts DEF Tagging
  <2>2. CASE Reject
    BY <2>2, OneFacts, RejectFacts DEF Tagging
  <2>3. ASSUME NEW b \in pending, Take(b)
        PROVE  DOMAIN rows' = DOMAIN rows
    BY <2>3, TakenFacts DEF Tagging
  <2>4. CASE Check
    BY <2>4, OneFacts, CheckFacts DEF Failing
  <2>5. CASE Confirm
    BY <2>5 DEF Confirm, Marked
  <2>6. QED
    BY <2>1, <2>2, <2>3, <2>4, <2>5, KeysStay
<1>2. ASSUME NEW v \in Users, NEW k \in {"new_material", "review_due"}, Adding(v, k)
      PROVE  v = u /\ k = "review_due" /\ \A d \in DOMAIN rows' : d <= e
  BY <1>2, OneFacts, AddingFacts DEF IsReminder
<1>3. CASE UserNext
  <2>1. ASSUME NEW v \in Users, ChangeMind(v)
        PROVE  DOMAIN rows' = DOMAIN rows
    BY <2>1, SwitchFacts, OneFacts DEF Failing
  <2>2. PICK v \in Users : NewMaterial(v)
    BY <1>3, <2>1 DEF UserNext, CooldownEnds, Move, vars, sharedVars
  <2>3. Adding(v, "new_material")
    BY <2>2, OneFacts, RoomFacts DEF NewMaterial, Adding
  <2>4. QED
    BY <1>2, <2>3
<1>4. ASSUME NEW v \in remind, Remind(v)
      PROVE  u \in remind /\ Remind(u) /\ \A d \in DOMAIN rows' : d <= e
  <2>1. v \in Users /\ Adding(v, "review_due")
    BY <1>4, OneFacts, RoomFacts DEF Remind, Adding, JobOK
  <2>2. QED
    BY <1>2, <1>4, <2>1
<1>5. QED
  BY <1>1, <1>3, <1>4

LEMMA LookedStep ==
  ASSUME OneInv, OneNext
  PROVE  Looked'
<1> SUFFICES ASSUME NEW u \in remind', NEW d \in DOMAIN rows', IsReminder(d, u)'
             PROVE  Over(d, u)'
  BY DEF Looked
<1>1. Grows /\ u \in Users
  BY OneStep DEF JobOK
<1>2. CASE u \in remind
  <2>1. d \in DOMAIN rows
    BY <1>1, <1>2, ReminderAdded DEF Remind
  <2>2. Over(d, u)
    BY <1>1, <1>2, <2>1 DEF OneInv, Looked, Grows, IsReminder
  <2>3. QED
    BY <1>1, <2>1, <2>2, OverStays
<1>3. CASE u \notin remind
  <2>1. Look(u)
    <3>1. CASE UserNext
      BY <1>3, <3>1, UserStep DEF OneInv, jobVars
    <3>2. QED
      BY <1>3, <3>1
      DEF OneNext, Start, Go, Mishap, Look, Remind, Load, Check, Plan, Take, Accept, Rekey, Reject,
          Confirm, EndPass, Fail, Crash, Leave
  <2>2. UNCHANGED <<rows, recent>> /\ Remindable(u)
    BY <2>1 DEF Look, sharedVars
  <2>3. ASSUME ~rows[d].failed
        PROVE  rows[d].sent /\ recent[u] # d
    <3>1. d \in Reminders(u) /\ d \in DOMAIN rows /\ IsReminder(d, u)
      BY <2>2, <2>3 DEF Reminders, IsReminder
    <3>2. CASE \A c \in Reminders(u) : c <= d
      BY <2>2, <3>1, <3>2 DEF Remindable
    <3>3. ASSUME NEW c \in Reminders(u), ~(c <= d)
          PROVE  rows[d].sent /\ recent[u] # d
      <4>1. c \in DOMAIN rows /\ IsReminder(c, u)
        BY <3>3 DEF Reminders, IsReminder
      <4>2. d < c
        BY <3>1, <3>3, <4>1, OneFacts
      <4>3. QED
        BY <1>1, <2>3, <3>1, <4>1, <4>2 DEF OneInv, Reminded, Over
    <3>4. QED
      BY <3>2, <3>3
  <2>4. QED
    BY <2>2, <2>3 DEF Over
<1>4. QED
  BY <1>2, <1>3

LEMMA RemindedStep ==
  ASSUME OneInv, OneNext
  PROVE  Reminded'
<1> USE DEF OneInv
<1>1. Grows /\ DOMAIN rows' \subseteq Nat
  BY OneStep
<1>2. \A d \in DOMAIN rows, u \in Users : IsReminder(d, u)' <=> IsReminder(d, u)
  BY <1>1 DEF Grows, IsReminder
<1> SUFFICES ASSUME NEW u \in Users
    PROVE  /\ recent'[u] # 0 => IsReminder(recent[u], u)'
           /\ \A d, e \in DOMAIN rows' : IsReminder(d, u)' /\ IsReminder(e, u)' /\ d < e =>
                /\ Over(d, u)'
                /\ InHand(d)' => ~InHand(e)' /\ recent'[u] # e
  BY DEF Reminded
<1>3. /\ recent'[u] # 0 => IsReminder(recent'[u], u) /\ recent'[u] \in DOMAIN rows
      /\ recent'[u] \in {0} \union DOMAIN rows
  BY RecentStep, OneFacts DEF Reminded, IsReminder, TablesOK
<1>4. recent'[u] # 0 => IsReminder(recent[u], u)'
  BY <1>1, <1>3 DEF Grows, IsReminder
<1>5. ASSUME NEW d \in DOMAIN rows', NEW e \in DOMAIN rows', IsReminder(d, u)',
             IsReminder(e, u)', d < e
      PROVE  /\ Over(d, u)'
             /\ InHand(d)' => ~InHand(e)' /\ recent'[u] # e
  <2>1. d \in DOMAIN rows
    BY <1>1, <1>5, ReminderAdded
  <2>2. CASE e \notin DOMAIN rows
    <3>1. Over(d, u)
      BY <1>2, <1>5, <2>1, <2>2, ReminderAdded DEF Looked
    <3>2. ~InHand(e)'
      BY <1>1, <2>2 DEF Grows
    <3>3. recent'[u] # e
      BY <1>1, <1>3, <1>5, <2>1, <2>2
    <3>4. QED
      BY <2>1, <3>1, <3>2, <3>3, OverStays
  <2>3. CASE e \in DOMAIN rows
    <3>1. /\ Over(d, u)
          /\ InHand(d) => ~InHand(e) /\ recent[u] # e
      BY <1>2, <1>5, <2>1, <2>3 DEF Reminded
    <3>2. Over(d, u)'
      BY <2>1, <3>1, OverStays
    <3>3. e # 0
      BY <1>1, <1>5, <2>3, OneFacts
    <3>4. recent'[u] = e => recent[u] = e \/ InHand(e)
      BY <3>3, RecentStep
    <3>5. ASSUME InHand(d)'
          PROVE  ~InHand(e)' /\ recent'[u] # e
      <4>1. InHand(d)
        BY <1>1, <2>1, <3>1, <3>5 DEF Grows, Queued, Over
      <4>2. pc # "look"
        BY <4>1, OneFacts DEF Shape, InHand
      <4>3. QED
        BY <1>1, <2>3, <3>1, <3>4, <4>1, <4>2 DEF Grows
    <3>6. QED
      BY <3>2, <3>5
  <2>4. QED
    BY <2>2, <2>3
<1>6. QED
  BY <1>4, <1>5

-----------------------------------------------------------------------------
(* Delivered batches *)

LEMMA PastStays ==
  ASSUME OneInv, OneNext, NEW q \in accepted, Past(q)
  PROVE  Past(q)'
<1>1. Grows
  BY OneStep
<1>2. CASE \E d \in q.events : rows[d].failed /\ Gone(d)
  <2>1. PICK d \in q.events : rows[d].failed /\ Gone(d)
    BY <1>2
  <2>2. d \in DOMAIN rows
    BY <2>1 DEF OneInv, AllDelivered, Delivered
  <2>3. rows'[d].failed /\ Gone(d)'
    BY <1>1, <2>1, <2>2, GoneStays DEF Grows
  <2>4. QED
    BY <2>3 DEF Past
<1>3. CASE q.site < site /\ (Sending => q.site < body)
  <2>1. q.site \in Nat
    BY OneFacts, BoundsAssumption DEF TablesOK, Requests
  <2>2. q.site < site' /\ (Sending' => q.site < body')
    BY <1>3, <2>1, SiteStep
  <2>3. QED
    BY <2>2 DEF Past
<1>4. QED
  BY <1>2, <1>3 DEF Past

LEMMA KeptStays ==
  ASSUME Grows, NEW q, q.events \subseteq DOMAIN rows, NEW k \in Keys \ {NoBatch}, KeptBy(q, k),
         \A e \in DOMAIN rows : rows'[e].batch = k <=> rows[e].batch = k,
         \A d, e \in q.events : rows'[d].sent => rows[d].sent \/ Gone(e)'
  PROVE  Kept(q)'
<1>1. \A e \in q.events : rows'[e].batch = k
  BY DEF KeptBy
<1>2. ASSUME NEW d \in DOMAIN rows' \ q.events, rows'[d].batch = k
      PROVE  Gone(d)'
  <2>1. d \in DOMAIN rows
    BY <1>2 DEF Grows
  <2>2. QED
    BY <1>2, <2>1, GoneStays DEF KeptBy
<1>3. \A d, e \in q.events : rows'[d].sent => Gone(e)'
  BY GoneStays DEF KeptBy
<1>4. KeptBy(q, k)'
  BY <1>1, <1>2, <1>3 DEF KeptBy
<1>5. QED
  BY <1>4 DEF Kept

\* A batch in hand that shares an event with a delivered one is what is left
\* of it, the rest being failed.
LEMMA HandOfKept ==
  ASSUME OneInv, pc \in {"request", "confirm"}, NEW q \in accepted,
         NEW k \in Keys \ {NoBatch}, KeptBy(q, k), \E e \in hand : rows[e].batch = k
  PROVE  /\ hand \subseteq q.events
         /\ \A e \in q.events \ hand : rows[e].failed /\ Gone(e)
         /\ \A e \in hand : rows[e].batch = k
         /\ pc = "request" => (legacy <=> k = Legacy)
<1>1. /\ hand # {} /\ hand \subseteq DOMAIN rows
      /\ \A e \in hand : rows[e].batch = k /\ InHand(e)
      /\ pc = "request" => (legacy <=> k = Legacy)
  BY HandFacts
<1>2. hand \subseteq q.events
  BY <1>1 DEF KeptBy, Gone
<1>3. ASSUME NEW e \in q.events \ hand
      PROVE  rows[e].failed /\ Gone(e)
  <2>1. PICK d \in hand : InHand(d) /\ rows[d].batch = k
    BY <1>1
  <2>2. e \in DOMAIN rows /\ rows[e].batch = k
    BY <1>3 DEF OneInv, AllDelivered, Delivered, KeptBy
  <2>3. Batched(hand)
    BY DEF OneInv, AllBatched
  <2>4. Gone(e)
    BY <1>3, <2>1, <2>2, <2>3 DEF Batched
  <2>5. ~rows[e].sent
    BY <1>2, <1>3, <2>1 DEF KeptBy, Gone
  <2>6. QED
    BY <2>4, <2>5 DEF Gone, Queued
<1>4. QED
  BY <1>1, <1>2, <1>3

\* What becomes of the delivered batches when keys change.
LEMMA KeptTagged ==
  ASSUME OneInv, OneNext, NEW q \in accepted, NEW k \in Keys \ {NoBatch}, KeptBy(q, k),
         NEW b, NEW n, b \subseteq DOMAIN rows, Tagging(b, n), n = NoBatch \/ Free(n),
         \A e \in b : rows[e].batch # k, ~Confirm
  PROVE  Kept(q)'
<1>1. Grows
  BY OneStep
<1>2. q.events \subseteq DOMAIN rows /\ q.events # {}
  BY DEF OneInv, AllDelivered, Delivered
<1>3. n # k
  BY <1>2 DEF Free, KeptBy
<1>4. \A e \in DOMAIN rows : rows'[e].batch = k <=> rows[e].batch = k
  BY <1>3 DEF Tagging
<1>5. \A d \in q.events : rows'[d].sent => rows[d].sent
  BY <1>2 DEF Tagging
<1>6. QED
  BY <1>1, <1>2, <1>4, <1>5, KeptStays

LEMMA AllKeptStep ==
  ASSUME OneInv, OneNext, NEW q \in accepted, Cardinality(q.events) > 1
  PROVE  Kept(q)' \/ Past(q)'
<1>1. Grows
  BY OneStep
<1>2. CASE Past(q)
  BY <1>2, PastStays
<1>3. ASSUME NEW k \in Keys \ {NoBatch}, KeptBy(q, k)
      PROVE  Kept(q)' \/ Past(q)'
  <2>1. q.events \subseteq DOMAIN rows /\ q.events # {}
    BY DEF OneInv, AllDelivered, Delivered
  <2>2. ASSUME NEW b \in pending, Take(b)
        PROVE  Kept(q)'
    <3>1. CASE UNCHANGED rows
      BY <1>1, <1>3, <2>1, <3>1, KeptStays
    <3>2. CASE Free(NewBatch) /\ Tagging(b, NewBatch) /\ \A e \in b : rows[e].batch = NoBatch
      <4>1. \A e \in b : rows[e].batch # k
        BY <1>3, <3>2
      <4>2. b \subseteq DOMAIN rows /\ ~Confirm
        BY <2>2, TakenFacts DEF Take, Confirm
      <4>3. QED
        BY <1>3, <3>2, <4>1, <4>2, KeptTagged
    <3>3. QED
      BY <2>2, <3>1, <3>2, TakenFacts
  <2>3. CASE Rekey
    <3>1. /\ pc = "request" /\ UNCHANGED <<todo, items, pending, hand, pc, body, site>> /\ ~Confirm
          /\ Free(NewBatch) /\ Tagging(hand, NewBatch)
          /\ legacy /\ \E r \in accepted : r.legacy /\ r # Request
      BY <2>3, OneFacts, RekeyFacts DEF Rekey, Confirm
    <3>2. CASE \E e \in hand : rows[e].batch = k
      <4>1. /\ hand \subseteq q.events /\ k = Legacy
            /\ \A e \in q.events \ hand : rows[e].failed /\ Gone(e)
        BY <1>3, <3>1, <3>2, HandOfKept
      <4>2. q.legacy /\ q # Request
        BY <1>3, <3>1, <4>1 DEF KeptBy, OneInv, AllDelivered
      <4>3. CASE q.events = hand
        <5>1. q = [legacy |-> q.legacy, events |-> q.events, site |-> q.site]
              /\ q.legacy \in BOOLEAN /\ legacy \in BOOLEAN
          BY OneFacts DEF TablesOK, JobOK, Requests
        <5>2. q.site # body
          BY <3>1, <4>2, <4>3, <5>1 DEF Request
        <5>3. q.site \in Nat /\ body \in Nat /\ site \in Nat /\ q.site <= body /\ body <= site
          <6>1. q.site \in Nat
            BY OneFacts, BoundsAssumption DEF TablesOK, Requests
          <6>2. QED
            BY <3>1, <6>1, SiteStep DEF OneInv, AllDelivered, Delivered, Sending
        <5>4. q.site < site' /\ q.site < body'
          BY <3>1, <5>2, <5>3
        <5>5. QED
          BY <5>4 DEF Past
      <4>4. CASE q.events # hand
        <5>1. PICK e \in q.events : rows[e].failed /\ Gone(e)
          BY <4>1, <4>4
        <5>2. rows'[e].failed /\ Gone(e)'
          BY <1>1, <2>1, <5>1, GoneStays DEF Grows
        <5>3. QED
          BY <5>2 DEF Past
      <4>5. QED
        BY <4>3, <4>4
    <3>3. CASE \A e \in hand : rows[e].batch # k
      <4>1. hand \subseteq DOMAIN rows
        BY <3>1, HandFacts
      <4>2. QED
        BY <1>3, <3>1, <3>3, <4>1, KeptTagged
    <3>4. QED
      BY <3>2, <3>3
  <2>4. CASE Reject
    <3>1. /\ pc = "request" /\ ~Confirm
          /\ \E e \in hand : rows[e].owner \in Refused
          /\ UNCHANGED rows \/ Tagging(hand, NoBatch)
      BY <2>4, OneFacts, RejectFacts DEF Reject, Confirm
    <3>2. CASE \E e \in hand : rows[e].batch = k
      <4>1. hand \subseteq q.events
        BY <1>3, <3>1, <3>2, HandOfKept
      <4>2. QED
        BY <3>1, <4>1 DEF OneInv, AllDelivered, Delivered
    <3>3. CASE \A e \in hand : rows[e].batch # k
      <4>1. hand \subseteq DOMAIN rows
        BY <3>1, HandFacts
      <4>2. CASE UNCHANGED rows
        BY <1>1, <1>3, <2>1, <4>2, KeptStays
      <4>3. CASE Tagging(hand, NoBatch)
        BY <1>3, <3>1, <3>3, <4>1, <4>3, KeptTagged
      <4>4. QED
        BY <3>1, <4>2, <4>3
    <3>4. QED
      BY <3>2, <3>3
  <2>5. CASE Confirm
    <3>1. /\ pc = "confirm" /\ rows' = Marked(hand)
          /\ \A e \in DOMAIN rows : /\ rows'[e].batch = rows[e].batch
                                    /\ rows'[e].sent <=> rows[e].sent \/ e \in hand
      BY <2>5, OneFacts, RowsSent DEF Confirm
    <3>2. ASSUME NEW d \in q.events, NEW e \in q.events, rows'[d].sent, ~rows[d].sent
          PROVE  Gone(e)'
      <4>1. d \in hand /\ rows[d].batch = k
        BY <1>3, <2>1, <3>1, <3>2 DEF KeptBy
      <4>2. \A c \in q.events \ hand : Gone(c)
        BY <1>3, <3>1, <4>1, HandOfKept
      <4>3. CASE e \notin hand
        BY <1>1, <2>1, <4>2, <4>3, GoneStays
      <4>4. CASE e \in hand
        <5>1. rows'[e].sent
          BY <2>1, <3>1, <4>4
        <5>2. UNCHANGED <<todo, items, pending>> /\ hand' = {} /\ todo = {} /\ items = {}
          BY <2>5, OneFacts DEF Confirm, Drop, Shape
        <5>3. \A b \in pending : e \notin b
          BY <4>4 DEF OneInv, Apart
        <5>4. ~InHand(e)'
          BY <5>2, <5>3 DEF InHand
        <5>5. QED
          BY <5>1, <5>4 DEF Gone, Queued
      <4>5. QED
        BY <4>3, <4>4
    <3>3. QED
      BY <1>1, <1>3, <2>1, <3>1, <3>2, KeptStays
  <2>6. CASE ~Rekey /\ ~Reject /\ ~Confirm /\ \A b \in pending : ~Take(b)
    <3>1. \A e \in DOMAIN rows : rows'[e].batch = rows[e].batch
      BY <2>6, KeysStay
    <3>2. \A e \in DOMAIN rows : rows'[e].sent = rows[e].sent
      BY <2>6, SentStays
    <3>3. QED
      BY <1>1, <1>3, <2>1, <3>1, <3>2, KeptStays
  <2>7. QED
    BY <2>2, <2>3, <2>4, <2>5, <2>6
<1>4. QED
  BY <1>2, <1>3 DEF OneInv, AllKept, Kept

\* The request in hand keeps its key, and differs from an earlier one that
\* shares an event with it for a reason.
LEMMA NewRequest ==
  ASSUME OneInv, OneNext, Accept, NEW r, r = Request, Cardinality(hand) > 1
  PROVE  /\ Kept(r)'
         /\ \A q \in accepted :
              /\ q # r /\ q.events \intersect hand # {} /\ Cardinality(q.events) > 1
              => Changed(q, r)
<1>1. Grows /\ pc = "request" /\ UNCHANGED rows
  BY OneStep DEF Accept
<1>2. PICK k \in Keys :
        /\ hand # {} /\ hand \subseteq DOMAIN rows
        /\ \A e \in hand : rows[e].batch = k /\ InHand(e)
        /\ legacy <=> k = Legacy
  BY <1>1, HandFacts
<1>3. /\ r.events = hand /\ r.site = body /\ r.legacy = legacy
      /\ r = [legacy |-> legacy, events |-> hand, site |-> body]
  BY DEF Request
<1>4. k # NoBatch
  BY <1>1, <1>2 DEF OneInv, AllBatched
<1>5. KeptBy(r, k)
  <2>1. Batched(hand)
    BY DEF OneInv, AllBatched
  <2>2. \A d \in DOMAIN rows \ hand : rows[d].batch = k => Gone(d)
    BY <1>2, <1>4, <2>1 DEF Batched
  <2>3. \A d \in hand : ~rows[d].sent
    BY <1>2 DEF OneInv, Unsent
  <2>4. QED
    BY <1>2, <1>3, <2>2, <2>3 DEF KeptBy
<1>6. Kept(r)'
  <2>1. \A d \in r.events : rows'[d].sent => rows[d].sent
    BY <1>1
  <2>2. QED
    BY <1>1, <1>2, <1>3, <1>4, <1>5, <2>1, KeptStays
<1>7. ASSUME NEW q \in accepted, q # r, q.events \intersect hand # {},
             Cardinality(q.events) > 1
      PROVE  Changed(q, r)
  <2>1. CASE Past(q)
    <3>1. CASE \E d \in q.events : rows[d].failed /\ Gone(d)
      BY <1>2, <1>3, <3>1 DEF Gone, Changed
    <3>2. CASE q.site < site /\ (Sending => q.site < body)
      <4>1. q.site \in Nat /\ body \in Nat /\ Sending
        BY <1>1, OneFacts, SiteStep, BoundsAssumption DEF TablesOK, Requests, Sending
      <4>2. QED
        BY <1>3, <3>2, <4>1 DEF Changed
    <3>3. QED
      BY <2>1, <3>1, <3>2 DEF Past
  <2>2. ASSUME NEW l \in Keys \ {NoBatch}, KeptBy(q, l)
        PROVE  Changed(q, r)
    <3>1. \E e \in hand : rows[e].batch = l
      BY <1>7, <2>2 DEF KeptBy
    <3>2. /\ hand \subseteq q.events
          /\ \A e \in q.events \ hand : rows[e].failed
          /\ legacy <=> l = Legacy
      BY <1>1, <2>2, <3>1, HandOfKept
    <3>3. CASE q.events # hand
      BY <1>3, <3>2, <3>3 DEF Changed
    <3>4. CASE q.events = hand
      <4>1. q = [legacy |-> q.legacy, events |-> q.events, site |-> q.site]
            /\ q.legacy \in BOOLEAN /\ legacy \in BOOLEAN
        BY OneFacts DEF TablesOK, JobOK, Requests
      <4>2. q.legacy = legacy
        BY <2>2, <3>2, <4>1 DEF KeptBy
      <4>3. q.site # body
        BY <1>3, <1>7, <3>4, <4>1, <4>2
      <4>4. QED
        BY <1>3, <4>3 DEF Changed
    <3>5. QED
      BY <3>3, <3>4
  <2>3. QED
    BY <1>7, <2>1, <2>2 DEF OneInv, AllKept, Kept
<1>8. QED
  BY <1>6, <1>7

LEMMA ChangedStays ==
  ASSUME OneInv, OneNext, NEW q, NEW r, q.events \subseteq DOMAIN rows,
         r.events \subseteq DOMAIN rows, Changed(q, r)
  PROVE  Changed(q, r)' /\ Changed(r, q)'
<1>1. Grows
  BY OneStep
<1>2. QED
  BY <1>1 DEF Grows, Changed

LEMMA DeliveryStep ==
  ASSUME OneInv, OneNext
  PROVE  AllKept' /\ BatchMailedOnce'
<1>1. \A q \in accepted : Cardinality(q.events) > 1 => Kept(q)' \/ Past(q)'
  BY AllKeptStep
<1>2. \A q \in accepted : q.events \subseteq DOMAIN rows
  BY DEF OneInv, AllDelivered, Delivered
<1>3. ASSUME NEW q \in accepted, NEW r \in accepted, q # r, q.events \intersect r.events # {},
             Cardinality(q.events) > 1, Cardinality(r.events) > 1
      PROVE  Changed(q, r)'
  <2>1. Changed(q, r)
    BY <1>3 DEF OneInv, Alone, BatchMailedOnce
  <2>2. QED
    BY <1>2, <2>1, ChangedStays
<1>4. CASE ~Accept
  <2>1. accepted' = accepted
    BY <1>4, OnlyAccept
  <2>2. QED
    BY <1>1, <1>3, <2>1 DEF AllKept, BatchMailedOnce
<1>5. CASE Accept
  <2>1. PICK r \in Requests : r = Request /\ r.events = hand /\ accepted' = accepted \union {r}
    BY <1>5, OneFacts, AcceptFacts
  <2>2. pc = "request" /\ hand \subseteq DOMAIN rows
    BY <1>5, HandFacts DEF Accept
  <2>3. AllKept'
    <3>1. Cardinality(r.events) > 1 => Kept(r)'
      BY <1>5, <2>1, NewRequest
    <3>2. QED
      BY <1>1, <2>1, <3>1 DEF AllKept
  <2>4. ASSUME NEW q \in accepted, q # r, q.events \intersect r.events # {},
               Cardinality(q.events) > 1, Cardinality(r.events) > 1
        PROVE  Changed(q, r)' /\ Changed(r, q)'
    <3>1. Changed(q, r)
      BY <1>5, <2>1, <2>4, NewRequest
    <3>2. QED
      BY <1>2, <2>1, <2>2, <3>1, ChangedStays
  <2>5. BatchMailedOnce'
    <3> SUFFICES ASSUME NEW q \in accepted', NEW p \in accepted',
                        q # p, q.events \intersect p.events # {},
                        Cardinality(q.events) > 1, Cardinality(p.events) > 1
                 PROVE  Changed(q, p)'
      BY DEF BatchMailedOnce
    <3>1. CASE q \in accepted /\ p \in accepted
      BY <1>3, <3>1
    <3>2. CASE q \in accepted /\ p = r
      BY <2>4, <3>2
    <3>3. CASE q = r /\ p \in accepted
      BY <2>4, <3>3
    <3>4. QED
      BY <2>1, <3>1, <3>2, <3>3
  <2>6. QED
    BY <2>3, <2>5
<1>6. QED
  BY <1>4, <1>5

-----------------------------------------------------------------------------
(* All behaviours *)

\* The inductive invariant.
IInv == Ever /\ (~overtaken => OneInv)

LEMMA InitIInv == Init => IInv
<1> SUFFICES ASSUME Init PROVE IInv
  OBVIOUS
<1>1. /\ mailOn = [u \in Users |-> TRUE] /\ recent = [u \in Users |-> 0] /\ site = 0
      /\ barred = {} /\ overtaken = FALSE /\ upsets = 0 /\ NoJob /\ Behind!NoJob
  BY DEF Init
<1>2. \A u \in Users : Event(u, "new_material", Legacy) \in Row
  BY KeyFacts, Zenon DEF Event, Row
<1> DEFINE q0 == [legacy |-> TRUE, events |-> {1, 2}, site |-> 0]
           Two == /\ DOMAIN rows = {1, 2}
                  /\ \A e \in {1, 2} :
                       /\ rows[e].owner \notin Refused /\ rows[e].kind = "new_material"
                       /\ ~rows[e].sent /\ ~rows[e].failed /\ rows[e].batch = Legacy
<1>3. /\ rows \in Seq(Row) /\ Len(rows) <= MaxEvents
      /\ (DOMAIN rows = {} /\ accepted = {}) \/ (Two /\ accepted \in {{}, {q0}})
  <2>1. CASE rows = <<>> /\ accepted = {}
    BY <2>1, BoundsAssumption
  <2>2. ASSUME NEW u \in Users \ Refused, NEW v \in Users \ Refused,
               rows = <<Event(u, "new_material", Legacy), Event(v, "new_material", Legacy)>>
        PROVE  rows \in Seq(Row) /\ Len(rows) <= MaxEvents /\ Two
    <3>1. /\ rows \in Seq(Row) /\ Len(rows) = 2 /\ DOMAIN rows = {1, 2}
          /\ rows[1] = Event(u, "new_material", Legacy)
          /\ rows[2] = Event(v, "new_material", Legacy)
      BY <1>2, <2>2
    <3>2. QED
      BY <2>2, <3>1, BoundsAssumption DEF Event
  <2> HIDE DEF Two
  <2>3. QED
    BY <2>1, <2>2 DEF Init
<1>4. accepted \subseteq Requests
  <2>1. q0 \in Requests
    <3>1. TRUE \in BOOLEAN /\ {1, 2} \in SUBSET Ids /\ 0 \in 0..MaxUpsets
      BY BoundsAssumption DEF Ids
    <3>2. QED
      BY <3>1, Zenon DEF Requests
  <2>2. QED
    BY <1>3, <2>1
<1>5. TypeOK
  <2>1. TablesOK
    <3>1. mailOn \in [Users -> BOOLEAN]
      BY <1>1
    <3>2. recent \in [Users -> {0} \union DOMAIN rows]
      BY <1>1
    <3>3. site \in 0..upsets /\ upsets \in 0..MaxUpsets
      BY <1>1, BoundsAssumption
    <3>4. overtaken \in BOOLEAN
      BY <1>1
    <3>5. QED
      BY <1>3, <1>4, <3>1, <3>2, <3>3, <3>4 DEF TablesOK
  <2>2. JobOK
    <3>1. read \in [DOMAIN read -> Keys] /\ DOMAIN read = {}
      BY <1>1, NothingRead DEF NoJob
    <3>2. body \in 0..MaxUpsets
      BY <1>1, BoundsAssumption DEF NoJob
    <3>3. QED
      BY <1>1, <3>1, <3>2 DEF NoJob, JobOK
  <2>3. Behind!JobOK
    <3>1. readB \in [DOMAIN readB -> Keys] /\ DOMAIN readB = {}
      BY <1>1, NothingRead DEF Behind!NoJob
    <3>2. bodyB \in 0..MaxUpsets
      BY <1>1, BoundsAssumption DEF Behind!NoJob
    <3>3. Behind!Keys = Keys
      BY DEF Behind!Keys, Keys, Behind!NoBatch, NoBatch
    <3>4. QED
      BY <1>1, <3>1, <3>2, <3>3 DEF Behind!NoJob, Behind!JobOK
  <2>4. QED
    BY <1>1, <2>1, <2>2, <2>3 DEF TypeOK
<1>6. Ever
  <2>1. Shape /\ Answered /\ Other!Shape /\ Other!Answered
    BY <1>1 DEF NoJob, Behind!NoJob, Shape, Answered, Other!Shape, Other!Answered
  <2>2. SentWasMailed /\ Off
    BY <1>1, <1>3 DEF SentWasMailed, Off
  <2>3. QED
    BY <1>5, <2>1, <2>2 DEF Ever
<1>7. Alone /\ Apart /\ AllBatched /\ Current /\ Unsent /\ Looked
  BY <1>1, <1>3 DEF Alone, NoJob, Apart, AllBatched, Batched, Current, Unsent, InHand, Looked
<1>8. q0.legacy = TRUE /\ q0.events = {1, 2} /\ q0.site = 0
  OBVIOUS
<1> HIDE DEF q0
<1>9. /\ \A q \in accepted : q = q0 /\ Two
      /\ AllDelivered
  <2>1. \A q \in accepted : q = q0 /\ Two
    BY <1>3
  <2>2. ~Sending
    BY <1>1 DEF NoJob, Sending
  <2>3. QED
    BY <1>1, <1>8, <2>1, <2>2 DEF AllDelivered, Delivered
<1>10. AllKept
  <2>1. Legacy \in Keys \ {NoBatch}
    BY KeyFacts
  <2>2. \A q \in accepted : KeptBy(q, Legacy)
    BY <1>8, <1>9 DEF KeptBy
  <2>3. QED
    BY <2>1, <2>2 DEF AllKept, Kept
<1>11. BatchMailedOnce
  BY <1>9 DEF BatchMailedOnce
<1>12. Reminded
  BY <1>1, <1>3 DEF Reminded, IsReminder
<1>13. QED
  BY <1>6, <1>7, <1>9, <1>10, <1>11, <1>12 DEF IInv, OneInv

\* Without a job left behind, every step but Overtake is one of OneNext; an
\* overtaken job is not forgotten.
LEMMA NextCases ==
  ASSUME IInv, [Next]_vars
  PROVE  \/ OneInv /\ OneNext
         \/ ~overtaken /\ Overtake
         \/ overtaken /\ overtaken'
<1>1. CASE OneNext
  <2>1. overtaken' = overtaken /\ overtaken \in BOOLEAN
    <3>1. CASE UserNext
      BY <3>1, UserStep DEF IInv, Ever, TypeOK, TablesOK
    <3>2. CASE Go \/ Mishap
      BY <3>2, JobStep DEF IInv, Ever, TypeOK, TablesOK
    <3>3. CASE Start
      BY <3>3 DEF Start, sharedVars, IInv, Ever, TypeOK, TablesOK
    <3>4. QED
      BY <1>1, <3>1, <3>2, <3>3 DEF OneNext
  <2>2. QED
    BY <1>1, <2>1 DEF IInv
<1>2. CASE Overtake
  BY <1>2 DEF Overtake
<1>3. CASE Behind!Go \/ Behind!Mishap
  <2>1. overtaken' = overtaken
    BY <1>3, BehindStep DEF IInv, Ever
  <2>2. ~Behind!NoJob
    BY <1>3 DEF Behind!NoJob, Behind!Go, Behind!Mishap, Behind!Look, Behind!Remind, Behind!Load,
       Behind!Check, Behind!Plan, Behind!Take, Behind!Accept, Behind!Rekey, Behind!Reject,
       Behind!Confirm, Behind!EndPass, Behind!Fail, Behind!Crash
  <2>3. QED
    BY <2>1, <2>2 DEF IInv, OneInv, Alone
<1>4. OneNext \/ Overtake \/ Behind!Go \/ Behind!Mishap
  <2>1. CASE UNCHANGED vars
    BY <2>1 DEF OneNext, UserNext
  <2>2. CASE Next
    <3>1. CASE \E u \in Users : NewMaterial(u) \/ CooldownEnds(u) \/ ChangeMind(u)
      BY <3>1 DEF OneNext, UserNext
    <3>2. CASE Move
      BY <3>2 DEF OneNext, UserNext
    <3>3. CASE Pass
      BY <3>3 DEF Pass, OneNext
    <3>4. CASE Mishap /\ UNCHANGED <<behindVars, barred>>
      BY <3>4 DEF OneNext
    <3>5. QED
      BY <2>2, <3>1, <3>2, <3>3, <3>4 DEF Next
  <2>3. QED
    BY <2>1, <2>2
<1>5. QED
  BY <1>1, <1>2, <1>3, <1>4

\* The inductive invariant holds of every behaviour, whatever fails in it.
THEOREM Invariance == Spec => []IInv
<1>1. IInv /\ [Next]_vars => IInv'
  <2> SUFFICES ASSUME IInv, [Next]_vars PROVE IInv'
    OBVIOUS
  <2>1. Ever'
    BY EverStep DEF IInv
  <2>2. CASE OneInv /\ OneNext
    <3>1. OneInv'
      BY <2>1, <2>2, OneStep, ApartStep, AllBatchedStep, CurrentStep, UnsentStep,
         AllDeliveredStep, DeliveryStep, LookedStep, RemindedStep DEF OneInv
    <3>2. QED
      BY <2>1, <3>1 DEF IInv
  <2>3. CASE overtaken'
    BY <2>1, <2>3 DEF IInv
  <2>4. QED
    BY <2>2, <2>3, NextCases DEF Overtake
<1>2. QED
  BY InitIInv, <1>1, PTL DEF Spec

\* The tables and the locals of both jobs keep their shapes.
THEOREM TypeCorrect == Spec => []TypeOK
<1>1. IInv => TypeOK
  BY DEF IInv, Ever
<1>2. QED
  BY <1>1, Invariance, PTL

\* send_pending marks an event sent only if a request with it was delivered,
\* also if it runs beside another one.
THEOREM SentIsMailed == Spec => []SentWasMailed
<1>1. IInv => SentWasMailed
  BY DEF IInv, Ever
<1>2. QED
  BY <1>1, Invariance, PTL

\* The derived keys keep a batch of several from going out twice while no job
\* was overtaken: whatever is lost, refused or rekeyed, a second mail of an
\* event has another body or leaves out a member that must not be mailed.
THEOREM OneMailPerBatch == Spec => []BatchMailedOnce
<1>1. IInv => BatchMailedOnce
  BY DEF IInv, OneInv, BatchMailedOnce
<1>2. QED
  BY <1>1, Invariance, PTL

\* opt_out settles what is queued for good, but for what a job has in hand,
\* and no job sends it, be it overtaken or not.
THEOREM OptOutIsFinal == Spec => OffIsOff
<1>1. IInv /\ [Next]_vars => \A e \in barred : Mailed(e)' => Mailed(e)
  <2> SUFFICES ASSUME IInv, [Next]_vars, NEW e \in barred, Mailed(e)' PROVE Mailed(e)
    OBVIOUS
  <2>1. e \notin hand /\ e \notin handB
    BY DEF IInv, Ever, Off, OnItsWay, InHand, Behind!InHand
  <2>2. CASE Go \/ Mishap
    <3>1. Sends
      BY <2>2, JobStep DEF IInv, Ever, TypeOK
    <3>2. QED
      BY <2>1, <3>1 DEF Sends, Mailed
  <2>3. CASE Behind!Go \/ Behind!Mishap
    <3>1. \A q \in accepted' \ accepted : q.events \subseteq handB
      BY <2>3, BehindStep DEF IInv, Ever
    <3>2. QED
      BY <2>1, <3>1 DEF Mailed
  <2>4. CASE UNCHANGED accepted
    BY <2>4 DEF Mailed
  <2>5. UserNext => UNCHANGED accepted
    BY UserStep DEF IInv
  <2>6. QED
    BY <2>2, <2>3, <2>4, <2>5
    DEF Next, Pass, UserNext, Start, Overtake, Leave, sharedVars
<1>2. IInv /\ [Next]_vars => [\A e \in barred : Mailed(e)' => Mailed(e)]_vars
  BY <1>1
<1>3. QED
  BY <1>2, Invariance, PTL DEF Spec, OffIsOff

\* check_review_due does not have a user reminded twice within the cooldown,
\* unless the earlier reminder was failed on its way or a job was overtaken.
THEOREM OneReminder == Spec => RemindersApart
<1> DEFINE A == \A u \in Users :
                  ~overtaken /\ recent[u] # 0 /\ recent'[u] \notin {0, recent[u]}
                    => rows[recent[u]].failed
<1>1. ASSUME IInv, [Next]_vars, NEW u \in Users, ~overtaken, recent[u] # 0,
             recent'[u] \notin {0, recent[u]}
      PROVE  rows[recent[u]].failed
  <2>1. OneInv /\ OneNext
    BY <1>1, NextCases DEF Overtake, Leave
  <2>2. PICK d \in DOMAIN rows : d = recent[u] /\ IsReminder(d, u)
    BY <1>1, <2>1 DEF OneInv, Reminded, IsReminder
  <2>3. PICK e \in DOMAIN rows : e = recent'[u] /\ IsReminder(e, u) /\ InHand(e)
    BY <1>1, <2>1, RecentStep DEF IsReminder
  <2>4. d < e \/ e < d
    BY <1>1, <2>1, <2>2, <2>3, OneFacts
  <2>5. CASE d < e
    BY <2>1, <2>2, <2>3, <2>5 DEF OneInv, Reminded, Over
  <2>6. CASE e < d
    BY <2>1, <2>2, <2>3, <2>6 DEF OneInv, Reminded
  <2>7. QED
    BY <2>2, <2>4, <2>5, <2>6
<1>2. IInv /\ [Next]_vars => [A]_vars
  BY <1>1
<1>3. QED
  BY <1>2, Invariance, PTL DEF Spec, RemindersApart
=============================================================================
