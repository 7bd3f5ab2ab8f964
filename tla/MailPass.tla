-------------------------------- MODULE MailPass --------------------------------
(***************************************************************************)
(* One notify job of app/notify.py (run_notify_job): it queues reminders,  *)
(* loads the unsent events and sends them in batches to the mail service,  *)
(* which answers a repeated key with its first answer and sends nothing    *)
(* again.                                                                  *)
(*                                                                         *)
(* The first variables are shared: the tables, as committed, and what the  *)
(* service knows.  The others are the locals of one job.  A request may be *)
(* accepted although its answer is lost, and a job may die anywhere.  The  *)
(* order in which it takes its batches is left open.                       *)
(***************************************************************************)
EXTENDS Integers, Sequences, FiniteSets

CONSTANTS
  Users,
  Refused,     \* users whose address the service does not validate
  BatchSize,   \* BATCH_SIZE (100)
  MaxEvents,   \* bound on the events
  LateEvents,  \* the same where a job was overtaken
  MaxUpsets    \* bound on faults, deployments and switches of a user's mind

ASSUME UsersAssumption == Refused \subseteq Users
ASSUME BoundsAssumption ==
  /\ BatchSize \in Nat \ {0} /\ MaxUpsets \in Nat
  /\ MaxEvents \in Nat \ {0, 1} /\ LateEvents \in 0..MaxEvents

VARIABLES
  mailOn,     \* users.notify_email
  recent,     \* the last reminder mailed to a user within the cooldown, or 0
  rows,       \* notification_events, by creation
  site,       \* the version of what a body is made of (base URL, addresses)
  accepted,   \* the requests the service has delivered, with their keys
  overtaken,  \* history: a job was given up while its process went on
  upsets,
  pc,         \* the place of a job
  remind,     \* the user it has found due for a reminder, if any
  body,       \* what its mails are rendered with
  todo, items, pending, hand,   \* events to check and kept, batches, the one in hand
  read,       \* the keys of the events as they were read
  cached,     \* the events whose rows the session still holds as read
  legacy      \* the batch in hand goes out under the key of before

sharedVars == <<mailOn, recent, rows, site, accepted, overtaken, upsets>>
jobVars == <<pc, remind, body, todo, items, pending, hand, read, cached, legacy>>

-----------------------------------------------------------------------------
NoBatch == -1
Legacy == 0           \* the batch_key of before, itself the key of the request
Batches == 1..(MaxEvents + 1)
Keys == NoBatch..(MaxEvents + 1)
Ids == 1..MaxEvents

Row == [owner : Users, kind : {"new_material", "review_due"},
        sent : BOOLEAN, failed : BOOLEAN, batch : Keys]

Event(u, k, b) == [owner |-> u, kind |-> k, sent |-> FALSE, failed |-> FALSE, batch |-> b]

\* What the service keys and compares: the events and the body.
Requests == [legacy : BOOLEAN, events : SUBSET Ids, site : 0..MaxUpsets]

Queued(e) == ~rows[e].sent /\ ~rows[e].failed
Waiting == {e \in DOMAIN rows : Queued(e)}
InHand(e) == e \in todo \union items \union hand \union UNION pending
Mailed(e) == \E q \in accepted : e \in q.events

Oldest(b) == CHOOSE e \in b : \A d \in b : e <= d

\* The batch key of an event as the job sees it: rows are read again only
\* after a commit of its own session.
Key(e) == IF e \in cached THEN read[e] ELSE rows[e].batch

\* A key that no row has (a uuid).
NewBatch == CHOOSE k \in Batches : \A e \in DOMAIN rows : rows[e].batch # k

Tagged(b, k) == [e \in DOMAIN rows |-> IF e \in b THEN [rows[e] EXCEPT !.batch = k]
                                                  ELSE rows[e]]

\* There are Ids for another event.
Room == Len(rows) < IF overtaken THEN LateEvents ELSE MaxEvents

\* Faults, deployments and changes of mind are bounded together.
Upset ==
  /\ upsets < MaxUpsets
  /\ upsets' = upsets + 1

NoJob ==
  /\ pc = "idle" /\ remind = {} /\ body = 0
  /\ todo = {} /\ items = {} /\ pending = {} /\ hand = {}
  /\ read = <<>> /\ cached = {} /\ legacy = FALSE

-----------------------------------------------------------------------------
(* run_notify_job: check_review_due for each user *)

Start ==
  /\ pc = "idle"
  /\ pc' = "look"
  /\ UNCHANGED <<sharedVars, remind, body, todo, items, pending, hand, read, cached, legacy>>

\* The reminders of a user that were not failed; the last of them counts.
Reminders(u) ==
  {e \in DOMAIN rows : rows[e].owner = u /\ rows[e].kind = "review_due" /\ ~rows[e].failed}

\* Mutant: only the queue is looked at, not the last delivery.
RemindableUncooled(u) == \A e \in Reminders(u) : rows[e].sent

\* check_review_due's last reminder: delivered, and that a cooldown ago.
Remindable(u) ==
  \A e \in Reminders(u) : (\A d \in Reminders(u) : d <= e) => rows[e].sent /\ recent[u] # e

\* The user is active, has enough items due, and was not reminded lately.
Look(u) ==
  /\ pc = "look" /\ remind = {}
  /\ mailOn[u] /\ Remindable(u) /\ Room
  /\ remind' = {u}
  /\ UNCHANGED <<sharedVars, pc, body, todo, items, pending, hand, read, cached, legacy>>

\* The reminder is committed (if there is Room for it).
Remind(u) ==
  /\ u \in remind
  /\ remind' = {}
  /\ rows' = IF Room THEN Append(rows, Event(u, "review_due", NoBatch)) ELSE rows
  /\ UNCHANGED <<mailOn, recent, site, accepted, overtaken, upsets,
                 pc, body, todo, items, pending, hand, read, cached, legacy>>

-----------------------------------------------------------------------------
(* send_pending *)

\* The unsent events are loaded.
Load ==
  /\ pc = "look" /\ remind = {}
  /\ pc' = "check"
  /\ body' = site
  /\ todo' = Waiting
  /\ read' = [e \in Waiting |-> rows[e].batch]
  /\ cached' = Waiting
  /\ UNCHANGED <<sharedVars, remind, items, pending, hand, legacy>>

\* _undeliverable: the owner opted out, or a reminder's has gone inactive.
\* (Every user has an address.)  An opt-out that came after the load, and so
\* has failed the row, is seen only if the session reads the user again.
Undeliverable(e, inactive, unseen) ==
  \/ ~mailOn[rows[e].owner] /\ ~(rows[e].failed /\ unseen)
  \/ inactive /\ rows[e].kind = "review_due"

\* The oldest of them is failed for good, in a commit of its own, or kept.
Check ==
  LET e == Oldest(todo) IN
  /\ pc = "check" /\ todo # {}
  /\ todo' = todo \ {e}
  /\ \E inactive, unseen \in BOOLEAN :
       IF Undeliverable(e, inactive, unseen)
         THEN /\ rows' = [rows EXCEPT ![e].failed = TRUE]
              /\ cached' = {}
              /\ UNCHANGED <<items, read>>
         ELSE /\ items' = items \union {e}
              /\ read' = [read EXCEPT ![e] = Key(e)]
              /\ cached' = cached \union {e}
              /\ UNCHANGED rows
  /\ UNCHANGED <<mailOn, recent, site, accepted, overtaken, upsets, pc, remind, body, pending, hand, legacy>>

Rank(e, b) == Cardinality({d \in b : d < e})

\* Mutant: a slice too many.
GroupsSlicedOnceMore(I) ==
  {{d \in I : Rank(d, I) \div BatchSize = n} : n \in 0..(Cardinality(I) \div BatchSize)}

\* Mutant: an earlier batch is not told from new events.
GroupsUnkeyed(I) ==
  {{d \in I : Rank(d, I) \div BatchSize = Rank(e, I) \div BatchSize} : e \in I}

\* Earlier batches as they were, the others by BatchSize in their order.
Groups(I) ==
  LET fresh == {e \in I : read[e] = NoBatch} IN
  {{d \in I : read[d] = read[e]} : e \in I \ fresh}
  \union
  {{d \in fresh : Rank(d, fresh) \div BatchSize = Rank(e, fresh) \div BatchSize} : e \in fresh}

Plan ==
  /\ pc = "check" /\ todo = {}
  /\ pc' = "send"
  /\ pending' = Groups(items)
  /\ items' = {}
  /\ read' = [e \in cached |-> read[e]]
  /\ UNCHANGED <<sharedVars, remind, body, todo, hand, cached, legacy>>

\* What a commit of its own does to the rows a session holds.
Expire == read' = <<>> /\ cached' = {}

\* _deliver, up to the request: a batch of several that has no key yet gets
\* one, committed before the request.
Take(b) ==
  /\ pc = "send"
  /\ pc' = "request"
  /\ pending' = pending \ {b}
  /\ hand' = b
  /\ legacy' = (Key(Oldest(b)) = Legacy)
  /\ IF Cardinality(b) > 1 /\ Key(Oldest(b)) = NoBatch
       THEN rows' = Tagged(b, NewBatch) /\ Expire
       ELSE UNCHANGED <<rows, read, cached>>
  /\ UNCHANGED <<mailOn, recent, site, accepted, overtaken, upsets, remind, body, todo, items>>

\* The request in hand: the events and their body, under the key of before or
\* one made of just those (_idempotency_key).
Request == [legacy |-> legacy, events |-> hand, site |-> body]

Conflict == legacy /\ \E q \in accepted : q.legacy /\ q # Request
Invalid == \E e \in hand : rows[e].owner \in Refused

\* The batch is let go, as it is.
Drop ==
  /\ pc' = "send"
  /\ hand' = {}
  /\ legacy' = FALSE

\* send_batch is accepted: delivered, or recognised by its key.  The answer
\* arrives or is lost.
Accept ==
  /\ pc = "request"
  /\ ~Conflict
  /\ ~Invalid \/ Request \in accepted
  /\ accepted' = accepted \union {Request}
  /\ recent' = [u \in Users |->
       LET new == {e \in hand : rows[e].owner = u /\ rows[e].kind = "review_due"
                                   /\ Request \notin accepted}
       IN IF new = {} THEN recent[u] ELSE CHOOSE e \in new : \A d \in new : d <= e]
  /\ \/ pc' = "confirm" /\ UNCHANGED <<hand, legacy, upsets>>
     \/ Upset /\ Drop
  /\ UNCHANGED <<mailOn, rows, site, overtaken, remind, body, todo, items, pending, read, cached>>

\* No answer, or a 5xx; or a 429 that outlasts the retries ends the pass.
Fail ==
  /\ pc = "request"
  /\ Upset
  /\ Drop
  /\ \/ UNCHANGED pending
     \/ pending' = {}
  /\ UNCHANGED <<mailOn, recent, rows, site, accepted, overtaken, remind, body, todo, items, read, cached>>

\* KEY_CONFLICT: the legacy batch moves to a key of its body.
Rekey ==
  /\ pc = "request"
  /\ Conflict
  /\ rows' = Tagged(hand, NewBatch)
  /\ Expire
  /\ legacy' = FALSE
  /\ UNCHANGED <<mailOn, recent, site, accepted, overtaken, upsets,
                 pc, remind, body, todo, items, pending, hand>>

\* Mutant: a refused batch is let go as it is.
RejectWhole ==
  /\ pc = "request"
  /\ ~Conflict /\ Invalid /\ Request \notin accepted
  /\ Drop
  /\ UNCHANGED <<sharedVars, remind, body, todo, items, pending, read, cached>>

\* BATCH_REJECTED: nothing went out.  A batch of several loses its key and
\* each of its events is sent alone; a lone event waits for the next pass.
Reject ==
  /\ pc = "request"
  /\ ~Conflict /\ Invalid /\ Request \notin accepted
  /\ IF Cardinality(hand) > 1
       THEN /\ rows' = Tagged(hand, NoBatch)
            /\ Expire
            /\ pending' = pending \union {{e} : e \in hand}
       ELSE UNCHANGED <<rows, read, cached, pending>>
  /\ Drop
  /\ UNCHANGED <<mailOn, recent, site, accepted, overtaken, upsets, remind, body, todo, items>>

Marked(b) ==
  [e \in DOMAIN rows |-> IF e \in b THEN [rows[e] EXCEPT !.sent = TRUE] ELSE rows[e]]

\* Mutant: whatever was planned is marked sent.
ConfirmAll ==
  /\ pc = "confirm"
  /\ rows' = Marked(hand \union UNION pending)
  /\ Expire
  /\ Drop
  /\ UNCHANGED <<mailOn, recent, site, accepted, overtaken, upsets, remind, body, todo, items, pending>>

\* The delivered batch is marked sent.
Confirm ==
  /\ pc = "confirm"
  /\ rows' = Marked(hand)
  /\ Expire
  /\ Drop
  /\ UNCHANGED <<mailOn, recent, site, accepted, overtaken, upsets, remind, body, todo, items, pending>>

Leave ==
  /\ pc' = "idle" /\ remind' = {} /\ body' = 0
  /\ todo' = {} /\ items' = {} /\ pending' = {} /\ hand' = {}
  /\ read' = <<>> /\ cached' = {} /\ legacy' = FALSE
  /\ UNCHANGED <<mailOn, recent, rows, site, accepted>>

EndPass == pc = "send" /\ pending = {} /\ Leave /\ UNCHANGED <<overtaken, upsets>>

Crash == pc # "idle" /\ Upset /\ Leave /\ UNCHANGED overtaken

\* What a job does once it was started, and what may befall it.
Go ==
  \/ \E u \in Users : Look(u)
  \/ \E u \in remind : Remind(u)
  \/ Load \/ Check \/ Plan \/ \E b \in pending : Take(b)
  \/ Accept \/ Rekey \/ Reject \/ Confirm \/ EndPass

Mishap == Fail \/ Crash

-----------------------------------------------------------------------------
\* The tables have their shapes ...
TablesOK ==
  /\ mailOn \in [Users -> BOOLEAN]
  /\ recent \in [Users -> {0} \union DOMAIN rows]
  /\ rows \in Seq(Row) /\ Len(rows) <= MaxEvents
  /\ site \in 0..upsets
  /\ accepted \subseteq Requests
  /\ overtaken \in BOOLEAN
  /\ upsets \in 0..MaxUpsets

\* ... and so have the locals of a job.
JobOK ==
  /\ pc \in {"idle", "look", "check", "send", "request", "confirm"}
  /\ remind \subseteq Users
  /\ body \in 0..MaxUpsets
  /\ todo \union items \union hand \union UNION pending \subseteq DOMAIN rows
  /\ {} \notin pending
  /\ DOMAIN read \subseteq DOMAIN rows
  /\ read \in [DOMAIN read -> Keys]
  /\ todo \union items \union cached \subseteq DOMAIN read
  /\ legacy \in BOOLEAN
=============================================================================
