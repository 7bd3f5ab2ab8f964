--------------------------------- MODULE Mailer ---------------------------------
(***************************************************************************)
(* The notifications of app/notify.py: events queued as rows, notify jobs  *)
(* that send them (MailPass), users who turn email off and on, and         *)
(* deployments.                                                            *)
(*                                                                         *)
(* The queue has one notify job at a time (JobQueue's OneNotifyHolder).    *)
(* That bounds live claims, not senders: a job whose lease lapsed is given *)
(* up while its process may go on, next to the job that is queued after    *)
(* it.  At most one such job is left behind at a time.                     *)
(***************************************************************************)
EXTENDS MailPass

VARIABLES
  barred,     \* history: events that were waiting when their user said no
  \* the locals of the job left behind
  pcB, remindB, bodyB, todoB, itemsB, pendingB, handB, readB, cachedB, legacyB

Behind == INSTANCE MailPass
  WITH pc <- pcB, remind <- remindB, body <- bodyB, todo <- todoB, items <- itemsB,
       pending <- pendingB, hand <- handB, read <- readB, cached <- cachedB, legacy <- legacyB

behindVars == <<pcB, remindB, bodyB, todoB, itemsB, pendingB, handB, readB, cachedB, legacyB>>
vars == <<sharedVars, jobVars, behindVars, barred>>

-----------------------------------------------------------------------------
\* Two events may be left from before derived keys, delivered or not.
Init ==
  /\ mailOn = [u \in Users |-> TRUE]
  /\ recent = [u \in Users |-> 0]
  /\ site = 0
  /\ \/ rows = <<>> /\ accepted = {}
     \/ /\ \E u, v \in Users \ Refused :
             rows = <<Event(u, "new_material", Legacy), Event(v, "new_material", Legacy)>>
        /\ accepted \in {{}, {[legacy |-> TRUE, events |-> {1, 2}, site |-> 0]}}
  /\ upsets = 0
  /\ NoJob /\ Behind!NoJob
  /\ barred = {}
  /\ overtaken = FALSE

-----------------------------------------------------------------------------
(* Events and users *)

\* enqueue_new_material, called by a pipeline run that made items.
NewMaterial(u) ==
  /\ mailOn[u]
  /\ Room
  /\ rows' = Append(rows, Event(u, "new_material", NoBatch))
  /\ UNCHANGED <<mailOn, recent, site, accepted, overtaken, upsets, jobVars, behindVars, barred>>

\* REVIEW_DUE_COOLDOWN after the last delivery was confirmed.
CooldownEnds(u) ==
  /\ recent[u] # 0
  /\ rows[recent[u]].sent \/ rows[recent[u]].failed
  /\ recent' = [recent EXCEPT ![u] = 0]
  /\ UNCHANGED <<mailOn, rows, site, accepted, overtaken, upsets, jobVars, behindVars, barred>>

OnItsWay(e) == InHand(e) \/ Behind!InHand(e)

Switch(u, on) ==
  /\ Upset
  /\ mailOn' = [mailOn EXCEPT ![u] = on]
  /\ barred' = barred \union {e \in Waiting : ~on /\ rows[e].owner = u /\ ~OnItsWay(e)}
  /\ UNCHANGED <<recent, site, accepted, overtaken, jobVars, behindVars>>

\* Mutant: the queue is left as it is.
OptOutLater(u) == Switch(u, FALSE) /\ UNCHANGED rows

\* opt_out, from the settings page or an unsubscribe link.
OptOut(u) ==
  /\ Switch(u, FALSE)
  /\ rows' = [e \in DOMAIN rows |->
                IF e \in Waiting /\ rows[e].owner = u THEN [rows[e] EXCEPT !.failed = TRUE]
                                                      ELSE rows[e]]

OptIn(u) == ~mailOn[u] /\ Switch(u, TRUE) /\ UNCHANGED rows

\* The form on the settings page, or the link in a mail, which needs no
\* session and only ever turns mail off.
ChangeMind(u) == OptOut(u) \/ OptIn(u)

\* What render and recipient_for put in a mail besides its event changes:
\* the URL and secret its links are made with, or the owner's address.
Move ==
  /\ Upset
  /\ site' = site + 1
  /\ UNCHANGED <<mailOn, recent, rows, accepted, overtaken, jobVars, behindVars, barred>>

-----------------------------------------------------------------------------
(* Jobs *)

\* The lease of a job lapses, and it is failed, having one attempt; its
\* process does not know.
Overtake ==
  /\ pc # "idle" /\ pcB = "idle"
  /\ Len(rows) <= LateEvents
  /\ Upset
  /\ pcB' = pc /\ remindB' = remind /\ bodyB' = body
  /\ todoB' = todo /\ itemsB' = items /\ pendingB' = pending /\ handB' = hand
  /\ readB' = read /\ cachedB' = cached /\ legacyB' = legacy
  /\ Leave
  /\ overtaken' = TRUE
  /\ UNCHANGED barred

Pass == (Start \/ Go) /\ UNCHANGED <<behindVars, barred>>

Next ==
  \/ \E u \in Users : NewMaterial(u) \/ CooldownEnds(u) \/ ChangeMind(u)
  \/ Move
  \/ Pass
  \/ Mishap /\ UNCHANGED <<behindVars, barred>>
  \/ Overtake
  \/ (Behind!Go \/ Behind!Mishap) /\ UNCHANGED <<jobVars, barred>>

Spec == Init /\ [][Next]_vars

\* The worker starts a job every hour, and each goes on; one left behind need
\* not.
FairSpec == Spec /\ WF_vars(Pass)

-----------------------------------------------------------------------------
(* Properties *)

\* The tables and the locals of both jobs have their shapes.
TypeOK == TablesOK /\ JobOK /\ Behind!JobOK /\ barred \subseteq DOMAIN rows

\* An event marked sent went out, whatever was lost, refused, split or
\* overtaken.
SentWasMailed == \A e \in DOMAIN rows : rows[e].sent => Mailed(e)

\* Two requests of the same event that differ for a documented reason: the
\* body changed, by a new URL or by a member that must not be mailed.
Changed(q, r) ==
  \/ q.site # r.site
  \/ \E e \in (q.events \ r.events) \union (r.events \ q.events) : rows[e].failed

\* An event of a batch of several is mailed once while no job was overtaken:
\* lost answers and crashes repeat the very same request, unless its body
\* changed.
BatchMailedOnce ==
  ~overtaken =>
    \A q, r \in accepted :
      /\ q # r /\ q.events \intersect r.events # {}
      /\ Cardinality(q.events) > 1 /\ Cardinality(r.events) > 1
      => Changed(q, r)

\* The same for every event.  The code does not keep this: a lone event has
\* no batch_key, and after a lost answer goes out again among newer events.
MailedOnce ==
  ~overtaken =>
    \A q, r \in accepted :
      q # r /\ q.events \intersect r.events # {} => Changed(q, r)

\* What waited when a user turned email off is not mailed later, also when
\* the user turns it on again or a job was overtaken, unless a job already
\* had it in hand.
OffIsOff == [][\A e \in barred : Mailed(e)' => Mailed(e)]_vars

\* A user is not reminded twice within the cooldown while no job was
\* overtaken, unless the earlier reminder was failed by an opt-out while it
\* was on its way.
RemindersApart ==
  [][\A u \in Users :
       ~overtaken /\ recent[u] # 0 /\ recent'[u] \notin {0, recent[u]}
         => rows[recent[u]].failed]_vars

\* Every event is sent or failed in the end, but for those to an address the
\* service refuses: neither a refused member, nor lost answers, nor a job left
\* behind hold it back.
EveryMailSettles ==
  \A e \in Ids :
    (e \in DOMAIN rows /\ rows[e].owner \notin Refused) ~> (e \in DOMAIN rows /\ ~Queued(e))
=============================================================================
