--------------------------------- MODULE Course ---------------------------------
(***************************************************************************)
(* sync.sync_course over one course: its topics, the rows of one material  *)
(* that the source may list under another topic than before, and one       *)
(* assignment.  What becomes of a row's text and chunks is module          *)
(* Material; here a row is where it is, whether its hash is of the current *)
(* content, and the reviews that hang on it.                               *)
(*                                                                         *)
(* Two syncs of the course may overlap (a cron beside a job, or the two    *)
(* jobs that _enqueue_once lets through), and reviews go on meanwhile.  A  *)
(* sync keeps the rows it loaded as they were; a commit of its own makes   *)
(* it read them again when it next looks at them.                          *)
(***************************************************************************)
EXTENDS Integers, FiniteSetsExt

CONSTANTS
  Topics,       \* the topics of the course
  Made,         \* those an adapter makes up, which are listed only when used
  MaxCopies,    \* bound on rows of the material, and so on their ids
  Syncs,        \* processes that may sync the course
  None,
  MaxReviews,   \* reviews of a copy that are told apart
  MaxUpsets     \* bound on edits in the source and faults of a sync, together

Copies == 1..MaxCopies

ASSUME BoundsAssumption ==
  MaxCopies \in Nat /\ MaxReviews \in Nat /\ MaxUpsets \in Nat
ASSUME TopicsAssumption == Made \subseteq Topics

VARIABLES
  place,    \* the topic the source lists the material under, or None
  due,      \* the assignment's version in the source
  topics,   \* topic rows
  row,      \* resource rows of the material
  work,     \* the assignment row's version, or None
  sync,     \* a sync's place and locals
  upsets

vars == <<place, due, topics, row, work, sync, upsets>>
source == <<place, due, upsets>>

(* A hash is "now" the fingerprint of the current content, or "same", a    *)
(* hash of the same bytes from before there were fingerprints, or "old".   *)
Hashes == {"now", "same", "old"}
Row == [topic : Topics, hash : Hashes, reviews : 0..MaxReviews]

ASSUME NoneAssumption == None \notin Topics \union Copies \union Row

Exists(r) == row[r] # None
Rows == {r \in Copies : Exists(r)}
Stored(r) == [topic |-> row[r].topic, hash |-> row[r].hash]

\* Mutant: the constraint was lost in a migration.
TakenNever(t, r) == FALSE

\* uq_resources_topic_source would refuse r in topic t.
Taken(t, r) == \E x \in Rows \ {r} : row[x].topic = t

Held(r) == Exists(r) \/ \E s \in Syncs : r \in DOMAIN sync[s].have

\* Ids of new rows: the least that no one holds.
Fresh == {r \in Copies : ~Held(r) /\ \A x \in 1..(r - 1) : Held(x)}

\* _progress of a row that was loaded, by now.
Progress(r) == IF Exists(r) THEN row[r].reviews ELSE 0

Off == [at |-> "off", list |-> None, have |-> <<>>, kept |-> None,
        due |-> None, alone |-> TRUE, best |-> 0, stale |-> FALSE]

\* The adapter reads the course once for a whole sync.
Snapshot == [Off EXCEPT !.list = place, !.due = due]

\* fetch_topics: Classroom's "untagged" and "announcements" are there only
\* when something is in them.
Listed(s) == Topics \ (Made \ {sync[s].list})

\* fetch_resources, asked for each listed topic: the one that has the
\* material, unless it is hidden, or of a kind there is nothing to fetch from.
Where(s) == {t \in Listed(s) : sync[s].list = t}

\* fetch_assignments: Classroom answers from the snapshot, Moodle is asked.
Assignments(s) == {sync[s].due, due}

Best == Max({0} \union {row[r].reviews : r \in Rows})

\* Syncs from before resources could move have left copies in other topics.
Init ==
  /\ place \in Topics
  /\ due = 0
  /\ row \in [Copies -> {None} \union [topic : Topics, hash : Hashes, reviews : {0, MaxReviews}]]
  /\ Rows \in {{}, {1}, {1, 2}}
  /\ \A r, x \in Rows : r # x => row[r].topic # row[x].topic
  /\ topics = {row[r].topic : r \in Rows}
  /\ work = None
  /\ sync = [s \in Syncs |-> Off]
  /\ upsets = 0

Step(s, f) == sync' = [sync EXCEPT ![s] = f]
At(s, stage) == Step(s, [sync[s] EXCEPT !.at = stage])
Visited(s) == Step(s, [sync[s] EXCEPT !.at = "assignments", !.have = <<>>, !.kept = None])

\* The sync of this course ends with an error (sync_all goes on with the
\* others); what it committed stays.
Fail(s) == Step(s, Off)

Delete(gone) == row' = [r \in Copies |-> IF r \in gone THEN None ELSE row[r]]

-----------------------------------------------------------------------------
(* The source, and the people who review *)

Upset == upsets < MaxUpsets /\ upsets' = upsets + 1

\* A teacher moves the material, or hides it.
Move(t) ==
  /\ place # t /\ Upset
  /\ place' = t
  /\ UNCHANGED <<due, topics, row, work, sync>>

Reschedule ==
  /\ Upset
  /\ due' = due + 1
  /\ UNCHANGED <<place, topics, row, work, sync>>

\* submit_answer on an item made of the copy (module Review).
Review(r) ==
  /\ Exists(r) /\ row[r].reviews < MaxReviews
  /\ row' = [row EXCEPT ![r].reviews = @ + 1]
  /\ UNCHANGED <<source, topics, work, sync>>

-----------------------------------------------------------------------------
(* sync_course *)

\* The lookup of the course and fetch_topics.  What a sync finds is noted as
\* long as it is alone.
Begin(s) ==
  /\ sync[s].at = "off"
  /\ LET others == {o \in Syncs \ {s} : sync[o].at # "off"} IN
       sync' = [o \in Syncs |->
         CASE o \in others -> [sync[o] EXCEPT !.alone = FALSE, !.best = 0, !.stale = FALSE]
           [] o = s /\ others = {} ->
                [Snapshot EXCEPT !.at = "topics", !.best = Best,
                                 !.stale = \E r \in Rows : row[r].hash = "old"]
           [] o = s /\ others # {} -> [Snapshot EXCEPT !.at = "topics", !.alone = FALSE]
           [] OTHER -> sync[o]]
  /\ UNCHANGED <<source, topics, row, work>>

\* The topic loop looks each one up (no topic is ever deleted, so those that
\* are there may be passed over) ...
LookUpTopic(s) ==
  /\ sync[s].at = "topics"
  /\ \E t \in Listed(s) \ topics : Step(s, [sync[s] EXCEPT !.at = "topic", !.kept = t])
  /\ UNCHANGED <<source, topics, row, work>>

\* ... and inserts it, unless another sync has just done so.
InsertTopic(s) ==
  /\ sync[s].at = "topic"
  /\ LET t == sync[s].kept IN
       IF t \in topics
         THEN Fail(s) /\ UNCHANGED topics
         ELSE /\ topics' = topics \union {t}
              /\ Step(s, [sync[s] EXCEPT !.at = "topics", !.kept = None])
  /\ UNCHANGED <<source, row, work>>

\* by_source_id: the rows of the material in all topics.
LoadRows(s) ==
  /\ sync[s].at = "topics" /\ Listed(s) \subseteq topics
  /\ Step(s, [sync[s] EXCEPT !.at = "visit", !.have = [r \in Rows |-> Stored(r)]])
  /\ UNCHANGED <<source, topics, row, work>>

\* A commit for another material has expired the rows: they are read again,
\* and one that is gone fails the sync.
Reread(s) ==
  /\ sync[s].at = "visit"
  /\ LET ids == DOMAIN sync[s].have IN
       IF ids \subseteq Rows
         THEN Step(s, [sync[s] EXCEPT !.have = [r \in ids |-> Stored(r)]])
         ELSE Fail(s)
  /\ UNCHANGED <<source, topics, row, work>>

\* Mutant: the copies' progress is not compared.
PickAny(have) == DOMAIN have

\* _pick_copy: the most reviews.  What then decides, chunks and the topic, may
\* decide for any of them, for chunks are not counted here.
Pick(have) == {r \in DOMAIN have : \A x \in DOMAIN have : Progress(x) <= Progress(r)}

InsertRow(s) ==
  /\ sync[s].at = "visit" /\ sync[s].have = <<>>
  /\ \E t \in Where(s) :
       IF Taken(t, None)
         THEN Fail(s) /\ UNCHANGED row
         ELSE /\ \E r \in Fresh :
                   row' = [row EXCEPT ![r] = [topic |-> t, hash |-> "now", reviews |-> 0]]
              /\ Visited(s)
  /\ UNCHANGED <<source, topics, work>>

\* Mutant: no copy is in the way of a move.
InTheWayNone(have, r, t) == {}

\* The copies in the topic r is to move to.
InTheWay(have, r, t) ==
  IF have[r].topic = t THEN {} ELSE {x \in DOMAIN have \ {r} : have[x].topic = t}

\* The copy to keep; if it moves, those in its way are retired first, and
\* the commit makes the sync read the copy again.
Choose(s) ==
  /\ sync[s].at = "visit" /\ Where(s) # {} /\ sync[s].have # <<>>
  /\ LET f == sync[s] IN
       \E r \in Pick(f.have) :
         LET gone == InTheWay(f.have, r, f.list)
             rest == DOMAIN f.have \ gone
         IN IF f.have[r].topic = f.list
              THEN Step(s, [f EXCEPT !.at = "write", !.kept = r]) /\ UNCHANGED row
            ELSE /\ Delete(gone)
                 /\ IF Exists(r)
                      THEN Step(s, [f EXCEPT !.at = "move", !.kept = r,
                             !.have = [x \in rest |-> IF Exists(x) THEN Stored(x) ELSE f.have[x]]])
                      ELSE Fail(s)
  /\ UNCHANGED <<source, topics, work>>

\* What the check of the hash makes of a row: kept, its hash renewed, or
\* reset.  A legacy hash is compared with the file's bytes, which may not be
\* had just now.
Verdicts(hash) ==
  CASE hash = "now" -> {"keep"}
    [] hash = "same" -> {"renew", "keep"}
    [] OTHER -> {"reset", "keep"}

Written(r, verdict, t) ==
  LET hash == IF verdict = "keep" THEN row[r].hash ELSE "now"
  IN [topic |-> t, hash |-> hash,
      reviews |-> IF verdict = "reset" THEN 0 ELSE row[r].reviews]

\* The kept row is moved, reset, or brought up to date; or nothing about it
\* has changed.
Write(s) ==
  /\ sync[s].at \in {"write", "move"}
  /\ LET f == sync[s]
         r == f.kept
         moved == f.at = "move"
         here == IF Exists(r) THEN row[r].topic ELSE f.list
     IN \E verdict \in Verdicts(f.have[r].hash) :
          IF verdict = "keep" /\ ~moved
            THEN At(s, "retire") /\ UNCHANGED row
          ELSE IF ~Exists(r) \/ (moved /\ Taken(f.list, r))
            THEN Fail(s) /\ UNCHANGED row
          ELSE /\ row' = [row EXCEPT ![r] = Written(r, verdict, IF moved THEN f.list ELSE here)]
               /\ At(s, "retire")
  /\ UNCHANGED <<source, topics, work>>

\* Mutant: only copies in the topic the material is listed under.
LeftoversHere(f) == {r \in DOMAIN f.have : r # f.kept /\ f.have[r].topic = f.list}

Leftovers(f) == DOMAIN f.have \ {f.kept}

\* The copies left under other topics are retired.  One that is gone fails
\* the sync when it is read again.
Retire(s) ==
  /\ sync[s].at = "retire"
  /\ LET f == sync[s] IN
       \/ Delete(Leftovers(f)) /\ Visited(s)
       \/ ~(DOMAIN f.have \subseteq Rows) /\ Fail(s) /\ UNCHANGED row
  /\ UNCHANGED <<source, topics, work>>

\* A material that is not listed is left alone.
Unlisted(s) ==
  /\ sync[s].at = "visit" /\ Where(s) = {}
  /\ Visited(s)
  /\ UNCHANGED <<source, topics, row, work>>

\* fetch_assignments, and the row there is ...
LoadAssignment(s) ==
  /\ sync[s].at = "assignments"
  /\ \E d \in Assignments(s) :
       IF work = d
         THEN Step(s, Off)
         ELSE Step(s, [sync[s] EXCEPT !.at = IF work = None THEN "insert" ELSE "update",
                                      !.due = d, !.best = 0])
  /\ UNCHANGED <<source, topics, row, work>>

\* ... which is updated, or inserted unless another sync has just done it.
SaveAssignment(s) ==
  /\ sync[s].at \in {"insert", "update"}
  /\ work' = IF sync[s].at = "insert" /\ work # None THEN work ELSE sync[s].due
  /\ Step(s, Off)
  /\ UNCHANGED <<source, topics, row>>

\* A request to the source fails, or the process dies.
Fault(s) ==
  /\ sync[s].at # "off" /\ Upset
  /\ Fail(s)
  /\ UNCHANGED <<place, due, topics, row, work>>

-----------------------------------------------------------------------------
SyncStep(s) ==
  \/ Begin(s) \/ LookUpTopic(s) \/ InsertTopic(s) \/ LoadRows(s)
  \/ Choose(s) \/ InsertRow(s) \/ Write(s) \/ Retire(s) \/ Unlisted(s)
  \/ LoadAssignment(s) \/ SaveAssignment(s)

Next ==
  \/ \E t \in Topics \union {None} : Move(t)
  \/ Reschedule
  \/ \E r \in Copies : Review(r)
  \/ \E s \in Syncs : SyncStep(s) \/ Reread(s) \/ Fault(s)

Spec == Init /\ [][Next]_vars

\* Syncs are started again and again, and carried on.
FairSpec == Spec /\ \A s \in Syncs : WF_vars(SyncStep(s))

-----------------------------------------------------------------------------
(* Properties *)

\* The shape of the rows and of a sync's locals; a topic has at most one row
\* of the material.
TypeOK ==
  /\ place \in Topics \union {None} /\ due \in 0..MaxUpsets
  /\ topics \subseteq Topics
  /\ row \in [Copies -> Row \union {None}]
  /\ \A r, x \in Rows : r # x => row[r].topic # row[x].topic
  /\ work \in 0..MaxUpsets \union {None}
  /\ \A s \in Syncs :
       /\ sync[s].at \in {"off", "topics", "topic", "visit", "write", "move", "retire",
                          "assignments", "insert", "update"}
       /\ sync[s].list \in Topics \union {None}
       /\ DOMAIN sync[s].have \subseteq Copies
       /\ sync[s].kept \in Copies \union Topics \union {None}
  /\ upsets \in 0..MaxUpsets

\* A sync that has the course to itself, wherever the copies of a material
\* are and wherever it fails, leaves a copy with all the reviews that the best
\* copy had when it began; unless a copy's content had changed.
ProgressKept ==
  \A s \in Syncs :
    sync[s].at # "off" /\ sync[s].alone /\ ~sync[s].stale =>
      sync[s].best = 0 \/ \E r \in Rows : row[r].reviews >= sync[s].best

\* When such a sync has come to the assignments, a listed material has one
\* row, in the topic it was listed under.
ListedOnce ==
  \A s \in Syncs :
    sync[s].alone /\ sync[s].at \in {"assignments", "insert", "update"} /\ sync[s].list # None
      => \E r \in Copies : Rows = {r} /\ row[r].topic = sync[s].list

\* Whatever copies there were, and however syncs overlapped and failed: once
\* the source is left alone, the material comes to have one row, where it is
\* listed, and the assignment is up to date.
Settled ==
  /\ place # None => \E r \in Copies : Rows = {r} /\ row[r].topic = place
  /\ work = due
Converges == <>[]Settled
=============================================================================
