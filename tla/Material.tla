------------------------------- MODULE Material -------------------------------
(***************************************************************************)
(* The life of one piece of course material: what the syncs of app/sync.py *)
(* and the pipeline of app/pipeline.py (with chunk.py, quiz.py and         *)
(* share.py) make of it, at the same time.                                 *)
(*                                                                         *)
(* Every user enrolled in the course has a row of their own for it, Rows.  *)
(* A sync loads the row, asks the source, and then writes; the pipeline    *)
(* loads it, works for minutes (a download, an LLM call), and then writes. *)
(* Each transaction is one action.  An UPDATE names only the columns whose *)
(* value differs from the one that was loaded (the unit of work of the     *)
(* ORM), so what was loaded, and when, is part of the state.               *)
(*                                                                         *)
(* A row has one chunk, or none: the chunks of a row are made and purged   *)
(* together.  The content at the source is a version number.               *)
(***************************************************************************)
EXTENDS Integers, FiniteSets

CONSTANTS
  Rows,       \* the users' rows of this material
  Syncs,      \* sync processes
  NoRow,      \* what a pipeline that works on no row remembers
  Large,      \* versions of a file that are over the download cap
  MaxTries,   \* MAX_CHUNK_ATTEMPTS (3)
  Cases       \* what to begin with: the sort of material, the row each sync
              \* works on, and how many edits, deployments and faults may come

ASSUME RowsAssumption == NoRow \notin Rows /\ IsFiniteSet(Rows)
ASSUME VersionsAssumption == Large \subseteq Nat /\ MaxTries \in Nat \ {0}
ASSUME CasesAssumption ==
  Cases \subseteq [kind : {"file", "page"}, of : [Syncs -> Rows],
                  edits : Nat, deploys : Nat, faults : Nat]

VARIABLES
  \* the sort of material ("file": extraction makes the text; "page": the sync
  \* brings it), the row each sync works on, the source and the edits to come,
  \* the code's converter from page HTML to text and the deployments to come
  kind, of, content, edits, render, deploys,
  \* the tables: resources, chunks, quiz attempts with their items, events
  row, chunk, quiz, told,
  \* the syncs: where each is, the row as it loaded it, what the source said
  at, seen, got,
  \* the pipeline: its stage, the ids listed for it, the row in hand and the
  \* step on it, the row as loaded, run_chunking's seen_hash, another user's
  \* row to copy from, what it is about to write, and the rows whose new items
  \* it will announce
  stage, todo, cur, step, mine, seenHash, donor, draft, made,
  \* crashes, outages, errors and exhausted quotas to come
  faults,
  \* History, read by no step: the syncs whose row another sync has written
  \* since they loaded it; and the rows that such a sync wrote all the same,
  \* with those that copied a text or a chunk from one.
  overtaken, crossed

source == <<kind, of, content, edits, render, deploys>>
tables == <<row, chunk, quiz, told>>
syncVars == <<at, seen, got>>
hand == <<cur, step, mine, seenHash, donor, draft>>
runVars == <<stage, todo, hand, made>>
history == <<overtaken, crossed>>
vars == <<kind, of, content, edits, render, deploys, row, chunk, quiz, told, at, seen, got,
          stage, todo, cur, step, mine, seenHash, donor, draft, made, faults,
          overtaken, crossed>>

-----------------------------------------------------------------------------
(* Data *)

\* A text is of a version of the content, by a version of the converter;
\* of = 0 is no text, and no answer of the source.
Texts == [of : Nat, by : Nat]
NoText == [of |-> 0, by |-> 0]

\* A chunk was cut from one text, and its offsets index one text or none.
Chunks == [from : Texts, index : Texts]
NoChunk == [from |-> NoText, index |-> NoText]

\* hash 0 is NULL; backoff is retry_after > now.
Row == [status : {"absent", "pending", "extracted", "failed", "skipped"},
        hash : Nat, text : Texts, attempts : Nat, backoff : BOOLEAN]
Absent == [status |-> "absent", hash |-> 0, text |-> NoText, attempts |-> 0,
           backoff |-> FALSE]

Quizzes == {"none", "empty", "items"}

\* What the pipeline is about to write: nothing yet.
Nothing == [row |-> Absent, chunk |-> NoChunk, quiz |-> "none"]

\* The UPDATE of a row that was loaded as old and is to become new.
Flush(old, new, now) ==
  [f \in DOMAIN now |-> IF new[f] = old[f] THEN now[f] ELSE new[f]]

\* The text a sync stores.
SyncText(g) == IF kind = "page" THEN g ELSE NoText

\* Mutant: the status is no status the pipeline looks for.
FreshStatusMisspelt(g) == IF SyncText(g) # NoText THEN "extracted" ELSE "new"

\* _fresh_state: the status of new or changed content.
FreshStatus(g) ==
  IF kind = "file" /\ g.of \in Large THEN "skipped"
  ELSE IF SyncText(g) # NoText THEN "extracted"
  ELSE "pending"

\* The row a sync makes of new or changed content.
FreshRow(g) ==
  [status |-> FreshStatus(g), hash |-> g.of, text |-> SyncText(g), attempts |-> 0,
   backoff |-> FALSE]

\* pending_resource_ids
PendingIds == {r \in Rows : row[r].status = "pending" /\ ~row[r].backoff}

\* chunkable_resource_ids
ChunkableIds ==
  {r \in Rows :
     /\ row[r].status \in {"pending", "extracted"}
     /\ row[r].text # NoText
     /\ ~row[r].backoff}

\* quiz_chunk_ids: the chunks without an attempt.
QuizIds == {r \in Rows : chunk[r] # NoChunk /\ quiz[r] = "none"}

\* _same_material: the other users' rows of the same hash.
SameMaterial(r, h) == {d \in Rows \ {r} : h # 0 /\ row[d].hash = h}

\* copy_extraction's donors of a text.
TextDonors == {d \in SameMaterial(cur, mine.hash) :
                 row[d].status = "extracted" /\ row[d].text # NoText}

\* copy_chunks' donors: chunked, with the very text that r has.
ChunkDonors == {d \in SameMaterial(cur, mine.hash) :
                  /\ row[d].status = "extracted"
                  /\ row[d].text = mine.text /\ mine.text # NoText
                  /\ chunk[d] # NoChunk}

\* copy_quiz's donors: an attempt on a chunk of the same content.
QuizDonors == {d \in SameMaterial(cur, row[cur].hash) :
                 /\ chunk[d].from = draft.chunk.from
                 /\ quiz[d] # "none"}

Fault ==
  /\ faults > 0
  /\ faults' = faults - 1

-----------------------------------------------------------------------------
Init ==
  /\ \E c \in Cases : /\ kind = c.kind /\ of = c.of
                      /\ edits = c.edits /\ deploys = c.deploys /\ faults = c.faults
  /\ content = 1 /\ render = 1
  /\ row = [r \in Rows |-> Absent]
  /\ chunk = [r \in Rows |-> NoChunk]
  /\ quiz = [r \in Rows |-> "none"]
  /\ told = {}
  /\ at = [s \in Syncs |-> "idle"]
  /\ seen = [s \in Syncs |-> Absent]
  /\ got = [s \in Syncs |-> NoText]
  /\ stage = "off" /\ todo = {} /\ cur = NoRow /\ step = "next"
  /\ mine = Absent /\ seenHash = 0 /\ donor = NoRow /\ draft = Nothing /\ made = {}
  /\ overtaken = {} /\ crossed = {}

-----------------------------------------------------------------------------
(* The source *)

\* The lecturer edits the material.  A file's marker names its revision, so
\* it never comes back; the HTML of a page may.
Edit ==
  /\ edits > 0
  /\ edits' = edits - 1
  /\ \/ content' = content + 1
     \/ kind = "page" /\ content > 1 /\ content' = content - 1
  /\ UNCHANGED <<kind, of, render, deploys, tables, syncVars, runVars, faults, history>>

\* A deployment with another html_to_text.
Deploy ==
  /\ kind = "page"
  /\ deploys > 0
  /\ deploys' = deploys - 1
  /\ render' = render + 1
  /\ UNCHANGED <<kind, of, content, edits, tables, syncVars, runVars, faults, history>>

-----------------------------------------------------------------------------
(* sync_course, as far as it concerns one row *)

EndSync(s) ==
  /\ at' = [at EXCEPT ![s] = "idle"]
  /\ seen' = [seen EXCEPT ![s] = Absent]
  /\ got' = [got EXCEPT ![s] = NoText]
  /\ overtaken' = overtaken \ {s}

\* Of history: s writes its row, which overtakes the others at work on it, and
\* is a crossing if another overtook s.
EndWrite(s) ==
  /\ at' = [at EXCEPT ![s] = "idle"]
  /\ seen' = [seen EXCEPT ![s] = Absent]
  /\ got' = [got EXCEPT ![s] = NoText]
  /\ overtaken' = {t \in Syncs \ {s} : t \in overtaken \/ (of[t] = of[s] /\ at[t] # "idle")}
  /\ crossed' = IF s \in overtaken THEN crossed \union {of[s]} ELSE crossed

\* The rows of the course are loaded.
SyncLoad(s) ==
  /\ at[s] = "idle"
  /\ at' = [at EXCEPT ![s] = "loaded"]
  /\ seen' = [seen EXCEPT ![s] = row[of[s]]]
  /\ UNCHANGED <<source, tables, got, runVars, faults, history>>

\* fetch_resources: what the source lists now, or a page it failed to give.
SyncFetch(s) ==
  /\ at[s] = "loaded"
  /\ at' = [at EXCEPT ![s] = "fetched"]
  /\ \/ /\ got' = [got EXCEPT ![s] =
                     [of |-> content, by |-> IF kind = "page" THEN render ELSE 0]]
        /\ UNCHANGED faults
     \/ /\ kind = "page"
        /\ Fault
        /\ UNCHANGED got
  /\ UNCHANGED <<source, tables, seen, runVars, history>>

\* The commit of an earlier resource of the list expired what was loaded.
SyncReload(s) ==
  /\ at[s] = "fetched"
  /\ seen[s].status # "absent"
  /\ seen' = [seen EXCEPT ![s] = row[of[s]]]
  /\ UNCHANGED <<source, tables, at, got, runVars, faults, history>>

HashChanged(s) == got[s].of # 0 /\ seen[s].hash # got[s].of

TextChanged(s) ==
  /\ SyncText(got[s]) # NoText /\ seen[s].text # NoText
  /\ seen[s].text # got[s]

\* The material is new to the user.  A second sync that found it new as well
\* runs into the unique constraint, and its course fails.
SyncInsert(s) ==
  /\ at[s] = "fetched"
  /\ seen[s].status = "absent"
  /\ IF row[of[s]].status = "absent"
       THEN row' = [row EXCEPT ![of[s]] = FreshRow(got[s])] /\ EndWrite(s)
       ELSE UNCHANGED <<row, crossed>> /\ EndSync(s)
  /\ UNCHANGED <<source, chunk, quiz, told, runVars, faults>>

\* Mutant: derived data outlives the content it was made of.
SyncResetKeeping(s) ==
  LET r == of[s] IN
  /\ at[s] = "fetched"
  /\ seen[s].status # "absent"
  /\ HashChanged(s)
  /\ row' = [row EXCEPT ![r] = Flush(seen[s], FreshRow(got[s]), row[r])]
  /\ EndWrite(s)
  /\ UNCHANGED <<source, chunk, quiz, told, runVars, faults>>

\* The content changed: lock_resource, _purge_derived, and the row reset,
\* in one transaction.
SyncReset(s) ==
  LET r == of[s] IN
  /\ at[s] = "fetched"
  /\ seen[s].status # "absent"
  /\ HashChanged(s)
  /\ row' = [row EXCEPT ![r] = Flush(seen[s], FreshRow(got[s]), row[r])]
  /\ chunk' = [chunk EXCEPT ![r] = NoChunk]
  /\ quiz' = [quiz EXCEPT ![r] = "none"]
  /\ told' = told \ {r}
  /\ EndWrite(s)
  /\ UNCHANGED <<source, runVars, faults>>

\* Mutant: better text counts as new content.
SyncRefreshPurging(s) ==
  LET r == of[s] IN
  /\ at[s] = "fetched"
  /\ seen[s].status # "absent"
  /\ ~HashChanged(s)
  /\ TextChanged(s)
  /\ row' = [row EXCEPT ![r].text = got[s]]
  /\ chunk' = [chunk EXCEPT ![r] = NoChunk]
  /\ quiz' = [quiz EXCEPT ![r] = "none"]
  /\ told' = told \ {r}
  /\ EndWrite(s)
  /\ UNCHANGED <<source, runVars, faults>>

\* Same content, better text: the kept chunk is looked for in the new text
\* (_relocate_chunks) and found, or not.
SyncRefresh(s) ==
  LET r == of[s] IN
  /\ at[s] = "fetched"
  /\ seen[s].status # "absent"
  /\ ~HashChanged(s)
  /\ TextChanged(s)
  /\ row' = [row EXCEPT ![r].text = got[s]]
  /\ \E place \in {got[s], NoText} :
       chunk' = [chunk EXCEPT ![r].index = IF chunk[r] = NoChunk THEN NoText ELSE place]
  /\ EndWrite(s)
  /\ UNCHANGED <<source, quiz, told, runVars, faults>>

\* Nothing to do for this row (its title and place are not modelled).
SyncSkip(s) ==
  /\ at[s] = "fetched"
  /\ seen[s].status # "absent"
  /\ ~HashChanged(s) /\ ~TextChanged(s)
  /\ EndSync(s)
  /\ UNCHANGED <<source, tables, runVars, faults, crossed>>

\* The source fails, or the process dies.
SyncCrash(s) ==
  /\ at[s] # "idle"
  /\ Fault
  /\ EndSync(s)
  /\ UNCHANGED <<source, tables, runVars, crossed>>

-----------------------------------------------------------------------------
(* A run of the pipeline: single_run lets one go on at a time. *)

\* The row in hand is done with.
Release(rest) ==
  /\ cur' = NoRow /\ step' = "next" /\ todo' = rest
  /\ mine' = Absent /\ seenHash' = 0 /\ donor' = NoRow /\ draft' = Nothing

\* A cron, a backfill by hand or a pipeline job gets the lock.
StartRun ==
  /\ stage = "off"
  /\ stage' = "extract"
  /\ todo' = PendingIds
  /\ UNCHANGED <<source, tables, syncVars, hand, made, faults, history>>

\* Every id listed for the stage was handled; the ids of the next are listed.
NextStage ==
  /\ step = "next" /\ todo = {}
  /\ \/ stage = "extract" /\ stage' = "chunk" /\ todo' = ChunkableIds
     \/ stage = "chunk" /\ stage' = "quiz" /\ todo' = QuizIds
  /\ UNCHANGED <<source, tables, syncVars, hand, made, faults, history>>

\* The next id is loaded.  A resource that is chunked already is left alone.
TakeUp(r) ==
  /\ stage # "off" /\ step = "next" /\ r \in todo
  /\ IF stage = "chunk" /\ chunk[r] # NoChunk /\ row[r].status = "extracted"
       THEN Release(todo \ {r})
       ELSE /\ cur' = r /\ step' = "work" /\ todo' = todo \ {r}
            /\ mine' = row[r] /\ seenHash' = row[r].hash
            /\ draft' = [Nothing EXCEPT !.row = row[r], !.chunk = chunk[r]]
            /\ UNCHANGED donor
  /\ UNCHANGED <<source, tables, syncVars, stage, made, faults, history>>

\* What is done, to be committed.
Ready(new) ==
  /\ step' = "commit" /\ draft' = new
  /\ UNCHANGED <<todo, cur, mine, seenHash, donor>>

ReadyText(text) ==
  Ready([draft EXCEPT !.row = [@ EXCEPT !.status = "extracted", !.text = text,
                                        !.attempts = 0, !.backoff = FALSE]])

\* Of history: what is copied from a crossed row makes this one crossed too.
Inherit(d) == crossed' = IF d \in crossed THEN crossed \union {cur} ELSE crossed

\* run_extraction: another user's text if the user's own grant reaches the
\* file, or else the download and its outcome, a page has its text or none;
\* without the user's token a file is left as it is.
Extract ==
  /\ stage = "extract" /\ step \in {"work", "alone"}
  /\ \/ /\ step = "work"
        /\ \E d \in TextDonors : ReadyText(row[d].text) /\ Inherit(d)
        /\ UNCHANGED faults
     \/ /\ kind = "file"
        /\ ReadyText([of |-> content, by |-> 0])
        /\ UNCHANGED <<faults, crossed>>
     \/ /\ kind = "page"
        /\ IF mine.text # NoText
             THEN ReadyText(mine.text)
             ELSE Ready([draft EXCEPT !.row.status = "skipped"])
        /\ UNCHANGED <<faults, crossed>>
     \/ /\ kind = "file"
        /\ Fault
        /\ \/ \E verdict \in {"skipped", "failed"} :
                Ready([draft EXCEPT !.row.status = verdict])
           \/ Ready([draft EXCEPT !.row.attempts = @ + 1, !.row.backoff = TRUE])
        /\ UNCHANGED crossed
     \/ step = "work" /\ kind = "file" /\ Fault /\ Release(todo) /\ UNCHANGED crossed
  /\ UNCHANGED <<source, tables, syncVars, stage, made, overtaken>>

\* commit_if_current: the hash is still the one the row was loaded with.
Current == row[cur].hash = mine.hash

\* _share_failed: sharing is a shortcut.  The row is loaded again and, if its
\* content is the same, worked on alone.
ShareFailed ==
  /\ \/ stage = "extract" /\ step = "work"
     \/ stage = "chunk" /\ step \in {"work", "copy"}
  /\ Fault
  /\ IF Current
       THEN /\ step' = "alone" /\ donor' = NoRow
            /\ mine' = row[cur]
            /\ draft' = [draft EXCEPT !.row = row[cur]]
            /\ UNCHANGED <<todo, cur, seenHash>>
       ELSE Release(todo)
  /\ UNCHANGED <<source, tables, syncVars, stage, made, history>>

\* run_extraction: the text is committed, or dropped.
CommitText ==
  /\ stage = "extract" /\ step = "commit"
  /\ row' = IF Current
              THEN [row EXCEPT ![cur] = Flush(mine, draft.row, row[cur])]
              ELSE row
  /\ Release(todo)
  /\ UNCHANGED <<source, chunk, quiz, told, syncVars, stage, made, faults, history>>

Donors == IF stage = "chunk" THEN ChunkDonors ELSE QuizDonors

\* copy_chunks and copy_quiz look for another user's row, whose chunk or items
\* the next statement reads; without one the row is worked on alone.
FindDonor ==
  /\ stage \in {"chunk", "quiz"} /\ step = "work"
  /\ \/ \E d \in Donors : donor' = d /\ step' = "copy"
     \/ Donors = {} /\ step' = "alone" /\ UNCHANGED donor
  /\ UNCHANGED <<source, tables, syncVars, stage, todo, cur, mine, seenHash, draft, made,
                 faults, history>>

\* copy_chunks: the donor's chunk, or none if it was purged since it was found.
CopyChunk ==
  /\ stage = "chunk" /\ step = "copy"
  /\ Ready([draft EXCEPT !.row.status = "extracted", !.chunk = chunk[donor]])
  /\ Inherit(donor)
  /\ UNCHANGED <<source, tables, syncVars, stage, made, faults, overtaken>>

\* chunk_resource: a chunk of the text that was loaded, or an error.  No text
\* at all makes no chunk, and the row a skipped one.
Cut ==
  /\ stage = "chunk" /\ step = "alone"
  /\ \/ /\ IF mine.text = NoText
             THEN Ready([draft EXCEPT !.row.status = "skipped", !.chunk = NoChunk])
             ELSE Ready([draft EXCEPT !.row.status = "extracted",
                                      !.chunk = [from |-> mine.text, index |-> mine.text]])
        /\ UNCHANGED faults
     \/ /\ Fault
        /\ step' = "failed"
        /\ UNCHANGED <<todo, cur, mine, seenHash, donor, draft>>
  /\ UNCHANGED <<source, tables, syncVars, stage, made, history>>

\* The rows a stage has left are given up when the LLM's quota is used up.
QuotaExhausted ==
  /\ stage \in {"chunk", "quiz"} /\ step = "alone"
  /\ Fault
  /\ Release({})
  /\ UNCHANGED <<source, tables, syncVars, stage, made, history>>

\* A donor without chunks counts as none, after the commit.
CopiedNone == donor # NoRow /\ draft.chunk = NoChunk

\* Mutant: the chunk is committed whatever the row has become.
CommitChunkBlindly ==
  /\ stage = "chunk" /\ step = "commit"
  /\ row' = [row EXCEPT ![cur] = Flush(mine, draft.row, row[cur])]
  /\ chunk' = [chunk EXCEPT ![cur] = draft.chunk]
  /\ quiz' = [quiz EXCEPT ![cur] = "none"]
  /\ told' = told \ {cur}
  /\ step' = IF CopiedNone THEN "reload" ELSE "settle"
  /\ UNCHANGED <<source, syncVars, stage, todo, cur, mine, seenHash, donor, draft, made,
                 faults, history>>

\* chunk_resource and copy_chunks: old chunk out, new one in, if current.
CommitChunk ==
  /\ stage = "chunk" /\ step = "commit"
  /\ IF Current
       THEN /\ row' = [row EXCEPT ![cur] = Flush(mine, draft.row, row[cur])]
            /\ chunk' = [chunk EXCEPT ![cur] = draft.chunk]
            /\ quiz' = [quiz EXCEPT ![cur] = "none"]
            /\ told' = told \ {cur}
            /\ step' = IF CopiedNone THEN "reload" ELSE "settle"
            /\ UNCHANGED <<todo, cur, mine, seenHash, donor, draft>>
       ELSE UNCHANGED tables /\ Release(todo)
  /\ UNCHANGED <<source, syncVars, stage, made, faults, history>>

\* The commit expired the row: chunk_resource works on what it is by now.
Reload ==
  /\ stage = "chunk" /\ step = "reload"
  /\ step' = "alone" /\ donor' = NoRow
  /\ mine' = row[cur]
  /\ draft' = [Nothing EXCEPT !.row = row[cur]]
  /\ UNCHANGED <<source, tables, syncVars, stage, todo, cur, seenHash, made, faults, history>>

\* run_chunking: the earlier failures are forgotten, in another commit.
Settle ==
  /\ stage = "chunk" /\ step = "settle"
  /\ row' = [row EXCEPT ![cur].attempts = 0, ![cur].backoff = FALSE]
  /\ Release(todo)
  /\ UNCHANGED <<source, chunk, quiz, told, syncVars, stage, made, faults, history>>

\* run_chunking, except Exception: the row is loaded again, and let go if
\* its content was replaced.
ReloadFailed ==
  /\ stage = "chunk" /\ step = "failed"
  /\ IF row[cur].hash = seenHash
       THEN /\ mine' = row[cur] /\ step' = "defer"
            /\ UNCHANGED <<todo, cur, seenHash, donor, draft>>
       ELSE Release(todo)
  /\ UNCHANGED <<source, tables, syncVars, stage, made, faults, history>>

\* _defer, and the row failed once its tries are used up; nothing checks
\* that the content is still the same.
Defer ==
  LET n == mine.attempts + 1 IN
  /\ stage = "chunk" /\ step = "defer"
  /\ row' = [row EXCEPT ![cur] =
                Flush(mine,
                      [mine EXCEPT !.attempts = n, !.backoff = TRUE,
                                   !.status = IF n >= MaxTries THEN "failed" ELSE @],
                      @)]
  /\ Release(todo)
  /\ UNCHANGED <<source, chunk, quiz, told, syncVars, stage, made, faults, history>>

\* run_quiz: the donor's items, of which a purged donor has none; generated
\* ones, or none; or an error.
Ask ==
  /\ stage = "quiz"
  /\ \/ /\ step = "copy"
        /\ Ready([draft EXCEPT !.quiz = IF quiz[donor] = "none" THEN "empty" ELSE quiz[donor]])
        /\ UNCHANGED faults
     \/ /\ step = "alone"
        /\ \E q \in {"empty", "items"} : Ready([draft EXCEPT !.quiz = q])
        /\ UNCHANGED faults
     \/ step \in {"work", "copy", "alone"} /\ Fault /\ Release(todo)
  /\ UNCHANGED <<source, tables, syncVars, stage, made, history>>

\* generate_for_chunk and copy_quiz commit: a chunk that was purged
\* meanwhile fails the foreign key.
CommitQuiz ==
  /\ stage = "quiz" /\ step = "commit"
  /\ IF chunk[cur] # NoChunk
       THEN /\ quiz' = [quiz EXCEPT ![cur] = draft.quiz]
            /\ made' = IF draft.quiz = "items" THEN made \union {cur} ELSE made
       ELSE UNCHANGED <<quiz, made>>
  /\ Release(todo)
  /\ UNCHANGED <<source, row, chunk, told, syncVars, stage, faults, history>>

\* enqueue_new_material: one event for each course with new items.
Tell(r) ==
  /\ stage = "quiz" /\ step = "next" /\ todo = {}
  /\ r \in made
  /\ made' = made \ {r}
  /\ told' = IF quiz[r] = "items" THEN told \union {r} ELSE told
  /\ UNCHANGED <<source, row, chunk, quiz, syncVars, stage, todo, hand, faults, history>>

EndRun ==
  /\ stage = "quiz" /\ step = "next" /\ todo = {} /\ made = {}
  /\ stage' = "off"
  /\ UNCHANGED <<source, tables, syncVars, todo, hand, made, faults, history>>

\* The process dies, or Shutdown ends the run.
CrashRun ==
  /\ stage # "off"
  /\ Fault
  /\ stage' = "off" /\ made' = {}
  /\ Release({})
  /\ UNCHANGED <<source, tables, syncVars, history>>

\* retry_after passes.
BackoffEnds(r) ==
  /\ row[r].backoff
  /\ row' = [row EXCEPT ![r].backoff = FALSE]
  /\ UNCHANGED <<source, chunk, quiz, told, syncVars, runVars, faults, history>>

-----------------------------------------------------------------------------
Sync(s) ==
  \/ SyncLoad(s) \/ SyncFetch(s) \/ SyncInsert(s) \/ SyncReset(s)
  \/ SyncRefresh(s) \/ SyncSkip(s)

Run ==
  \/ StartRun \/ NextStage \/ \E r \in Rows : TakeUp(r) \/ Tell(r)
  \/ Extract \/ CommitText
  \/ FindDonor \/ CopyChunk \/ Cut \/ CommitChunk \/ Reload \/ Settle
  \/ ReloadFailed \/ Defer
  \/ Ask \/ CommitQuiz \/ EndRun

Next ==
  \/ Edit \/ Deploy
  \/ \E s \in Syncs : Sync(s) \/ SyncReload(s) \/ SyncCrash(s)
  \/ Run \/ ShareFailed \/ QuotaExhausted \/ CrashRun
  \/ \E r \in Rows : BackoffEnds(r)

Spec == Init /\ [][Next]_vars

\* Syncs and pipeline runs are started again and again, and time passes.
Fairness ==
  /\ WF_vars(Run)
  /\ \A s \in Syncs : WF_vars(Sync(s))
  /\ \A r \in Rows : WF_vars(BackoffEnds(r))

FairSpec == Spec /\ Fairness

-----------------------------------------------------------------------------
(* Properties *)

\* Every variable has the shape of its columns and locals.
TypeOK ==
  /\ kind \in {"file", "page"} /\ of \in [Syncs -> Rows]
  /\ content \in Nat \ {0} /\ edits \in Nat /\ render \in Nat /\ deploys \in Nat
  /\ row \in [Rows -> Row]
  /\ chunk \in [Rows -> Chunks]
  /\ quiz \in [Rows -> Quizzes]
  /\ told \subseteq Rows
  /\ at \in [Syncs -> {"idle", "loaded", "fetched"}]
  /\ seen \in [Syncs -> Row]
  /\ got \in [Syncs -> Texts]
  /\ stage \in {"off", "extract", "chunk", "quiz"}
  /\ todo \subseteq Rows
  /\ cur \in Rows \union {NoRow}
  /\ step \in {"next", "work", "copy", "alone", "commit", "reload", "settle", "failed",
                 "defer"}
  /\ mine \in Row /\ seenHash \in Nat /\ donor \in Rows \union {NoRow}
  /\ draft \in [row : Row, chunk : Chunks, quiz : Quizzes]
  /\ made \subseteq Rows
  /\ faults \in Nat
  /\ overtaken \subseteq Syncs /\ crossed \subseteq Rows

\* A chunk, and with it the quiz, is of the content that the text of its row
\* is of, although cutting it took minutes in which a sync may have replaced
\* that text (commit_if_current, _purge_derived).  Syncs that cross on a row
\* spoil that row and those that copy from it, and no other.
ChunksOfText ==
  \A r \in Rows \ crossed : chunk[r] # NoChunk => chunk[r].from.of = row[r].text.of

\* Study progress is lost only with its content: nothing but a new hash
\* takes a chunk, or the quiz on it, from a row again, unless syncs crossed.
ProgressKept ==
  [][\A r \in Rows \ crossed' :
       /\ row'[r].hash = row[r].hash
       /\ chunk[r] # NoChunk
       => /\ chunk'[r].from = chunk[r].from
          /\ quiz[r] # "none" => quiz'[r] = quiz[r]]_vars

\* The row is taught: chunked and quizzed from what the source has now.
Taught(r) ==
  /\ row[r].hash = content
  /\ chunk[r].from.of = content
  /\ quiz[r] # "none"

\* Once the lecturer stops editing a page, everyone whose course is synced is
\* taught its last version, unless MaxTries failures of the chunker gave the row
\* up, or syncs crossed on it.  (NoOldText says why this is not so of a file.)
EveryoneTaught ==
  kind = "page" =>
    \A s \in Syncs :
      <>[](Taught(of[s]) \/ row[of[s]].status = "failed" \/ of[s] \in crossed)

\* A sync that replaces the content leaves no text of the old one ("whichever
\* comes second sees the other's result").  The code does not keep this.
NoOldText ==
  \A r \in Rows : row[r].text # NoText => row[r].text.of >= row[r].hash
=============================================================================
