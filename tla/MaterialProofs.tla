----------------------------- MODULE MaterialProofs -----------------------------
(***************************************************************************)
(* The invariants of Material, for files and for pages, any number of      *)
(* users, edits and faults.                                                *)
(***************************************************************************)
EXTENDS Material, TLAPS

\* The rows that a run has listed or has in hand.
Listed == todo \union ({cur} \ {NoRow})

\* Only rows that were extracted have a chunk; a crossed row has any status.
ChunkedLast ==
  \A r \in Rows : chunk[r] # NoChunk =>
    row[r].status # "absent" /\ (r \notin crossed => row[r].status = "extracted")

\* While a sync is at work its row does not disappear and, unless another sync
\* overtakes it, keeps the hash that the sync has seen; an answer without content
\* has no text, the revisions of a file only grow, and the text of a page is of
\* its hash.
Synced(s) ==
  /\ at[s] # "idle" /\ seen[s].status # "absent" => row[of[s]].status # "absent"
  /\ at[s] # "idle" /\ s \notin overtaken => seen[s].hash = row[of[s]].hash
  /\ got[s].of = 0 => got[s] = NoText
  /\ kind = "file" /\ at[s] = "fetched" =>
       /\ got[s].of > 0 /\ got[s].of <= content
       /\ s \notin overtaken => got[s].of >= row[of[s]].hash
  /\ kind = "page" /\ of[s] \notin crossed => seen[s].text.of = seen[s].hash

\* Revisions of a file are the source's; the text of a page is of its hash.
Hashed ==
  /\ kind = "file" =>
       /\ \A r \in Rows : row[r].hash <= content
       /\ cur # NoRow /\ cur \notin crossed => mine.hash <= row[cur].hash
  /\ kind = "page" =>
       /\ \A r \in Rows \ crossed : row[r].text.of = row[r].hash
       /\ cur # NoRow /\ cur \notin crossed => mine.text.of = mine.hash

\* What the run has listed may be worked on: nothing is extracted or chunked that
\* has a chunk, or quizzed that has a quiz, and none is a row that is not there.
Workable ==
  /\ cur \notin todo
  /\ stage = "off" => Listed = {}
  /\ \A r \in Listed : row[r].status # "absent"
  /\ stage = "extract" => \A r \in Listed \ crossed : chunk[r] = NoChunk
  /\ stage = "quiz" => \A r \in Listed : quiz[r] = "none"
  /\ stage = "chunk" /\ step # "settle" /\ cur \notin {NoRow} \union crossed =>
       chunk[cur] = NoChunk

\* The run's copy of the row in hand, and what it is about to write or to copy.
InHand ==
  /\ step \in {"work", "copy", "alone", "commit"} =>
       draft.row.hash = mine.hash /\ draft.row.status # "absent"
  /\ stage = "extract" /\ step \in {"work", "alone", "commit"} =>
       (kind = "page" /\ cur \notin crossed => draft.row.text.of = mine.hash)
  /\ stage = "chunk" /\ step \in {"work", "copy", "alone", "commit"} =>
       draft.row.text = mine.text
  /\ stage = "chunk" /\ step = "copy" /\ donor \notin crossed /\ chunk[donor] # NoChunk =>
       chunk[donor].from.of = mine.text.of
  /\ stage = "chunk" /\ step = "commit" /\ cur \notin crossed /\ draft.chunk # NoChunk =>
       draft.chunk.from.of = mine.text.of /\ draft.row.status = "extracted"
  /\ stage = "chunk" /\ step \notin {"reload", "settle"} /\ cur \notin {NoRow} \union crossed =>
       /\ row[cur].hash = mine.hash => row[cur].text.of = mine.text.of
       /\ mine.status = "extracted" /\ (kind = "page" \/ row[cur].hash = mine.hash)
            => row[cur].status = "extracted"

\* A run has a row in hand from when it takes it up until it is done with it, and
\* one to copy from when it copies.
Holding ==
  /\ cur = NoRow <=> step = "next"
  /\ step = "copy" => donor \in Rows /\ stage \in {"chunk", "quiz"}

\* The inductive invariant.
IInv ==
  /\ TypeOK /\ Holding
  /\ ChunkedLast /\ ChunksOfText
  /\ \A s \in Syncs : Synced(s)
  /\ Hashed /\ Workable /\ InHand

-----------------------------------------------------------------------------
(* The operators of the model *)

Statuses == {"absent", "pending", "extracted", "failed", "skipped"}
Drafts == [row : Row, chunk : Chunks, quiz : Quizzes]

LEMMA DataFacts ==
  /\ NoText \in Texts /\ NoText.of = 0 /\ NoChunk \in Chunks
  /\ NoChunk.from = NoText /\ NoChunk.index = NoText
  /\ Absent \in Row /\ Absent.status = "absent" /\ Absent.hash = 0 /\ Absent.text = NoText
  /\ Nothing \in Drafts
<1>1. NoText \in Texts /\ NoText.of = 0
  BY DEF NoText, Texts
<1>2. NoChunk \in Chunks /\ NoChunk.from = NoText /\ NoChunk.index = NoText
  BY <1>1 DEF NoChunk, Chunks
<1>3. Absent \in Row /\ Absent.status = "absent" /\ Absent.hash = 0 /\ Absent.text = NoText
  BY <1>1 DEF Absent, Row
<1>4. Nothing \in Drafts
  BY <1>2, <1>3 DEF Nothing, Drafts, Quizzes
<1>5. QED
  BY <1>1, <1>2, <1>3, <1>4

LEMMA RowFields ==
  ASSUME NEW w \in Row
  PROVE  /\ w.status \in Statuses /\ w.hash \in Nat /\ w.text \in Texts
         /\ w.attempts \in Nat /\ w.backoff \in BOOLEAN /\ w.text.of \in Nat
BY DEF Row, Statuses, Texts

\* An UPDATE writes what it changed, and leaves the other columns as they are now.
LEMMA FlushFacts ==
  ASSUME NEW old \in Row, NEW new \in Row, NEW now \in Row
  PROVE  LET u == Flush(old, new, now) IN
         /\ u \in Row
         /\ u.status = IF new.status = old.status THEN now.status ELSE new.status
         /\ u.hash = IF new.hash = old.hash THEN now.hash ELSE new.hash
         /\ u.text = IF new.text = old.text THEN now.text ELSE new.text
<1> DEFINE u == Flush(old, new, now)
<1>1. DOMAIN now = {"status", "hash", "text", "attempts", "backoff"}
  BY DEF Row
<1>2. u = [f \in {"status", "hash", "text", "attempts", "backoff"} |->
             IF new[f] = old[f] THEN now[f] ELSE new[f]]
  BY <1>1 DEF Flush
<1>3. /\ u.status = IF new.status = old.status THEN now.status ELSE new.status
      /\ u.hash = IF new.hash = old.hash THEN now.hash ELSE new.hash
      /\ u.text = IF new.text = old.text THEN now.text ELSE new.text
      /\ u.attempts = IF new.attempts = old.attempts THEN now.attempts ELSE new.attempts
      /\ u.backoff = IF new.backoff = old.backoff THEN now.backoff ELSE new.backoff
  BY <1>2
<1>4. u = [status |-> u.status, hash |-> u.hash, text |-> u.text,
           attempts |-> u.attempts, backoff |-> u.backoff]
  BY <1>2
<1>5. /\ u.status \in Statuses /\ u.hash \in Nat /\ u.text \in Texts
      /\ u.attempts \in Nat /\ u.backoff \in BOOLEAN
  BY <1>3, RowFields
<1> HIDE DEF u
<1>6. u \in Row
  BY <1>4, <1>5 DEF Row, Statuses
<1>7. QED
  BY <1>3, <1>6 DEF u

LEMMA FreshFacts ==
  ASSUME NEW g \in Texts
  PROVE  /\ FreshRow(g) \in Row /\ FreshRow(g).status # "absent"
         /\ FreshRow(g).hash = g.of /\ FreshRow(g).text = SyncText(g)
         /\ SyncText(g) \in Texts
         /\ SyncText(g) # NoText /\ kind = "page" => FreshRow(g).status = "extracted"
<1>1. SyncText(g) \in Texts
  BY DataFacts DEF SyncText
<1>2. FreshStatus(g) \in Statuses \ {"absent"}
  BY DEF FreshStatus, Statuses
<1>3. g.of \in Nat
  BY DEF Texts
<1>4. FreshRow(g) \in Row
  BY <1>1, <1>2, <1>3 DEF FreshRow, Row, Statuses
<1>5. SyncText(g) # NoText /\ kind = "page" => FreshStatus(g) = "extracted"
  BY DEF FreshStatus
<1>6. QED
  BY <1>1, <1>2, <1>4, <1>5 DEF FreshRow

-----------------------------------------------------------------------------
(* Types *)

SourceTyped ==
  /\ kind \in {"file", "page"} /\ of \in [Syncs -> Rows]
  /\ content \in Nat \ {0} /\ edits \in Nat /\ render \in Nat /\ deploys \in Nat

TablesTyped ==
  row \in [Rows -> Row] /\ chunk \in [Rows -> Chunks] /\ quiz \in [Rows -> Quizzes]
    /\ told \subseteq Rows

SyncTyped ==
  /\ at \in [Syncs -> {"idle", "loaded", "fetched"}]
  /\ seen \in [Syncs -> Row] /\ got \in [Syncs -> Texts]

RunTyped ==
  /\ stage \in {"off", "extract", "chunk", "quiz"} /\ todo \subseteq Rows
  /\ cur \in Rows \union {NoRow}
  /\ step \in {"next", "work", "copy", "alone", "commit", "reload", "settle", "failed",
                 "defer"}
  /\ mine \in Row /\ seenHash \in Nat /\ donor \in Rows \union {NoRow}
  /\ draft \in Drafts /\ made \subseteq Rows

HistoryTyped == overtaken \subseteq Syncs /\ crossed \subseteq Rows

LEMMA TypeParts ==
  TypeOK <=> /\ SourceTyped /\ TablesTyped /\ SyncTyped /\ RunTyped /\ HistoryTyped
             /\ faults \in Nat
BY DEF TypeOK, SourceTyped, TablesTyped, SyncTyped, RunTyped, HistoryTyped, Drafts

LEMMA TypeJoin ==
  ASSUME SourceTyped', TablesTyped', SyncTyped', RunTyped', HistoryTyped', faults' \in Nat
  PROVE  TypeOK'
BY DEF TypeOK, SourceTyped, TablesTyped, SyncTyped, RunTyped, HistoryTyped, Drafts

\* The variables of a process that takes no part in a step.
Still ==
  /\ UNCHANGED source => SourceTyped'
  /\ UNCHANGED tables => TablesTyped'
  /\ UNCHANGED syncVars => SyncTyped'
  /\ UNCHANGED runVars => RunTyped'
  /\ UNCHANGED history => HistoryTyped'

LEMMA StillFacts == TypeOK => Still
BY TypeParts DEF Still, SourceTyped, TablesTyped, SyncTyped, RunTyped, HistoryTyped,
                 source, tables, syncVars, runVars, hand, history

LEMMA FaultFacts == ASSUME faults \in Nat, Fault PROVE faults' \in Nat
BY DEF Fault

LEMMA EndSyncTyped ==
  ASSUME SyncTyped, NEW s \in Syncs, EndSync(s)
  PROVE  SyncTyped'
BY DataFacts DEF SyncTyped, EndSync

LEMMA EndWriteTyped ==
  ASSUME SyncTyped, NEW s \in Syncs, EndWrite(s)
  PROVE  SyncTyped'
BY DataFacts DEF SyncTyped, EndWrite

\* Each step adds to the history what it may, or leaves it as it is.
LEMMA HistoryTypes ==
  ASSUME HistoryTyped, NEW s \in Syncs, of[s] \in Rows,
         (EndSync(s) /\ UNCHANGED crossed) \/ EndWrite(s)
  PROVE  HistoryTyped'
<1>1. CASE EndSync(s) /\ UNCHANGED crossed
  BY <1>1 DEF HistoryTyped, EndSync
<1>2. CASE EndWrite(s)
  BY <1>2 DEF HistoryTyped, EndWrite
<1>3. QED
  BY <1>1, <1>2

LEMMA InheritTypes ==
  ASSUME HistoryTyped, cur \in Rows, UNCHANGED overtaken,
         UNCHANGED crossed \/ \E d \in Rows : Inherit(d)
  PROVE  HistoryTyped'
BY DEF HistoryTyped, Inherit

LEMMA ReleaseTyped ==
  ASSUME RunTyped, NEW rest, rest \subseteq Rows, Release(rest),
         stage' \in {"off", "extract", "chunk", "quiz"}, made' \subseteq Rows
  PROVE  RunTyped'
BY DataFacts DEF RunTyped, Release

LEMMA ReadyTyped ==
  ASSUME RunTyped, NEW d \in Drafts, Ready(d), UNCHANGED <<stage, made>>
  PROVE  RunTyped'
BY DEF RunTyped, Ready

LEMMA SourceTypes ==
  ASSUME TypeOK, Edit \/ Deploy
  PROVE  TypeOK'
<1>1. SourceTyped'
  <2>1. SourceTyped
    BY TypeParts
  <2>2. CASE Edit
    BY <2>1, <2>2 DEF Edit, SourceTyped
  <2>3. CASE Deploy
    BY <2>1, <2>3 DEF Deploy, SourceTyped
  <2>4. QED
    BY <2>2, <2>3
<1>2. UNCHANGED <<tables, syncVars, runVars, history, faults>>
  BY DEF Edit, Deploy
<1>3. QED
  BY <1>1, <1>2, StillFacts, TypeParts, TypeJoin DEF Still

LEMMA SyncTypes ==
  ASSUME TypeOK, NEW s \in Syncs, Sync(s) \/ SyncReload(s) \/ SyncCrash(s)
  PROVE  TypeOK'
<1>1. SyncTyped /\ TablesTyped /\ SourceTyped /\ HistoryTyped /\ faults \in Nat /\ Still
  BY TypeParts, StillFacts
<1>2. UNCHANGED source /\ UNCHANGED runVars
  BY DEF Sync, SyncLoad, SyncFetch, SyncInsert, SyncReset, SyncRefresh, SyncSkip,
         SyncReload, SyncCrash
<1>3. faults' \in Nat
  <2>1. UNCHANGED faults \/ Fault
    BY DEF Sync, SyncLoad, SyncFetch, SyncInsert, SyncReset, SyncRefresh, SyncSkip,
           SyncReload, SyncCrash
  <2>2. QED
    BY <1>1, <2>1, FaultFacts
<1>4. of[s] \in Rows /\ row[of[s]] \in Row /\ seen[s] \in Row /\ got[s] \in Texts
  BY <1>1 DEF TablesTyped, SyncTyped, SourceTyped
<1>5. SyncTyped'
  <2>1. CASE SyncLoad(s)
    BY <1>1, <1>4, <2>1 DEF SyncLoad, SyncTyped
  <2>2. CASE SyncFetch(s)
    <3>1. [of |-> content, by |-> IF kind = "page" THEN render ELSE 0] \in Texts
      BY <1>1 DEF Texts, SourceTyped
    <3>2. QED
      BY <1>1, <2>2, <3>1 DEF SyncFetch, SyncTyped
  <2>3. CASE SyncReload(s)
    BY <1>1, <1>4, <2>3 DEF SyncReload, SyncTyped
  <2>4. CASE EndSync(s) \/ EndWrite(s)
    BY <1>1, <2>4, EndSyncTyped, EndWriteTyped
  <2>5. QED
    BY <2>1, <2>2, <2>3, <2>4 DEF Sync, SyncInsert, SyncReset, SyncRefresh, SyncSkip, SyncCrash
<1>6. TablesTyped'
  <2>1. CASE SyncInsert(s)
    <3>1. row' = row \/ row' = [row EXCEPT ![of[s]] = FreshRow(got[s])]
      BY <2>1 DEF SyncInsert
    <3>2. QED
      BY <1>1, <1>4, <2>1, <3>1, FreshFacts DEF SyncInsert, TablesTyped
  <2>2. CASE SyncReset(s)
    <3>1. Flush(seen[s], FreshRow(got[s]), row[of[s]]) \in Row
      BY <1>4, FreshFacts, FlushFacts
    <3>2. "none" \in Quizzes
      BY DEF Quizzes
    <3>3. QED
      BY <1>1, <1>4, <2>2, <3>1, <3>2, DataFacts DEF SyncReset, TablesTyped
  <2>3. CASE SyncRefresh(s)
    <3>1. [row[of[s]] EXCEPT !.text = got[s]] \in Row
      BY <1>4 DEF Row
    <3>2. \A t \in Texts : [chunk[of[s]] EXCEPT !.index = t] \in Chunks
      BY <1>1, <1>4 DEF TablesTyped, Chunks
    <3>3. PICK place \in {got[s], NoText} :
            chunk' = [chunk EXCEPT ![of[s]].index = IF chunk[of[s]] = NoChunk THEN NoText ELSE place]
      BY <2>3 DEF SyncRefresh
    <3>4. (IF chunk[of[s]] = NoChunk THEN NoText ELSE place) \in Texts
      BY <1>4, <3>3, DataFacts
    <3>5. chunk' \in [Rows -> Chunks]
      BY <1>1, <1>4, <3>2, <3>3, <3>4 DEF TablesTyped
    <3>6. row' \in [Rows -> Row]
      BY <1>1, <1>4, <2>3, <3>1 DEF SyncRefresh, TablesTyped
    <3>7. QED
      BY <1>1, <2>3, <3>5, <3>6 DEF SyncRefresh, TablesTyped
  <2>4. CASE UNCHANGED tables
    BY <1>1, <2>4 DEF Still
  <2>5. QED
    BY <2>1, <2>2, <2>3, <2>4 DEF Sync, SyncLoad, SyncFetch, SyncSkip, SyncReload, SyncCrash
<1>7. HistoryTyped'
  <2>1. CASE UNCHANGED history
    BY <1>1, <2>1 DEF Still
  <2>2. CASE (EndSync(s) /\ UNCHANGED crossed) \/ EndWrite(s)
    BY <1>1, <1>4, <2>2, HistoryTypes
  <2>3. QED
    BY <2>1, <2>2 DEF Sync, SyncLoad, SyncFetch, SyncInsert, SyncReset, SyncRefresh,
                      SyncSkip, SyncReload, SyncCrash
<1>8. QED
  BY <1>1, <1>2, <1>3, <1>5, <1>6, <1>7, TypeJoin DEF Still

\* What the run is about to write.
LEMMA DraftFields ==
  ASSUME NEW d \in Drafts
  PROVE  /\ d.row \in Row /\ d.chunk \in Chunks /\ d.quiz \in Quizzes
         /\ \A w \in Row : [d EXCEPT !.row = w] \in Drafts
         /\ \A st \in Statuses : [d.row EXCEPT !.status = st] \in Row
         /\ \A w \in Row, c \in Chunks : [d EXCEPT !.row = w, !.chunk = c] \in Drafts
         /\ \A q \in Quizzes : [d EXCEPT !.quiz = q] \in Drafts
BY DEF Drafts, Row, Statuses

LEMMA RowEdits ==
  ASSUME NEW w \in Row
  PROVE  /\ [w EXCEPT !.attempts = w.attempts + 1, !.backoff = TRUE] \in Row
         /\ [w EXCEPT !.attempts = 0, !.backoff = FALSE] \in Row
         /\ [w EXCEPT !.backoff = FALSE] \in Row
         /\ \A text \in Texts :
              [w EXCEPT !.status = "extracted", !.text = text,
                        !.attempts = 0, !.backoff = FALSE] \in Row
         /\ \A st \in Statuses, n \in Nat :
              [w EXCEPT !.attempts = n, !.backoff = TRUE, !.status = st] \in Row
<1>1. /\ w.attempts \in Nat /\ w.attempts + 1 \in Nat
  BY DEF Row
<1>2. QED
  BY <1>1 DEF Row, Statuses

LEMMA RunTypes ==
  ASSUME TypeOK, Holding, Run \/ ShareFailed \/ QuotaExhausted \/ CrashRun
  PROVE  RunTyped'
<1>1. RunTyped /\ TablesTyped /\ SourceTyped /\ (step # "next" => cur \in Rows)
  BY TypeParts DEF Holding, RunTyped
<1>2. \A r \in Rows : row[r] \in Row /\ chunk[r] \in Chunks /\ quiz[r] \in Quizzes
  BY <1>1 DEF TablesTyped
<1>3. draft \in Drafts /\ mine \in Row /\ todo \subseteq Rows
  BY <1>1 DEF RunTyped
<1>4. ASSUME Release(todo) \/ Release({}), stage' \in {stage, "off"},
             made' \in {made, {}}
      PROVE  RunTyped'
  BY <1>1, <1>3, <1>4, ReleaseTyped DEF RunTyped
<1>5. ASSUME NEW d \in Drafts, Ready(d), UNCHANGED <<stage, made>>
      PROVE  RunTyped'
  BY <1>1, <1>5, ReadyTyped
<1>6. CASE StartRun
  BY <1>1, <1>6 DEF StartRun, RunTyped, PendingIds, hand
<1>7. CASE NextStage
  BY <1>1, <1>7 DEF NextStage, RunTyped, ChunkableIds, QuizIds, hand
<1>8. ASSUME NEW r \in Rows, TakeUp(r)
      PROVE  RunTyped'
  <2>1. [Nothing EXCEPT !.row = row[r], !.chunk = chunk[r]] \in Drafts
    BY <1>2, DataFacts, DraftFields
  <2>2. CASE Release(todo \ {r})
    BY <1>1, <1>8, <2>2, ReleaseTyped DEF TakeUp, RunTyped
  <2>3. CASE ~Release(todo \ {r})
    <3>1. row[r].hash \in Nat
      BY <1>2, RowFields
    <3>2. QED
      BY <1>1, <1>2, <1>8, <2>1, <2>3, <3>1 DEF TakeUp, RunTyped
  <2>4. QED
    BY <2>2, <2>3
<1>9. ASSUME NEW r \in Rows, Tell(r)
      PROVE  RunTyped'
  BY <1>1, <1>9 DEF Tell, RunTyped, hand
<1>10. ASSUME NEW text \in Texts, ReadyText(text), UNCHANGED <<stage, made>>
       PROVE  RunTyped'
  <2>1. [draft.row EXCEPT !.status = "extracted", !.text = text,
                          !.attempts = 0, !.backoff = FALSE] \in Row
    BY <1>3, DraftFields, RowEdits
  <2>2. QED
    BY <1>3, <1>5, <1>10, <2>1, DraftFields DEF ReadyText
<1>11. ASSUME NEW st \in Statuses, UNCHANGED <<stage, made>>,
              Ready([draft EXCEPT !.row.status = st])
       PROVE  RunTyped'
  <2>1. [draft EXCEPT !.row.status = st] = [draft EXCEPT !.row = [draft.row EXCEPT !.status = st]]
    OBVIOUS
  <2>2. QED
    BY <1>3, <1>5, <1>11, <2>1, DraftFields
<1>12. CASE Extract
  <2>1. UNCHANGED <<stage, made>> /\ stage = "extract"
    BY <1>12 DEF Extract
  <2>2. CASE \E d \in TextDonors : ReadyText(row[d].text)
    BY <1>2, <1>10, <2>1, <2>2, RowFields DEF TextDonors, SameMaterial
  <2>3. CASE ReadyText([of |-> content, by |-> 0])
    <3>1. [of |-> content, by |-> 0] \in Texts
      BY <1>1 DEF SourceTyped, Texts
    <3>2. QED
      BY <1>10, <2>1, <2>3, <3>1
  <2>4. CASE ReadyText(mine.text)
    BY <1>3, <1>10, <2>1, <2>4, RowFields
  <2>5. CASE \E st \in {"skipped", "failed"} : Ready([draft EXCEPT !.row.status = st])
    BY <1>11, <2>1, <2>5 DEF Statuses
  <2>6. CASE Ready([draft EXCEPT !.row.attempts = @ + 1, !.row.backoff = TRUE])
    <3>1. draft.row \in Row /\ draft.row.attempts + 1 \in Nat
      <4>1. draft.row \in Row
        BY <1>3, DraftFields
      <4>2. QED
        BY <4>1, RowFields
    <3>2. draft' \in Drafts
      BY <1>3, <2>6, <3>1 DEF Ready, Drafts, Row
    <3>3. step' = "commit" /\ UNCHANGED <<todo, cur, mine, seenHash, donor>>
      BY <2>6 DEF Ready
    <3>4. QED
      BY <1>1, <2>1, <3>2, <3>3 DEF RunTyped
  <2>7. CASE Release(todo)
    BY <1>4, <2>1, <2>7
  <2>8. QED
    BY <1>12, <2>2, <2>3, <2>4, <2>5, <2>6, <2>7 DEF Extract
<1>13. CASE ShareFailed
  <2>1. CASE Release(todo)
    BY <1>4, <1>13, <2>1 DEF ShareFailed
  <2>2. CASE ~Release(todo)
    <3>1. row[cur] \in Row /\ [draft EXCEPT !.row = row[cur]] \in Drafts
      BY <1>1, <1>2, <1>3, <1>13, DraftFields DEF ShareFailed
    <3>2. QED
      BY <1>1, <1>13, <2>2, <3>1 DEF ShareFailed, RunTyped
  <2>3. QED
    BY <2>1, <2>2
<1>14. CASE CommitText \/ Settle \/ Defer \/ QuotaExhausted \/ CrashRun
  BY <1>4, <1>14 DEF CommitText, Settle, Defer, QuotaExhausted, CrashRun
<1>15. ASSUME NEW st \in Statuses, NEW c \in Chunks, UNCHANGED <<stage, made>>,
              Ready([draft EXCEPT !.row.status = st, !.chunk = c])
       PROVE  RunTyped'
  <2>1. [draft.row EXCEPT !.status = st] \in Row
    BY <1>3, DraftFields
  <2>2. [draft EXCEPT !.row.status = st, !.chunk = c]
          = [draft EXCEPT !.row = [draft.row EXCEPT !.status = st], !.chunk = c]
    OBVIOUS
  <2>3. QED
    BY <1>3, <1>5, <1>15, <2>1, <2>2, DraftFields
<1>16. CASE FindDonor
  <2>1. Donors \subseteq Rows
    BY DEF Donors, ChunkDonors, QuizDonors, SameMaterial
  <2>2. QED
    BY <1>1, <1>16, <2>1 DEF FindDonor, RunTyped
<1>17. CASE CopyChunk
  <2>1. chunk[donor] \in Chunks
    BY <1>2, <1>17 DEF CopyChunk, Holding
  <2>2. QED
    BY <1>15, <1>17, <2>1 DEF CopyChunk, Statuses
<1>18. CASE Cut
  <2>1. UNCHANGED <<stage, made>>
    BY <1>18 DEF Cut
  <2>2. [from |-> mine.text, index |-> mine.text] \in Chunks
    BY <1>3, RowFields DEF Chunks
  <2>3. CASE step' = "failed" /\ UNCHANGED <<todo, cur, mine, seenHash, donor, draft>>
    BY <1>1, <2>1, <2>3 DEF RunTyped
  <2>4. QED
    BY <1>15, <1>18, <2>1, <2>2, <2>3, DataFacts DEF Cut, Statuses
<1>19. CASE Reload
  <2>1. row[cur] \in Row /\ [Nothing EXCEPT !.row = row[cur]] \in Drafts
    BY <1>1, <1>2, <1>19, DataFacts, DraftFields DEF Reload
  <2>2. QED
    BY <1>1, <1>19, <2>1 DEF Reload, RunTyped
<1>20. CASE CommitChunk
  <2>1. CASE Release(todo)
    BY <1>4, <1>20, <2>1 DEF CommitChunk
  <2>2. CASE ~Release(todo)
    BY <1>1, <1>20, <2>2 DEF CommitChunk, RunTyped
  <2>3. QED
    BY <2>1, <2>2
<1>21. CASE ReloadFailed
  <2>1. CASE Release(todo)
    BY <1>4, <1>21, <2>1 DEF ReloadFailed
  <2>2. CASE ~Release(todo)
    BY <1>1, <1>2, <1>21, <2>2 DEF ReloadFailed, RunTyped
  <2>3. QED
    BY <2>1, <2>2
<1>22. CASE Ask
  <2>1. CASE Release(todo)
    BY <1>4, <1>22, <2>1 DEF Ask
  <2>2. CASE \E q \in Quizzes : Ready([draft EXCEPT !.quiz = q])
    BY <1>3, <1>5, <1>22, <2>2, DraftFields DEF Ask
  <2>3. step = "copy" => quiz[donor] \in Quizzes
    BY <1>2 DEF Holding
  <2>4. QED
    BY <1>22, <2>1, <2>2, <2>3 DEF Ask, Quizzes
<1>23. CASE CommitQuiz
  <2>1. made' \subseteq Rows
    BY <1>1, <1>23 DEF CommitQuiz, RunTyped
  <2>2. QED
    BY <1>1, <1>23, <2>1, ReleaseTyped DEF CommitQuiz, RunTyped
<1>24. CASE EndRun
  BY <1>1, <1>24 DEF EndRun, RunTyped, hand
<1>25. QED
  BY <1>6, <1>7, <1>8, <1>9, <1>12, <1>13, <1>14, <1>16, <1>17, <1>18, <1>19,
     <1>20, <1>21, <1>22, <1>23, <1>24 DEF Run

LEMMA RunTables ==
  ASSUME TypeOK, Holding, Run \/ ShareFailed \/ QuotaExhausted \/ CrashRun
  PROVE  TablesTyped'
<1>1. RunTyped /\ TablesTyped /\ (step # "next" => cur \in Rows) /\ Still
  BY TypeParts, StillFacts DEF Holding, RunTyped
<1>2. \A r \in Rows : row[r] \in Row
  BY <1>1 DEF TablesTyped
<1>3. draft \in Drafts /\ mine \in Row /\ mine.attempts + 1 \in Nat
  BY <1>1, RowFields DEF RunTyped
<1>4. CASE CommitText
  <2>1. Flush(mine, draft.row, row[cur]) \in Row
    BY <1>1, <1>2, <1>3, <1>4, DraftFields, FlushFacts DEF CommitText
  <2>2. QED
    BY <1>1, <1>4, <2>1 DEF CommitText, TablesTyped
<1>5. CASE CommitChunk
  <2>1. Flush(mine, draft.row, row[cur]) \in Row /\ draft.chunk \in Chunks /\ "none" \in Quizzes
    BY <1>1, <1>2, <1>3, <1>5, DraftFields, FlushFacts DEF CommitChunk, Quizzes
  <2>2. CASE UNCHANGED tables
    BY <1>1, <2>2 DEF Still
  <2>3. CASE ~UNCHANGED tables
    BY <1>1, <1>5, <2>1, <2>3 DEF CommitChunk, TablesTyped
  <2>4. QED
    BY <2>2, <2>3
<1>6. CASE Settle
  <2>1. [row[cur] EXCEPT !.attempts = 0, !.backoff = FALSE] \in Row
    BY <1>1, <1>2, <1>6, RowEdits DEF Settle
  <2>2. QED
    BY <1>1, <1>6, <2>1 DEF Settle, TablesTyped
<1>7. CASE Defer
  <2> DEFINE n == mine.attempts + 1
             st == IF n >= MaxTries THEN "failed" ELSE mine.status
             late == [mine EXCEPT !.attempts = n, !.backoff = TRUE, !.status = st]
  <2>1. st \in Statuses /\ n \in Nat
    BY <1>3, RowFields DEF Statuses
  <2>2. late \in Row
    BY <1>3, <2>1, RowEdits
  <2>3. row' = [row EXCEPT ![cur] = Flush(mine, late, row[cur])]
    BY <1>7 DEF Defer
  <2> HIDE DEF late
  <2>4. Flush(mine, late, row[cur]) \in Row
    BY <1>1, <1>2, <1>3, <1>7, <2>2, FlushFacts DEF Defer
  <2>5. QED
    BY <1>1, <1>7, <2>3, <2>4 DEF Defer, TablesTyped
<1>8. CASE CommitQuiz
  BY <1>1, <1>3, <1>8, DraftFields DEF CommitQuiz, TablesTyped
<1>9. CASE \E r \in Rows : Tell(r)
  BY <1>1, <1>9 DEF Tell, TablesTyped
<1>10. CASE UNCHANGED tables
  BY <1>1, <1>10 DEF Still
<1>11. QED
  BY <1>4, <1>5, <1>6, <1>7, <1>8, <1>9, <1>10
     DEF Run, StartRun, NextStage, TakeUp, Extract, FindDonor, CopyChunk, Cut, Reload,
         ReloadFailed, Ask, EndRun, ShareFailed, QuotaExhausted, CrashRun

LEMMA RunHistory ==
  ASSUME TypeOK, Holding, Run \/ ShareFailed \/ QuotaExhausted \/ CrashRun
  PROVE  HistoryTyped'
<1>1. HistoryTyped /\ Still /\ (step # "next" => cur \in Rows)
  BY TypeParts, StillFacts DEF Holding, RunTyped
<1>2. CASE Extract
  <2>1. UNCHANGED crossed \/ \E d \in Rows : Inherit(d)
    BY <1>2 DEF Extract, TextDonors, SameMaterial
  <2>2. QED
    BY <1>1, <1>2, <2>1, InheritTypes DEF Extract
<1>3. CASE CopyChunk
  <2>1. \E d \in Rows : Inherit(d)
    BY <1>3 DEF CopyChunk, Holding
  <2>2. QED
    BY <1>1, <1>3, <2>1, InheritTypes DEF CopyChunk
<1>4. CASE UNCHANGED history
  BY <1>1, <1>4 DEF Still
<1>5. QED
  BY <1>2, <1>3, <1>4
     DEF Run, StartRun, NextStage, TakeUp, Tell, CommitText, FindDonor, Cut, CommitChunk,
         Reload, Settle, ReloadFailed, Defer, Ask, CommitQuiz, EndRun, ShareFailed,
         QuotaExhausted, CrashRun

LEMMA RunHolds ==
  ASSUME TypeOK, Holding, Run \/ ShareFailed \/ QuotaExhausted \/ CrashRun
  PROVE  Holding'
<1>1. /\ cur \in Rows \union {NoRow} /\ (step = "next" <=> cur = NoRow)
      /\ step = "copy" => donor \in Rows /\ stage \in {"chunk", "quiz"}
  BY DEF Holding, TypeOK
<1>2. ASSUME NEW rest, Release(rest)
      PROVE  Holding'
  BY <1>2 DEF Release, Holding
<1>3. ASSUME step # "next", UNCHANGED cur,
             step' \in {"commit", "reload", "settle", "failed", "alone", "defer"}
      PROVE  Holding'
  BY <1>1, <1>3 DEF Holding
<1>4. ASSUME NEW d, Ready(d), step # "next"
      PROVE  Holding'
  BY <1>3, <1>4 DEF Ready
<1>5. CASE StartRun \/ NextStage \/ (\E r \in Rows : Tell(r)) \/ EndRun
  <2>1. cur' = cur /\ step' = step
    BY <1>5 DEF StartRun, NextStage, Tell, EndRun, hand
  <2>2. step' # "copy"
    <3>1. CASE StartRun
      BY <1>1, <2>1, <3>1 DEF StartRun
    <3>2. CASE ~StartRun
      BY <1>5, <2>1, <3>2 DEF NextStage, Tell, EndRun
    <3>3. QED
      BY <3>1, <3>2
  <2>3. QED
    BY <1>1, <2>1, <2>2 DEF Holding
<1>6. CASE \E r \in Rows : TakeUp(r)
  BY <1>2, <1>6, RowsAssumption DEF TakeUp, Holding
<1>7. CASE Extract
  BY <1>2, <1>4, <1>7 DEF Extract, ReadyText
<1>8. CASE ShareFailed \/ ReloadFailed \/ CommitChunk \/ Reload
  BY <1>2, <1>3, <1>8 DEF ShareFailed, ReloadFailed, CommitChunk, Reload
<1>9. CASE FindDonor
  <2>1. Donors \subseteq Rows
    BY DEF Donors, ChunkDonors, QuizDonors, SameMaterial
  <2>2. QED
    BY <1>1, <1>9, <2>1 DEF FindDonor, Holding
<1>10. CASE CopyChunk \/ Cut \/ Ask
  BY <1>2, <1>3, <1>4, <1>10 DEF CopyChunk, Cut, Ask
<1>11. CASE CommitText \/ Settle \/ Defer \/ CommitQuiz \/ QuotaExhausted \/ CrashRun
  BY <1>2, <1>11 DEF CommitText, Settle, Defer, CommitQuiz, QuotaExhausted, CrashRun
<1>12. QED
  BY <1>5, <1>6, <1>7, <1>8, <1>9, <1>10, <1>11 DEF Run

LEMMA TypeStep == TypeOK /\ Holding /\ [Next]_vars => TypeOK' /\ Holding'
<1> SUFFICES ASSUME TypeOK, Holding, [Next]_vars
             PROVE  TypeOK' /\ Holding'
  OBVIOUS
<1>1. /\ SourceTyped /\ TablesTyped /\ SyncTyped /\ RunTyped /\ HistoryTyped
      /\ faults \in Nat /\ Still
  BY TypeParts, StillFacts
<1>2. CASE Run \/ ShareFailed \/ QuotaExhausted \/ CrashRun
  <2>1. UNCHANGED source /\ UNCHANGED syncVars
    BY <1>2 DEF Run, StartRun, NextStage, TakeUp, Tell, Extract, CommitText, FindDonor,
                CopyChunk, Cut, CommitChunk, Reload, Settle, ReloadFailed, Defer, Ask, CommitQuiz, EndRun, ShareFailed,
                QuotaExhausted, CrashRun
  <2>2. UNCHANGED faults \/ Fault
    BY <1>2 DEF Run, StartRun, NextStage, TakeUp, Tell, Extract, CommitText, FindDonor,
                CopyChunk, Cut, CommitChunk, Reload, Settle, ReloadFailed, Defer, Ask, CommitQuiz, EndRun, ShareFailed,
                QuotaExhausted, CrashRun
  <2>3. faults' \in Nat
    BY <1>1, <2>2, FaultFacts
  <2>4. QED
    BY <1>1, <1>2, <2>1, <2>3, RunTypes, RunTables, RunHistory, RunHolds,
       TypeJoin DEF Still
<1>3. CASE Edit \/ Deploy
  BY <1>3, SourceTypes DEF Edit, Deploy, runVars, hand, Holding
<1>4. ASSUME NEW s \in Syncs, Sync(s) \/ SyncReload(s) \/ SyncCrash(s)
      PROVE  TypeOK' /\ Holding'
  <2>1. UNCHANGED runVars
    BY <1>4 DEF Sync, SyncLoad, SyncFetch, SyncInsert, SyncReset, SyncRefresh, SyncSkip,
                SyncReload, SyncCrash
  <2>2. QED
    BY <1>4, <2>1, SyncTypes DEF runVars, hand, Holding
<1>5. ASSUME NEW r \in Rows, BackoffEnds(r)
      PROVE  TypeOK' /\ Holding'
  <2>1. row' \in [Rows -> Row]
    BY <1>1, <1>5, RowEdits DEF BackoffEnds, TablesTyped
  <2>2. TablesTyped'
    BY <1>1, <1>5, <2>1 DEF BackoffEnds, TablesTyped
  <2>3. QED
    BY <1>1, <1>5, <2>2, TypeJoin DEF BackoffEnds, Still, Holding, runVars, hand
<1>6. CASE UNCHANGED vars
  <2>1. UNCHANGED <<source, tables, syncVars, runVars, history, faults>>
    BY <1>6 DEF vars, source, tables, syncVars, runVars, hand, history
  <2>2. QED
    BY <1>1, <2>1, TypeJoin DEF Still, Holding, runVars, hand
<1>7. QED
  BY <1>2, <1>3, <1>4, <1>5, <1>6 DEF Next

-----------------------------------------------------------------------------
(* The run, where it only reads *)

LEMMA InitIInv == Init => IInv
<1> SUFFICES ASSUME Init PROVE IInv
  OBVIOUS
<1>1. TypeOK
  <2>1. PICK c \in Cases : /\ kind = c.kind /\ of = c.of
                           /\ edits = c.edits /\ deploys = c.deploys /\ faults = c.faults
    BY DEF Init
  <2>2. c \in [kind : {"file", "page"}, of : [Syncs -> Rows],
               edits : Nat, deploys : Nat, faults : Nat]
    BY CasesAssumption
  <2>3. /\ kind \in {"file", "page"} /\ of \in [Syncs -> Rows]
        /\ edits \in Nat /\ deploys \in Nat /\ faults \in Nat
    BY <2>1, <2>2
  <2>4. QED
    BY <2>3, DataFacts DEF Init, TypeOK, Drafts, Quizzes
<1>2. \A s \in Syncs : at[s] = "idle" /\ seen[s] = Absent /\ got[s] = NoText
  BY DEF Init
<1>3. \A r \in Rows : row[r] = Absent /\ chunk[r] = NoChunk
  BY DEF Init
<1>4. Listed = {} /\ cur = NoRow /\ step = "next" /\ todo = {} /\ stage = "off" /\ content = 1
  BY DEF Init, Listed
<1>5. \A s \in Syncs : Synced(s)
  BY <1>2, DataFacts DEF Synced
<1>6. ChunkedLast /\ ChunksOfText /\ Hashed
  BY <1>3, <1>4, DataFacts DEF ChunkedLast, ChunksOfText, Hashed
<1>7. Holding /\ Workable /\ InHand
  BY <1>4 DEF Holding, Workable, InHand
<1>8. QED
  BY <1>1, <1>5, <1>6, <1>7 DEF IInv

\* The row in hand.
LEMMA HandFacts ==
  ASSUME IInv, step # "next"
  PROVE  /\ cur \in Rows /\ cur # NoRow /\ cur \in Listed /\ row[cur].status # "absent"
         /\ row[cur] \in Row /\ chunk[cur] \in Chunks /\ mine \in Row /\ draft \in Drafts
BY RowsAssumption DEF IInv, TypeOK, Holding, Workable, Listed, Drafts

\* A step that leaves the rows, the chunks and the syncs as they are; a row may
\* become a crossed one.
Frozen ==
  /\ UNCHANGED <<kind, of, content, row, chunk, at, seen, got, overtaken>>
  /\ crossed \subseteq crossed'

LEMMA TablesStay ==
  ASSUME IInv, Frozen
  PROVE  /\ ChunkedLast' /\ ChunksOfText' /\ \A s \in Syncs : Synced(s)'
         /\ kind' = "file" => \A r \in Rows : row'[r].hash <= content'
         /\ kind' = "page" => \A r \in Rows \ crossed' : row'[r].text.of = row'[r].hash
<1>1. \A s \in Syncs : Synced(s)'
  <2> TAKE s \in Syncs
  <2>1. Synced(s)
    BY DEF IInv
  <2>2. QED
    BY <2>1 DEF Synced, Frozen
<1>2. QED
  BY <1>1 DEF IInv, ChunkedLast, ChunksOfText, Hashed, Frozen

\* The run is done with the row in hand, which is all that it may have changed.
LEMMA ReleaseKeeps ==
  ASSUME IInv, NEW rest \in SUBSET todo, Release(rest), stage' = stage \/ rest = {},
         crossed \subseteq crossed',
         \A r \in Rows \ {cur} : /\ row'[r].status = row[r].status
                                 /\ chunk'[r] = chunk[r] /\ quiz'[r] = quiz[r]
  PROVE  Workable' /\ InHand' /\ cur' = NoRow
<1>1. /\ cur' = NoRow /\ step' = "next" /\ todo' = rest /\ Listed' = rest
      /\ cur \notin todo /\ rest \subseteq Listed /\ rest \subseteq Rows
  BY DEF Release, Listed, IInv, Workable, TypeOK
<1>2. \A r \in rest : r \in Rows \ {cur} /\ r \in Listed /\ stage' = stage
  BY <1>1
<1>3. Workable'
  BY <1>1, <1>2, RowsAssumption DEF IInv, Workable
<1>4. InHand'
  BY <1>1 DEF InHand
<1>5. QED
  BY <1>1, <1>3, <1>4

\* Steps of a run that write nothing but what the run itself remembers.
LEMMA ReadingStep ==
  ASSUME IInv, TypeOK', Holding', Frozen, Workable', InHand', Hashed'
  PROVE  IInv'
BY TablesStay DEF IInv

LEMMA LettingGo ==
  ASSUME IInv, TypeOK', Holding', Frozen, UNCHANGED quiz,
         NEW rest \in SUBSET todo, Release(rest), stage' = stage \/ rest = {}
  PROVE  IInv'
<1>1. Workable' /\ InHand' /\ cur' = NoRow
  BY ReleaseKeeps DEF Frozen
<1>2. Hashed'
  BY <1>1, TablesStay DEF Hashed
<1>3. QED
  BY <1>1, <1>2, ReadingStep

\* A run lists the rows of a stage.
LEMMA ListingStep ==
  ASSUME IInv, TypeOK', Holding', StartRun \/ NextStage \/ EndRun
  PROVE  IInv'
<1>1. Frozen /\ UNCHANGED <<quiz, cur, step, mine, draft, donor>>
  BY DEF StartRun, NextStage, EndRun, source, tables, syncVars, hand, history, Frozen
<1>2. cur = NoRow /\ step = "next"
  <2>1. CASE StartRun
    BY <2>1, RowsAssumption DEF StartRun, IInv, Workable, Listed, Holding, TypeOK
  <2>2. CASE NextStage \/ EndRun
    BY <2>2 DEF NextStage, EndRun, IInv, Holding
  <2>3. QED
    BY <2>1, <2>2
<1>3. Listed' = todo' /\ cur' \notin todo' /\ cur' = NoRow
  BY <1>1, <1>2, RowsAssumption DEF Listed, TypeOK
<1>4. Hashed' /\ InHand'
  BY <1>1, <1>2, TablesStay DEF Hashed, InHand
<1>5. \A r \in Rows \ crossed : chunk[r] # NoChunk => row[r].status = "extracted"
  BY DEF IInv, ChunkedLast
<1>6. Workable'
  <2>1. CASE StartRun
    BY <1>1, <1>2, <1>3, <1>5, <2>1 DEF StartRun, PendingIds, Workable, Frozen
  <2>2. CASE NextStage /\ stage' = "chunk"
    BY <1>1, <1>2, <1>3, <2>2 DEF NextStage, ChunkableIds, Workable, Frozen
  <2>3. CASE NextStage /\ stage' = "quiz"
    <3>1. \A r \in Rows : chunk[r] # NoChunk => row[r].status # "absent"
      BY DEF IInv, ChunkedLast
    <3>2. QED
      BY <1>1, <1>2, <1>3, <2>3, <3>1 DEF NextStage, QuizIds, Workable, Frozen
  <2>4. CASE EndRun
    BY <1>1, <1>2, <1>3, <2>4 DEF EndRun, Workable
  <2>5. QED
    BY <2>1, <2>2, <2>3, <2>4 DEF NextStage
<1>7. QED
  BY <1>1, <1>4, <1>6, ReadingStep

LEMMA TakeUpStep ==
  ASSUME IInv, TypeOK', Holding', NEW r \in Rows, TakeUp(r)
  PROVE  IInv'
<1>1. /\ Frozen /\ UNCHANGED <<quiz, stage, crossed>>
      /\ stage # "off" /\ step = "next" /\ r \in todo
  BY DEF TakeUp, source, tables, syncVars, history, Frozen
<1>2. CASE Release(todo \ {r})
  BY <1>1, <1>2, LettingGo
<1>3. CASE ~Release(todo \ {r})
  <2>1. /\ cur' = r /\ step' = "work" /\ todo' = todo \ {r} /\ mine' = row[r]
        /\ draft' = [Nothing EXCEPT !.row = row[r], !.chunk = chunk[r]]
        /\ ~(stage = "chunk" /\ chunk[r] # NoChunk /\ row[r].status = "extracted")
    BY <1>3 DEF TakeUp
  <2>2. draft'.row = row[r] /\ draft'.chunk = chunk[r]
    BY <2>1 DEF Nothing
  <2>3. stage = "chunk" /\ r \notin crossed => chunk[r] = NoChunk
    BY <2>1 DEF IInv, ChunkedLast
  <2>4. Listed' \subseteq Listed /\ r \in Listed /\ r # NoRow
    BY <1>1, <2>1, RowsAssumption DEF Listed
  <2>5. row[r].hash \in Nat /\ row[r].status # "absent"
    BY <2>4, RowFields DEF IInv, TypeOK, Workable
  <2>6. Hashed'
    BY <1>1, <2>1, <2>4, <2>5, TablesStay DEF Hashed, Frozen
  <2>7. Workable'
    BY <1>1, <2>1, <2>3, <2>4 DEF IInv, Workable, Frozen
  <2>8. kind = "page" /\ r \notin crossed => row[r].text.of = row[r].hash
    BY DEF IInv, Hashed
  <2>9. InHand'
    BY <1>1, <2>1, <2>2, <2>4, <2>5, <2>8 DEF InHand, Frozen
  <2>10. QED
    BY <1>1, <2>6, <2>7, <2>9, ReadingStep
<1>4. QED
  BY <1>2, <1>3

\* A run that goes on with the row in hand as it was loaded.
LEMMA GoingOn ==
  ASSUME IInv, Frozen, UNCHANGED <<quiz, stage, todo, cur, mine>>,
         step # "next", step' # "next", step # "settle"
  PROVE  Workable' /\ Hashed' /\ Listed' = Listed
<1>1. Listed' = Listed /\ cur # NoRow
  BY HandFacts DEF Listed
<1>2. Workable'
  BY <1>1 DEF IInv, Workable, Frozen
<1>3. Hashed'
  BY <1>1, TablesStay DEF IInv, Hashed, Frozen
<1>4. QED
  BY <1>1, <1>2, <1>3

LEMMA ExtractStep ==
  ASSUME IInv, TypeOK', Holding', Extract
  PROVE  IInv'
<1>1. /\ Frozen /\ UNCHANGED <<quiz, stage>>
      /\ stage = "extract" /\ step \in {"work", "alone"}
  BY DEF Extract, Inherit, source, tables, syncVars, Frozen
<1>2. CASE Release(todo)
  BY <1>1, <1>2, LettingGo
<1>3. CASE ~Release(todo)
  <2>1. UNCHANGED <<todo, cur, mine>> /\ step' = "commit"
    BY <1>3 DEF Extract, ReadyText, Ready
  <2>2. /\ draft \in Drafts /\ draft.row \in Row /\ draft.row.hash = mine.hash
        /\ draft.row.status # "absent" /\ cur \in Rows /\ cur # NoRow
        /\ kind = "page" /\ cur \notin crossed =>
             draft.row.text.of = mine.hash /\ mine.text.of = mine.hash
    BY <1>1, HandFacts, DraftFields DEF IInv, InHand, Hashed
  <2>3. /\ draft'.row.hash = draft.row.hash /\ draft'.row.status # "absent"
        /\ kind = "page" => \/ draft'.row.text = draft.row.text \/ draft'.row.text = mine.text
                            \/ \E d \in TextDonors : draft'.row.text = row[d].text /\ Inherit(d)
    <3>1. ASSUME NEW text, ReadyText(text)
          PROVE  /\ draft'.row.hash = draft.row.hash /\ draft'.row.status # "absent"
                 /\ draft'.row.text = text
      BY <2>2, <3>1 DEF ReadyText, Ready, Drafts, Row
    <3>2. ASSUME NEW st \in Statuses \ {"absent"}, Ready([draft EXCEPT !.row.status = st])
          PROVE  /\ draft'.row.hash = draft.row.hash /\ draft'.row.status # "absent"
                 /\ draft'.row.text = draft.row.text
      BY <2>2, <3>2 DEF Ready, Drafts, Row
    <3>3. ASSUME Ready([draft EXCEPT !.row.attempts = @ + 1, !.row.backoff = TRUE])
          PROVE  /\ draft'.row.hash = draft.row.hash /\ draft'.row.status # "absent"
                 /\ draft'.row.text = draft.row.text
      BY <2>2, <3>3 DEF Ready, Drafts, Row
    <3>4. CASE \E d \in TextDonors : ReadyText(row[d].text) /\ Inherit(d)
      BY <3>1, <3>4
    <3>5. CASE kind = "file" /\ ReadyText([of |-> content, by |-> 0])
      BY <3>1, <3>5
    <3>6. CASE ReadyText(mine.text)
      BY <3>1, <3>6
    <3>7. CASE \E st \in {"skipped", "failed"} : Ready([draft EXCEPT !.row.status = st])
      BY <3>2, <3>7 DEF Statuses
    <3>8. CASE Ready([draft EXCEPT !.row.attempts = @ + 1, !.row.backoff = TRUE])
      BY <3>3, <3>8
    <3>9. QED
      BY <1>3, <3>4, <3>5, <3>6, <3>7, <3>8 DEF Extract
  <2>4. kind = "page" /\ cur \notin crossed' => draft'.row.text.of = mine.hash
    <3>1. ASSUME kind = "page", cur \notin crossed',
                 NEW d \in TextDonors, draft'.row.text = row[d].text, Inherit(d)
          PROVE  row[d].text.of = mine.hash
      <4>1. d \in Rows \ crossed /\ row[d].hash = mine.hash
        BY <3>1 DEF Inherit, TextDonors, SameMaterial
      <4>2. QED
        BY <3>1, <4>1 DEF IInv, Hashed
    <3>2. QED
      BY <1>1, <2>2, <2>3, <3>1 DEF Frozen
  <2>5. InHand'
    BY <1>1, <2>1, <2>2, <2>3, <2>4 DEF InHand, Frozen
  <2>6. Workable' /\ Hashed'
    BY <1>1, <2>1, GoingOn
  <2>7. QED
    BY <1>1, <2>5, <2>6, ReadingStep
<1>4. QED
  BY <1>2, <1>3

LEMMA ShareFailedStep ==
  ASSUME IInv, TypeOK', Holding', ShareFailed
  PROVE  IInv'
<1>1. /\ Frozen /\ UNCHANGED <<quiz, stage, crossed>>
      /\ stage \in {"extract", "chunk"} /\ step \in {"work", "copy"}
  BY DEF ShareFailed, source, tables, syncVars, history, Frozen
<1>2. CASE Release(todo)
  BY <1>1, <1>2, LettingGo
<1>3. CASE ~Release(todo)
  <2>1. /\ UNCHANGED <<todo, cur>> /\ step' = "alone" /\ mine' = row[cur]
        /\ draft' = [draft EXCEPT !.row = row[cur]]
    BY <1>3 DEF ShareFailed
  <2>2. /\ cur \in Rows /\ cur \in Listed /\ row[cur].status # "absent" /\ row[cur].hash \in Nat
        /\ draft \in Drafts /\ cur # NoRow
    BY <1>1, HandFacts, RowFields
  <2>3. draft'.row = row[cur]
    BY <2>1, <2>2 DEF Drafts
  <2>4. Listed' = Listed
    BY <2>1 DEF Listed
  <2>5. Workable'
    BY <1>1, <2>1, <2>2, <2>4 DEF IInv, Workable, Frozen
  <2>6. Hashed'
    BY <1>1, <2>1, <2>2, TablesStay DEF Hashed, Frozen
  <2>7. kind = "page" /\ cur \notin crossed => row[cur].text.of = row[cur].hash
    BY <2>2 DEF IInv, Hashed
  <2>8. InHand'
    BY <1>1, <2>1, <2>2, <2>3, <2>7 DEF InHand, Frozen
  <2>9. QED
    BY <1>1, <2>5, <2>6, <2>8, ReadingStep
<1>4. QED
  BY <1>2, <1>3

LEMMA FindDonorStep ==
  ASSUME IInv, TypeOK', Holding', FindDonor
  PROVE  IInv'
<1>1. /\ Frozen /\ UNCHANGED <<quiz, stage, crossed, todo, cur, mine, draft>>
      /\ step = "work" /\ step' \in {"copy", "alone"} /\ stage # "extract"
  BY DEF FindDonor, source, tables, syncVars, history, Frozen
<1>2. Workable' /\ Hashed'
  BY <1>1, GoingOn
<1>3. stage = "chunk" /\ step' = "copy" =>
        donor' \in Rows /\ row[donor'].text = mine.text /\ chunk[donor'] # NoChunk
  BY DEF FindDonor, Donors, ChunkDonors, SameMaterial
<1>4. stage = "chunk" /\ step' = "copy" /\ donor' \notin crossed =>
        chunk[donor'].from.of = mine.text.of
  BY <1>3 DEF IInv, ChunksOfText
<1>5. InHand'
  BY <1>1, <1>4 DEF IInv, InHand, Frozen
<1>6. QED
  BY <1>1, <1>2, <1>5, ReadingStep

\* A resource that was cut, or whose chunk was copied: what is to be committed.
LEMMA ChunkReady ==
  ASSUME IInv, TypeOK', Holding', Frozen, UNCHANGED <<quiz, stage>>,
         stage = "chunk", step \in {"copy", "alone"},
         NEW st \in Statuses \ {"absent"}, NEW c \in Chunks,
         cur \notin crossed' /\ c # NoChunk => c.from.of = mine.text.of /\ st = "extracted",
         Ready([draft EXCEPT !.row.status = st, !.chunk = c])
  PROVE  IInv'
<1>1. UNCHANGED <<todo, cur, mine>> /\ step' = "commit"
  BY DEF Ready
<1>2. Workable' /\ Hashed'
  BY <1>1, GoingOn
<1>3. /\ draft \in Drafts /\ draft.row \in Row /\ draft.row.hash = mine.hash
      /\ draft.row.status # "absent" /\ draft.row.text = mine.text
  BY HandFacts, DraftFields DEF IInv, InHand
<1>4. /\ draft'.row.status = st /\ draft'.chunk = c
      /\ draft'.row.hash = draft.row.hash /\ draft'.row.text = draft.row.text
  BY <1>3 DEF Ready, Drafts, Row
<1>5. InHand'
  BY <1>1, <1>3, <1>4 DEF IInv, InHand, Frozen
<1>6. QED
  BY <1>2, <1>5, ReadingStep

LEMMA CopyChunkStep ==
  ASSUME IInv, TypeOK', Holding', CopyChunk
  PROVE  IInv'
<1>1. /\ Frozen /\ UNCHANGED <<quiz, stage>> /\ stage = "chunk" /\ step = "copy"
      /\ Ready([draft EXCEPT !.row.status = "extracted", !.chunk = chunk[donor]])
  BY DEF CopyChunk, Inherit, source, tables, syncVars, Frozen
<1>2. donor \in Rows /\ chunk[donor] \in Chunks
  BY <1>1 DEF IInv, Holding, TypeOK
<1>3. cur \notin crossed' => donor \notin crossed
  BY DEF CopyChunk, Inherit
<1>4. cur \notin crossed' /\ chunk[donor] # NoChunk => chunk[donor].from.of = mine.text.of
  BY <1>1, <1>3 DEF IInv, InHand
<1>5. QED
  BY <1>1, <1>2, <1>4, ChunkReady DEF Statuses

LEMMA CutStep ==
  ASSUME IInv, TypeOK', Holding', Cut
  PROVE  IInv'
<1>1. /\ Frozen /\ UNCHANGED <<quiz, stage, crossed>> /\ stage = "chunk" /\ step = "alone"
  BY DEF Cut, source, tables, syncVars, history, Frozen
<1>2. CASE mine.text = NoText /\ Ready([draft EXCEPT !.row.status = "skipped", !.chunk = NoChunk])
  BY <1>1, <1>2, DataFacts, ChunkReady DEF Statuses
<1>3. CASE Ready([draft EXCEPT !.row.status = "extracted",
                               !.chunk = [from |-> mine.text, index |-> mine.text]])
  <2> DEFINE c == [from |-> mine.text, index |-> mine.text]
  <2>1. c \in Chunks /\ c.from = mine.text
    BY <1>1, HandFacts, RowFields DEF Chunks
  <2>2. Ready([draft EXCEPT !.row.status = "extracted", !.chunk = c])
    BY <1>3
  <2> HIDE DEF c
  <2>3. QED
    BY <1>1, <2>1, <2>2, ChunkReady DEF Statuses
<1>4. CASE step' = "failed" /\ UNCHANGED <<todo, cur, mine, seenHash, donor, draft>>
  <2>1. Workable' /\ Hashed'
    BY <1>1, <1>4, GoingOn
  <2>2. InHand'
    BY <1>1, <1>4 DEF IInv, InHand, Frozen
  <2>3. QED
    BY <1>1, <2>1, <2>2, ReadingStep
<1>5. QED
  BY <1>2, <1>3, <1>4 DEF Cut

LEMMA ReloadStep ==
  ASSUME IInv, TypeOK', Holding', Reload
  PROVE  IInv'
<1>1. /\ Frozen /\ UNCHANGED <<quiz, stage, crossed, todo, cur>>
      /\ stage = "chunk" /\ step = "reload" /\ step' = "alone" /\ mine' = row[cur]
      /\ draft' = [Nothing EXCEPT !.row = row[cur]]
  BY DEF Reload, source, tables, syncVars, history, Frozen
<1>2. /\ cur \in Rows /\ cur \in Listed /\ row[cur].status # "absent" /\ row[cur].hash \in Nat
      /\ cur # NoRow
  BY <1>1, HandFacts, RowFields
<1>3. draft'.row = row[cur]
  BY <1>1 DEF Nothing
<1>4. Listed' = Listed
  BY <1>1 DEF Listed
<1>5. Workable'
  BY <1>1, <1>2, <1>4 DEF IInv, Workable, Frozen
<1>6. Hashed'
  BY <1>1, <1>2, <1>4, TablesStay DEF IInv, Hashed, Frozen
<1>7. InHand'
  BY <1>1, <1>2, <1>3 DEF InHand, Frozen
<1>8. QED
  BY <1>1, <1>5, <1>6, <1>7, ReadingStep

LEMMA ReloadFailedStep ==
  ASSUME IInv, TypeOK', Holding', ReloadFailed
  PROVE  IInv'
<1>1. /\ Frozen /\ UNCHANGED <<quiz, stage, crossed>> /\ stage = "chunk" /\ step = "failed"
  BY DEF ReloadFailed, source, tables, syncVars, history, Frozen
<1>2. CASE Release(todo)
  BY <1>1, <1>2, LettingGo
<1>3. CASE ~Release(todo)
  <2>1. UNCHANGED <<todo, cur, draft>> /\ step' = "defer" /\ mine' = row[cur]
    BY <1>3 DEF ReloadFailed
  <2>2. cur \in Rows /\ cur \in Listed /\ row[cur].hash \in Nat /\ cur # NoRow
    BY <1>1, HandFacts, RowFields
  <2>3. Listed' = Listed
    BY <2>1 DEF Listed
  <2>4. Workable'
    BY <1>1, <2>1, <2>2, <2>3 DEF IInv, Workable, Frozen
  <2>5. Hashed'
    BY <1>1, <2>1, <2>2, <2>3, TablesStay DEF IInv, Hashed, Frozen
  <2>6. InHand'
    BY <1>1, <2>1, <2>2 DEF InHand, Frozen
  <2>7. QED
    BY <1>1, <2>4, <2>5, <2>6, ReadingStep
<1>4. QED
  BY <1>2, <1>3

LEMMA AskStep ==
  ASSUME IInv, TypeOK', Holding', Ask
  PROVE  IInv'
<1>1. /\ Frozen /\ UNCHANGED <<quiz, stage, crossed>>
      /\ stage = "quiz" /\ step \in {"work", "copy", "alone"}
  BY DEF Ask, source, tables, syncVars, history, Frozen
<1>2. CASE Release(todo)
  BY <1>1, <1>2, LettingGo
<1>3. CASE ~Release(todo)
  <2>1. PICK q : Ready([draft EXCEPT !.quiz = q])
    BY <1>3 DEF Ask
  <2>2. draft \in Drafts
    BY <1>1, HandFacts
  <2>3. step' = "commit" /\ draft'.row = draft.row /\ UNCHANGED <<todo, cur, mine>>
    BY <2>1, <2>2 DEF Ready, Drafts
  <2>4. Workable' /\ Hashed'
    BY <1>1, <2>3, GoingOn
  <2>5. InHand'
    BY <1>1, <2>3 DEF IInv, InHand, Frozen
  <2>6. QED
    BY <1>1, <2>4, <2>5, ReadingStep
<1>4. QED
  BY <1>2, <1>3

LEMMA StopStep ==
  ASSUME IInv, TypeOK', Holding', QuotaExhausted \/ CrashRun
  PROVE  IInv'
<1>1. Frozen /\ UNCHANGED quiz /\ Release({})
  BY DEF QuotaExhausted, CrashRun, source, tables, syncVars, history, Frozen
<1>2. QED
  BY <1>1, LettingGo

LEMMA TellStep ==
  ASSUME IInv, TypeOK', Holding', NEW r \in Rows, Tell(r)
  PROVE  IInv'
<1>1. Frozen /\ UNCHANGED <<quiz, stage, todo, cur, step, mine, draft, donor, crossed>>
  BY DEF Tell, source, syncVars, hand, history, Frozen
<1>2. Workable' /\ InHand'
  BY <1>1 DEF IInv, Workable, InHand, Listed, Frozen
<1>3. Hashed'
  BY <1>1 DEF IInv, Hashed, Frozen
<1>4. QED
  BY <1>1, <1>2, <1>3, ReadingStep

-----------------------------------------------------------------------------
(* The run, where it writes *)

\* What a writing step of the run leaves alone.
Aside == UNCHANGED <<kind, of, content, at, seen, got, stage, overtaken, crossed>>

\* The row in hand becomes w, with the hash it has.
LEMMA RowWritten ==
  ASSUME IInv, step # "next", NEW w \in Row, row' = [row EXCEPT ![cur] = w], Aside,
         w.hash = row[cur].hash, w.status # "absent",
         kind = "page" /\ cur \notin crossed => w.text.of = w.hash
  PROVE  /\ row'[cur] = w /\ \A r \in Rows \ {cur} : row'[r] = row[r]
         /\ \A s \in Syncs : Synced(s)'
         /\ kind' = "file" => \A r \in Rows : row'[r].hash <= content'
         /\ kind' = "page" => \A r \in Rows \ crossed' : row'[r].text.of = row'[r].hash
<1>1. /\ cur \in Rows /\ row[cur].status # "absent" /\ row'[cur] = w
      /\ \A r \in Rows \ {cur} : row'[r] = row[r]
  BY HandFacts DEF IInv, TypeOK
<1>2. \A r \in Rows : row'[r].hash = row[r].hash
                      /\ (row[r].status # "absent" => row'[r].status # "absent")
  BY <1>1
<1>3. \A s \in Syncs : Synced(s)'
  <2> TAKE s \in Syncs
  <2>1. of[s] \in Rows /\ Synced(s)
    BY DEF IInv, TypeOK
  <2>2. QED
    BY <1>2, <2>1 DEF Synced, Aside
<1>4. QED
  BY <1>1, <1>2, <1>3 DEF IInv, Hashed, Aside

\* The same, and the run is done with the row, which is a crossed one, has no
\* chunk, or the status and the text that it had.
LEMMA WriteAndRelease ==
  ASSUME IInv, TypeOK', Holding', step # "next", Aside,
         NEW w \in Row, row' = [row EXCEPT ![cur] = w], UNCHANGED <<chunk, quiz>>,
         w.hash = row[cur].hash, w.status # "absent",
         kind = "page" /\ cur \notin crossed => w.text.of = w.hash, Release(todo),
         \/ cur \in crossed \/ chunk[cur] = NoChunk
         \/ w.status = row[cur].status /\ w.text = row[cur].text
  PROVE  IInv'
<1>1. /\ row'[cur] = w /\ \A r \in Rows \ {cur} : row'[r] = row[r]
      /\ \A s \in Syncs : Synced(s)'
      /\ kind' = "file" => \A r \in Rows : row'[r].hash <= content'
      /\ kind' = "page" => \A r \in Rows \ crossed' : row'[r].text.of = row'[r].hash
  BY RowWritten
<1>2. ChunkedLast' /\ ChunksOfText'
  BY <1>1 DEF IInv, ChunkedLast, ChunksOfText, Aside
<1>3. Workable' /\ InHand' /\ cur' = NoRow
  BY <1>1, ReleaseKeeps DEF Aside
<1>4. Hashed'
  BY <1>1, <1>3 DEF Hashed
<1>5. QED
  BY <1>1, <1>2, <1>3, <1>4 DEF IInv

LEMMA CommitTextStep ==
  ASSUME IInv, TypeOK', Holding', CommitText
  PROVE  IInv'
<1>1. /\ Aside /\ UNCHANGED <<chunk, quiz>> /\ Release(todo)
      /\ stage = "extract" /\ step = "commit"
  BY DEF CommitText, source, syncVars, history, Aside
<1>2. CASE ~Current
  BY <1>1, <1>2, LettingGo DEF CommitText, Aside, Frozen
<1>3. CASE Current
  <2> DEFINE w == Flush(mine, draft.row, row[cur])
  <2>1. row' = [row EXCEPT ![cur] = w] /\ row[cur].hash = mine.hash
    BY <1>3 DEF CommitText, Current
  <2>2. /\ draft.row \in Row /\ mine \in Row /\ row[cur] \in Row /\ cur \in Rows
        /\ cur \in Listed /\ row[cur].status # "absent"
    BY <1>1, HandFacts, DraftFields
  <2>3. /\ w \in Row
        /\ w.status = IF draft.row.status = mine.status THEN row[cur].status ELSE draft.row.status
        /\ w.hash = IF draft.row.hash = mine.hash THEN row[cur].hash ELSE draft.row.hash
        /\ w.text = IF draft.row.text = mine.text THEN row[cur].text ELSE draft.row.text
    BY <2>2, FlushFacts
  <2> HIDE DEF w
  <2>4. draft.row.hash = mine.hash /\ draft.row.status # "absent"
        /\ (kind = "page" /\ cur \notin crossed => draft.row.text.of = mine.hash)
    BY <1>1 DEF IInv, InHand
  <2>5. kind = "page" /\ cur \notin crossed => row[cur].text.of = row[cur].hash
    BY <2>2 DEF IInv, Hashed
  <2>6. cur \in crossed \/ chunk[cur] = NoChunk
    BY <1>1, <2>2 DEF IInv, Workable
  <2>7. /\ w.hash = row[cur].hash /\ w.status # "absent"
        /\ kind = "page" /\ cur \notin crossed => w.text.of = w.hash
    BY <2>1, <2>2, <2>3, <2>4, <2>5
  <2>8. QED
    BY <1>1, <2>1, <2>3, <2>6, <2>7, WriteAndRelease
<1>4. QED
  BY <1>2, <1>3

LEMMA SettleStep ==
  ASSUME IInv, TypeOK', Holding', Settle
  PROVE  IInv'
<1> DEFINE w == [row[cur] EXCEPT !.attempts = 0, !.backoff = FALSE]
<1>1. /\ Aside /\ UNCHANGED <<chunk, quiz>> /\ Release(todo)
      /\ step = "settle" /\ row' = [row EXCEPT ![cur] = w]
  BY DEF Settle, source, syncVars, history, Aside
<1>2. row[cur] \in Row /\ cur \in Rows /\ row[cur].status # "absent"
  BY <1>1, HandFacts
<1>3. w \in Row
  BY <1>2, RowEdits
<1>4. w.hash = row[cur].hash /\ w.status = row[cur].status /\ w.text = row[cur].text
  BY <1>2 DEF Row
<1>5. kind = "page" /\ cur \notin crossed => row[cur].text.of = row[cur].hash
  BY <1>2 DEF IInv, Hashed
<1> HIDE DEF w
<1>6. QED
  BY <1>1, <1>2, <1>3, <1>4, <1>5, WriteAndRelease

LEMMA DeferStep ==
  ASSUME IInv, TypeOK', Holding', Defer
  PROVE  IInv'
<1> DEFINE n == mine.attempts + 1
           st == IF n >= MaxTries THEN "failed" ELSE mine.status
           late == [mine EXCEPT !.attempts = n, !.backoff = TRUE, !.status = st]
           w == Flush(mine, late, row[cur])
<1>1. /\ Aside /\ UNCHANGED <<chunk, quiz>> /\ Release(todo)
      /\ stage = "chunk" /\ step = "defer" /\ row' = [row EXCEPT ![cur] = w]
  BY DEF Defer, source, syncVars, history, Aside
<1>2. /\ row[cur] \in Row /\ mine \in Row /\ cur \in Rows /\ row[cur].status # "absent"
      /\ cur # NoRow
  BY <1>1, HandFacts
<1>3. st \in {"failed", mine.status} /\ st \in Statuses /\ n \in Nat
  BY <1>2, RowFields DEF Statuses
<1>4. late \in Row /\ late.hash = mine.hash /\ late.text = mine.text /\ late.status = st
  <2>1. late \in Row
    BY <1>2, <1>3, RowEdits
  <2>2. QED
    BY <1>2, <2>1 DEF Row
<1> HIDE DEF late, st, n
<1>5. /\ w \in Row /\ w.status \in {row[cur].status, "failed"}
      /\ w.hash = row[cur].hash /\ w.text = row[cur].text
  BY <1>2, <1>3, <1>4, FlushFacts
<1>6. kind = "page" /\ cur \notin crossed => row[cur].text.of = row[cur].hash
  BY <1>2 DEF IInv, Hashed
<1>7. cur \in crossed \/ chunk[cur] = NoChunk
  BY <1>1, <1>2 DEF IInv, Workable
<1> HIDE DEF w
<1>8. QED
  BY <1>1, <1>2, <1>5, <1>6, <1>7, WriteAndRelease

LEMMA CommitQuizStep ==
  ASSUME IInv, TypeOK', Holding', CommitQuiz
  PROVE  IInv'
<1>1. /\ Frozen /\ UNCHANGED <<stage, crossed>> /\ Release(todo)
      /\ \A r \in Rows \ {cur} : quiz'[r] = quiz[r]
  BY DEF CommitQuiz, source, syncVars, history, IInv, TypeOK, Frozen
<1>2. Workable' /\ InHand' /\ cur' = NoRow
  BY <1>1, ReleaseKeeps DEF Frozen
<1>3. Hashed'
  BY <1>1, <1>2, TablesStay DEF Hashed
<1>4. QED
  BY <1>1, <1>2, <1>3, ReadingStep

LEMMA CommitChunkStep ==
  ASSUME IInv, TypeOK', Holding', CommitChunk
  PROVE  IInv'
<1>1. Aside /\ stage = "chunk" /\ step = "commit"
  BY DEF CommitChunk, source, syncVars, history, Aside
<1>2. CASE ~Current
  BY <1>1, <1>2, LettingGo DEF CommitChunk, tables, Aside, Frozen
<1>3. CASE Current
  <2> DEFINE w == Flush(mine, draft.row, row[cur])
  <2>1. /\ row' = [row EXCEPT ![cur] = w] /\ row[cur].hash = mine.hash
        /\ chunk' = [chunk EXCEPT ![cur] = draft.chunk]
        /\ quiz' = [quiz EXCEPT ![cur] = "none"]
        /\ step' = (IF CopiedNone THEN "reload" ELSE "settle")
        /\ UNCHANGED <<todo, cur, mine, draft>>
    BY <1>3 DEF CommitChunk, Current
  <2>2. /\ draft.row \in Row /\ mine \in Row /\ row[cur] \in Row /\ cur \in Rows
        /\ cur \in Listed /\ row[cur].status # "absent" /\ cur # NoRow
    BY <1>1, HandFacts, DraftFields
  <2>3. /\ w \in Row
        /\ w.status = IF draft.row.status = mine.status THEN row[cur].status ELSE draft.row.status
        /\ w.hash = IF draft.row.hash = mine.hash THEN row[cur].hash ELSE draft.row.hash
        /\ w.text = IF draft.row.text = mine.text THEN row[cur].text ELSE draft.row.text
    BY <2>2, FlushFacts
  <2> HIDE DEF w
  <2>4. /\ draft.row.hash = mine.hash /\ draft.row.status # "absent"
        /\ draft.row.text = mine.text
        /\ cur \notin crossed =>
             /\ draft.chunk # NoChunk =>
                  draft.chunk.from.of = mine.text.of /\ draft.row.status = "extracted"
             /\ row[cur].text.of = mine.text.of
             /\ mine.status = "extracted" => row[cur].status = "extracted"
    BY <1>1, <2>1, <2>2 DEF IInv, InHand
  <2>5. /\ w.hash = row[cur].hash /\ w.status # "absent" /\ w.text = row[cur].text
        /\ draft.chunk # NoChunk /\ cur \notin crossed => w.status = "extracted"
    BY <2>2, <2>3, <2>4
  <2>6. kind = "page" /\ cur \notin crossed => w.text.of = w.hash
    BY <2>2, <2>5 DEF IInv, Hashed
  <2>7. /\ row'[cur] = w /\ \A r \in Rows \ {cur} : row'[r] = row[r]
        /\ \A s \in Syncs : Synced(s)'
        /\ kind' = "file" => \A r \in Rows : row'[r].hash <= content'
        /\ kind' = "page" => \A r \in Rows \ crossed' : row'[r].text.of = row'[r].hash
    BY <1>1, <2>1, <2>3, <2>5, <2>6, RowWritten
  <2>8. /\ chunk'[cur] = draft.chunk /\ \A r \in Rows \ {cur} : chunk'[r] = chunk[r]
        /\ \A r \in Rows \ {cur} : quiz'[r] = quiz[r] /\ quiz'[cur] = "none"
    BY <2>1, <2>2 DEF IInv, TypeOK
  <2>9. ChunkedLast'
    BY <1>1, <2>5, <2>7, <2>8 DEF IInv, ChunkedLast, Aside
  <2>10. ChunksOfText'
    BY <1>1, <2>4, <2>5, <2>7, <2>8 DEF IInv, ChunksOfText, Aside
  <2>11. Listed' = Listed
    BY <2>1 DEF Listed
  <2>12. step' \in {"reload", "settle"} /\ (step' = "reload" => draft.chunk = NoChunk)
    BY <2>1 DEF CopiedNone
  <2>13. Workable'
    <3>1. \A r \in Listed : row'[r].status # "absent"
      BY <2>2, <2>5, <2>7 DEF IInv, Workable, TypeOK, Listed
    <3>2. QED
      BY <1>1, <2>1, <2>8, <2>11, <2>12, <3>1 DEF IInv, Workable, Aside
  <2>14. Hashed'
    BY <1>1, <2>1, <2>2, <2>5, <2>7 DEF IInv, Hashed, Aside
  <2>15. InHand'
    BY <1>1, <2>1, <2>12 DEF InHand, Aside
  <2>16. QED
    BY <2>7, <2>9, <2>10, <2>13, <2>14, <2>15 DEF IInv
<1>4. QED
  BY <1>2, <1>3

-----------------------------------------------------------------------------
(* The syncs *)

\* A sync that is over remembers nothing; one at work on a row that changed has
\* been overtaken.
LEMMA EndedSync ==
  ASSUME IInv, TypeOK', NEW s \in Syncs, UNCHANGED <<kind, of, content>>,
         (EndSync(s) /\ UNCHANGED <<row, crossed>>) \/ EndWrite(s),
         row'[of[s]].status # "absent" \/ row' = row,
         \A r \in Rows \ {of[s]} : row'[r] = row[r]
  PROVE  \A t \in Syncs : Synced(t)'
<1> TAKE t \in Syncs
<1>1. at'[s] = "idle" /\ seen'[s] = Absent /\ got'[s] = NoText /\ crossed \subseteq crossed'
  BY DEF EndSync, EndWrite, IInv, TypeOK
<1>2. CASE t = s
  BY <1>1, <1>2, DataFacts DEF Synced
<1>3. CASE t # s
  <2>1. at'[t] = at[t] /\ seen'[t] = seen[t] /\ got'[t] = got[t]
    BY <1>3 DEF EndSync, EndWrite, IInv, TypeOK
  <2>2. of[t] \in Rows /\ of[s] \in Rows /\ Synced(t)
    BY DEF IInv, TypeOK
  <2>3. /\ t \in overtaken => t \in overtaken'
        /\ at[t] # "idle" /\ of[t] = of[s] => t \in overtaken' \/ row' = row
    BY <1>3 DEF EndSync, EndWrite
  <2>4. CASE row'[of[t]] = row[of[t]]
    BY <1>1, <2>1, <2>2, <2>3, <2>4 DEF Synced
  <2>5. CASE of[t] = of[s] /\ at[t] # "idle" /\ t \in overtaken' /\ row'[of[s]].status # "absent"
    BY <1>1, <2>1, <2>2, <2>5 DEF Synced
  <2>6. CASE of[t] = of[s] /\ at[t] = "idle"
    BY <1>1, <2>1, <2>2, <2>6 DEF Synced
  <2>7. QED
    BY <2>2, <2>3, <2>4, <2>5, <2>6
<1>4. QED
  BY <1>2, <1>3

\* A sync that writes nothing but what it remembers itself.
LEMMA SyncReads ==
  ASSUME IInv, TypeOK', UNCHANGED <<kind, of, content, row, chunk, quiz, crossed>>,
         UNCHANGED runVars, \A s \in Syncs : Synced(s)'
  PROVE  IInv'
<1>1. UNCHANGED <<stage, todo, cur, step, mine, donor, draft, made, Listed>>
  BY DEF runVars, hand, Listed
<1>2. ChunkedLast' /\ ChunksOfText' /\ Hashed' /\ Holding'
  BY <1>1 DEF IInv, ChunkedLast, ChunksOfText, Hashed, Holding
<1>3. Workable' /\ InHand'
  BY <1>1 DEF IInv, Workable, InHand
<1>4. QED
  BY <1>2, <1>3 DEF IInv

LEMMA SyncReadStep ==
  ASSUME IInv, TypeOK', NEW s \in Syncs,
         SyncLoad(s) \/ SyncFetch(s) \/ SyncReload(s) \/ SyncSkip(s) \/ SyncCrash(s)
  PROVE  IInv'
<1>1. UNCHANGED <<kind, of, content, row, chunk, quiz, crossed>> /\ UNCHANGED runVars
  BY DEF SyncLoad, SyncFetch, SyncReload, SyncSkip, SyncCrash, source, tables, history
<1>2. /\ of[s] \in Rows /\ row[of[s]] \in Row /\ row[of[s]].hash \in Nat
      /\ content \in Nat \ {0} /\ Synced(s) /\ kind \in {"file", "page"}
      /\ at[s] \in {"idle", "loaded", "fetched"} /\ seen[s] \in Row /\ got[s] \in Texts
  BY RowFields DEF IInv, TypeOK
<1>3. /\ kind = "file" => row[of[s]].hash <= content
      /\ kind = "page" /\ of[s] \notin crossed => row[of[s]].text.of = row[of[s]].hash
  BY <1>2 DEF IInv, Hashed
<1>4. ASSUME \A t \in Syncs \ {s} : at'[t] = at[t] /\ seen'[t] = seen[t] /\ got'[t] = got[t],
             UNCHANGED overtaken, Synced(s)'
      PROVE  \A t \in Syncs : Synced(t)'
  <2> TAKE t \in Syncs
  <2>1. CASE t # s
    BY <1>1, <1>4, <2>1 DEF IInv, Synced
  <2>2. QED
    BY <1>4, <2>1
<1>5. CASE SyncLoad(s) \/ SyncReload(s)
  <2>1. /\ seen'[s] = row[of[s]] /\ got' = got /\ UNCHANGED overtaken
        /\ at'[s] = "loaded" \/ (at'[s] = "fetched" /\ at[s] = "fetched")
        /\ \A t \in Syncs \ {s} : at'[t] = at[t] /\ seen'[t] = seen[t]
    BY <1>5 DEF SyncLoad, SyncReload, IInv, TypeOK, history
  <2>2. Synced(s)'
    BY <1>1, <1>2, <1>3, <2>1 DEF Synced
  <2>3. QED
    BY <1>1, <1>4, <2>1, <2>2, SyncReads
<1>6. CASE SyncFetch(s)
  <2>1. /\ seen' = seen /\ at[s] = "loaded" /\ at'[s] = "fetched" /\ UNCHANGED overtaken
        /\ \A t \in Syncs \ {s} : at'[t] = at[t] /\ got'[t] = got[t]
        /\ \/ got'[s].of = content
           \/ got'[s] = got[s] /\ kind = "page"
    BY <1>6 DEF SyncFetch, IInv, TypeOK, history
  <2>2. Synced(s)'
    BY <1>1, <1>2, <1>3, <2>1 DEF Synced
  <2>3. QED
    BY <1>1, <1>4, <2>1, <2>2, SyncReads
<1>7. CASE SyncSkip(s) \/ SyncCrash(s)
  <2>1. EndSync(s)
    BY <1>7 DEF SyncSkip, SyncCrash
  <2>2. QED
    BY <1>1, <2>1, EndedSync, SyncReads
<1>8. QED
  BY <1>5, <1>6, <1>7

\* What a sync may write to its row and to the chunk of it, at any moment of a run;
\* most of it does not matter of a row that is crossed.
LEMMA SyncWrites ==
  ASSUME IInv, TypeOK', NEW s \in Syncs, EndWrite(s),
         UNCHANGED <<kind, of, content>>, UNCHANGED runVars,
         NEW r \in Rows, r = of[s], NEW w \in Row, row' = [row EXCEPT ![r] = w],
         \A q \in Rows \ {r} : chunk'[q] = chunk[q] /\ quiz'[q] = quiz[q],
         w.status # "absent", quiz'[r] \in {quiz[r], "none"},
         kind = "file" => w.hash <= content,
         r \notin crossed' =>
           /\ chunk'[r] # NoChunk => /\ chunk[r] # NoChunk /\ w.status = "extracted"
                                     /\ chunk'[r].from.of = w.text.of
           /\ kind = "file" /\ cur = r => mine.hash <= w.hash
           /\ kind = "page" => w.text.of = w.hash
           /\ cur = r /\ w.hash = mine.hash => w.hash = row[r].hash \/ kind = "page"
           /\ kind = "file" /\ w.hash = row[r].hash /\ cur = r =>
                w.text = row[r].text /\ w.status = row[r].status
           /\ kind = "page" /\ cur = r /\ row[r].status = "extracted" => w.status = "extracted",
         donor = r /\ chunk'[r] # NoChunk => chunk'[r].from = chunk[r].from /\ chunk[r] # NoChunk
  PROVE  IInv'
<1>1. row'[r] = w /\ \A q \in Rows \ {r} : row'[q] = row[q]
  BY DEF IInv, TypeOK
<1>2. UNCHANGED <<stage, todo, cur, step, mine, donor, draft, made, Listed>>
  BY DEF runVars, hand, Listed
<1>3. \A t \in Syncs : Synced(t)'
  BY <1>1, EndedSync
<1>4. crossed \subseteq crossed'
  BY DEF EndWrite
<1>5. ChunkedLast'
  BY <1>1, <1>4 DEF IInv, ChunkedLast
<1>6. ChunksOfText'
  BY <1>1, <1>4 DEF IInv, ChunksOfText
<1>7. Hashed'
  BY <1>1, <1>2, <1>4 DEF IInv, Hashed
<1>8. cur \in Rows \union {NoRow} /\ Listed \subseteq Rows /\ kind \in {"file", "page"}
  BY DEF IInv, TypeOK, Listed
<1>9. Workable'
  BY <1>1, <1>2, <1>4, <1>8 DEF IInv, Workable
<1>10. InHand'
  <2>1. stage = "chunk" /\ step = "copy" /\ donor \notin crossed' /\ chunk'[donor] # NoChunk =>
          chunk'[donor].from.of = mine.text.of
    BY <1>4 DEF IInv, InHand, Holding
  <2>2. CASE cur # r \/ cur \in crossed'
    BY <1>1, <1>2, <1>4, <1>8, <2>1, <2>2 DEF IInv, InHand
  <2>3. CASE cur = r /\ cur \notin crossed'
    <3>1. kind = "page" => mine.text.of = mine.hash /\ w.text.of = w.hash
      BY <2>3, <1>4, <1>8, RowsAssumption DEF IInv, Hashed
    <3>2. \/ kind = "page"
          \/ kind = "file" /\ (w.hash = mine.hash =>
                w.hash = row[r].hash /\ w.text = row[r].text /\ w.status = row[r].status)
      BY <2>3, <1>8
    <3>3. row'[cur] = w /\ row[cur] = row[r]
      BY <1>1, <2>3
    <3>4. QED
      BY <1>2, <1>4, <2>1, <2>3, <3>1, <3>2, <3>3 DEF IInv, InHand
  <2>4. QED
    BY <2>2, <2>3
<1>11. Holding'
  BY <1>2 DEF IInv, Holding
<1>12. QED
  BY <1>3, <1>5, <1>6, <1>7, <1>9, <1>10, <1>11 DEF IInv

\* What a sync that is about to write knows; of a row that the write does not cross,
\* nobody else wrote it.
LEMMA FetchedFacts ==
  ASSUME IInv, NEW s \in Syncs, at[s] = "fetched", EndWrite(s)
  PROVE  /\ of[s] \in Rows /\ row[of[s]] \in Row /\ seen[s] \in Row /\ got[s] \in Texts
         /\ chunk[of[s]] \in Chunks /\ row[of[s]].hash \in Nat /\ mine.hash \in Nat
         /\ got[s].of \in Nat /\ content \in Nat /\ kind \in {"file", "page"}
         /\ seen[s].status # "absent" => row[of[s]].status # "absent"
         /\ got[s].of = 0 => got[s] = NoText
         /\ kind = "file" => got[s].of <= content
         /\ crossed \subseteq crossed'
         /\ of[s] \notin crossed' =>
              /\ seen[s].hash = row[of[s]].hash
              /\ kind = "file" => got[s].of >= row[of[s]].hash
              /\ kind = "page" => /\ seen[s].text.of = seen[s].hash
                                  /\ row[of[s]].text.of = row[of[s]].hash
              /\ kind = "file" /\ cur = of[s] => mine.hash <= row[of[s]].hash
<1>1. of[s] \in Rows /\ of[s] # NoRow
  BY RowsAssumption DEF IInv, TypeOK
<1>2. /\ row[of[s]] \in Row /\ seen[s] \in Row /\ got[s] \in Texts /\ mine \in Row
      /\ chunk[of[s]] \in Chunks /\ content \in Nat /\ kind \in {"file", "page"}
  BY <1>1 DEF IInv, TypeOK
<1>3. row[of[s]].hash \in Nat /\ mine.hash \in Nat /\ got[s].of \in Nat
  BY <1>2, RowFields DEF Texts
<1>4. Synced(s) /\ Hashed
  BY DEF IInv
<1>5. crossed \subseteq crossed' /\ (of[s] \notin crossed' => s \notin overtaken)
  BY DEF EndWrite
<1>6. QED
  BY <1>1, <1>2, <1>3, <1>4, <1>5 DEF Synced, Hashed

LEMMA SyncInsertStep ==
  ASSUME IInv, TypeOK', NEW s \in Syncs, SyncInsert(s)
  PROVE  IInv'
<1> DEFINE r == of[s]
           w == FreshRow(got[s])
<1>1. /\ UNCHANGED <<kind, of, content, chunk, quiz>> /\ UNCHANGED runVars
      /\ at[s] = "fetched"
  BY DEF SyncInsert, source
<1>2. CASE row[r].status # "absent"
  <2>1. EndSync(s) /\ UNCHANGED <<row, crossed>>
    BY <1>2 DEF SyncInsert
  <2>2. QED
    BY <1>1, <2>1, EndedSync, SyncReads
<1>3. CASE row[r].status = "absent"
  <2>1. row' = [row EXCEPT ![r] = w] /\ EndWrite(s)
    BY <1>3 DEF SyncInsert
  <2>2. /\ r \in Rows /\ got[s] \in Texts
        /\ got[s].of = 0 => got[s] = NoText
        /\ kind = "file" => got[s].of <= content
    BY <1>1, <2>1, FetchedFacts
  <2>3. w \in Row /\ w.status # "absent" /\ w.hash = got[s].of /\ w.text = SyncText(got[s])
    BY <2>2, FreshFacts
  <2>4. cur # r /\ chunk[r] = NoChunk
    BY <1>3, <2>2, RowsAssumption DEF IInv, Workable, Listed, ChunkedLast
  <2>5. kind = "page" => w.text.of = w.hash
    BY <2>3 DEF SyncText
  <2> HIDE DEF w
  <2>6. QED
    BY <1>1, <2>1, <2>2, <2>3, <2>4, <2>5, SyncWrites
<1>4. QED
  BY <1>2, <1>3

LEMMA SyncResetStep ==
  ASSUME IInv, TypeOK', NEW s \in Syncs, SyncReset(s)
  PROVE  IInv'
<1> DEFINE r == of[s]
           new == FreshRow(got[s])
           w == Flush(seen[s], new, row[r])
<1>1. /\ EndWrite(s) /\ UNCHANGED <<kind, of, content>> /\ UNCHANGED runVars
      /\ at[s] = "fetched"
      /\ seen[s].status # "absent" /\ got[s].of # 0 /\ seen[s].hash # got[s].of
      /\ row' = [row EXCEPT ![r] = w]
      /\ chunk' = [chunk EXCEPT ![r] = NoChunk] /\ quiz' = [quiz EXCEPT ![r] = "none"]
  BY DEF SyncReset, HashChanged, source
<1>2. /\ r \in Rows /\ row[r] \in Row /\ seen[s] \in Row /\ got[s] \in Texts
      /\ row[r].hash \in Nat /\ mine.hash \in Nat /\ got[s].of \in Nat /\ content \in Nat
      /\ row[r].status # "absent" /\ kind \in {"file", "page"}
      /\ kind = "file" => got[s].of <= content
      /\ r \notin crossed' =>
           /\ seen[s].hash = row[r].hash
           /\ kind = "file" => got[s].of >= row[r].hash
           /\ kind = "page" => seen[s].text.of = seen[s].hash
           /\ kind = "file" /\ cur = r => mine.hash <= row[r].hash
  BY <1>1, FetchedFacts
<1>3. /\ chunk'[r] = NoChunk /\ quiz'[r] = "none"
      /\ \A q \in Rows \ {r} : chunk'[q] = chunk[q] /\ quiz'[q] = quiz[q]
  BY <1>1, <1>2 DEF IInv, TypeOK
<1>4. /\ new \in Row /\ new.status # "absent" /\ new.hash = got[s].of
      /\ kind = "page" => new.text = got[s] /\ new.status = "extracted"
  <2>1. kind = "page" => SyncText(got[s]) = got[s] /\ SyncText(got[s]) # NoText
    BY <1>1, DataFacts DEF SyncText
  <2>2. QED
    BY <1>2, <2>1, FreshFacts
<1> HIDE DEF new
<1>5. /\ w \in Row
      /\ w.status = IF new.status = seen[s].status THEN row[r].status ELSE new.status
      /\ w.hash = IF new.hash = seen[s].hash THEN row[r].hash ELSE new.hash
      /\ w.text = IF new.text = seen[s].text THEN row[r].text ELSE new.text
  BY <1>2, <1>4, FlushFacts
<1> HIDE DEF w
<1>6. /\ w.hash = got[s].of /\ w.status # "absent"
      /\ r \notin crossed' => w.hash # row[r].hash
  BY <1>1, <1>2, <1>4, <1>5
<1>7. kind = "page" /\ r \notin crossed' => w.text = got[s] /\ w.text.of = w.hash
  BY <1>1, <1>2, <1>4, <1>5, <1>6
<1>8. kind = "page" /\ row[r].status = "extracted" => w.status = "extracted"
  BY <1>4, <1>5
<1>9. kind = "file" => /\ w.hash <= content
                       /\ cur = r /\ r \notin crossed' =>
                            mine.hash <= w.hash /\ w.hash # mine.hash
  BY <1>2, <1>6
<1>10. cur = r /\ w.hash = mine.hash /\ r \notin crossed' => kind = "page"
  BY <1>2, <1>9
<1>11. QED
  BY <1>1, <1>2, <1>3, <1>5, <1>6, <1>7, <1>8, <1>9, <1>10, SyncWrites

LEMMA RefreshFacts ==
  ASSUME IInv, NEW s \in Syncs, SyncRefresh(s)
  PROVE  /\ kind = "page" /\ (of[s] \notin crossed' => got[s].of = row[of[s]].hash)
         /\ chunk'[of[s]] # NoChunk => chunk[of[s]] # NoChunk
         /\ chunk'[of[s]].from = chunk[of[s]].from
         /\ \A q \in Rows \ {of[s]} : chunk'[q] = chunk[q]
<1>1. /\ at[s] = "fetched" /\ SyncText(got[s]) # NoText /\ EndWrite(s)
      /\ got[s].of = 0 \/ seen[s].hash = got[s].of
  BY DEF SyncRefresh, HashChanged, TextChanged
<1>2. kind = "page" /\ got[s] # NoText
  BY <1>1 DEF SyncText
<1>3. /\ of[s] \notin crossed' => got[s].of = row[of[s]].hash
      /\ chunk[of[s]] \in Chunks /\ of[s] \in Rows
  BY <1>1, <1>2, FetchedFacts
<1>4. PICK place \in {got[s], NoText} :
        chunk' = [chunk EXCEPT ![of[s]].index = IF chunk[of[s]] = NoChunk THEN NoText ELSE place]
  BY DEF SyncRefresh
<1>5. chunk'[of[s]] = [chunk[of[s]] EXCEPT !.index =
                         IF chunk[of[s]] = NoChunk THEN NoText ELSE place]
  BY <1>3, <1>4 DEF IInv, TypeOK
<1>6. chunk'[of[s]].from = chunk[of[s]].from
  BY <1>3, <1>5 DEF Chunks
<1>7. chunk[of[s]] = NoChunk => chunk'[of[s]] = NoChunk
  BY <1>5 DEF NoChunk
<1>8. \A q \in Rows \ {of[s]} : chunk'[q] = chunk[q]
  BY <1>4 DEF IInv, TypeOK
<1>9. QED
  BY <1>2, <1>3, <1>6, <1>7, <1>8

LEMMA SyncRefreshStep ==
  ASSUME IInv, TypeOK', NEW s \in Syncs, SyncRefresh(s)
  PROVE  IInv'
<1> DEFINE r == of[s]
           w == [row[r] EXCEPT !.text = got[s]]
<1>1. /\ EndWrite(s) /\ UNCHANGED <<kind, of, content, quiz>> /\ UNCHANGED runVars
      /\ at[s] = "fetched"
      /\ seen[s].status # "absent" /\ row' = [row EXCEPT ![r] = w]
  BY DEF SyncRefresh, source
<1>2. /\ r \in Rows /\ row[r] \in Row /\ got[s] \in Texts /\ row[r].status # "absent"
      /\ kind = "page" /\ r \notin crossed' => row[r].text.of = row[r].hash
      /\ crossed \subseteq crossed'
  BY <1>1, FetchedFacts
<1>3. /\ kind = "page" /\ (r \notin crossed' => got[s].of = row[r].hash)
      /\ chunk'[r] # NoChunk => chunk[r] # NoChunk
      /\ chunk'[r].from = chunk[r].from
      /\ \A q \in Rows \ {r} : chunk'[q] = chunk[q]
  BY RefreshFacts
<1>4. /\ w \in Row /\ w.status = row[r].status /\ w.hash = row[r].hash /\ w.text = got[s]
      /\ r \notin crossed' => w.text.of = row[r].text.of
  BY <1>2, <1>3 DEF Row
<1>5. r \notin crossed' /\ chunk'[r] # NoChunk =>
        w.status = "extracted" /\ chunk'[r].from.of = w.text.of
  BY <1>2, <1>3, <1>4 DEF IInv, ChunkedLast, ChunksOfText
<1> HIDE DEF w
<1>6. QED
  BY <1>1, <1>2, <1>3, <1>4, <1>5, SyncWrites

-----------------------------------------------------------------------------
(* The other steps, and the theorems *)

LEMMA SourceStep ==
  ASSUME IInv, TypeOK', Holding', Edit \/ Deploy
  PROVE  IInv'
<1>1. /\ UNCHANGED <<row, chunk, quiz, at, seen, got, stage, todo, cur, step, mine, draft, donor>>
      /\ UNCHANGED <<kind, of, overtaken, crossed>>
  BY DEF Edit, Deploy, tables, syncVars, runVars, hand, history
<1>2. kind = "file" => content' >= content
  BY DEF Edit, Deploy, IInv, TypeOK
<1>3. content \in Nat /\ content' \in Nat /\ \A r \in Rows : row[r].hash \in Nat
  BY RowFields DEF IInv, TypeOK
<1>4. \A s \in Syncs : Synced(s)'
  <2> TAKE s \in Syncs
  <2>1. Synced(s) /\ got[s].of \in Nat
    BY DEF IInv, TypeOK, Texts
  <2>2. QED
    BY <1>1, <1>2, <1>3, <2>1 DEF Synced
<1>5. Hashed'
  BY <1>1, <1>2, <1>3 DEF IInv, Hashed
<1>6. Workable' /\ InHand'
  BY <1>1 DEF IInv, Workable, InHand, Listed
<1>7. QED
  BY <1>1, <1>4, <1>5, <1>6 DEF IInv, ChunkedLast, ChunksOfText

LEMMA BackoffStep ==
  ASSUME IInv, TypeOK', Holding', NEW r \in Rows, BackoffEnds(r)
  PROVE  IInv'
<1>1. /\ UNCHANGED <<content, chunk, quiz, at, seen, got, stage, todo, cur, step, mine, draft, donor>>
      /\ UNCHANGED <<kind, of, overtaken, crossed>>
  BY DEF BackoffEnds, source, syncVars, runVars, hand, history
<1>2. \A q \in Rows : /\ row'[q].status = row[q].status /\ row'[q].hash = row[q].hash
                      /\ row'[q].text = row[q].text
  BY DEF BackoffEnds, IInv, TypeOK, Row
<1>3. \A s \in Syncs : Synced(s)'
  <2> TAKE s \in Syncs
  <2>1. Synced(s) /\ of[s] \in Rows
    BY DEF IInv, TypeOK
  <2>2. QED
    BY <1>1, <1>2, <2>1 DEF Synced
<1>4. Listed' = Listed /\ Listed \subseteq Rows /\ cur \in Rows \union {NoRow}
  BY <1>1 DEF IInv, TypeOK, Listed
<1>5. Workable' /\ Hashed'
  BY <1>1, <1>2, <1>4 DEF IInv, Workable, Hashed
<1>6. InHand'
  BY <1>1, <1>2, <1>4 DEF IInv, InHand
<1>7. QED
  BY <1>1, <1>2, <1>3, <1>5, <1>6 DEF IInv, ChunkedLast, ChunksOfText

LEMMA IInvStep == IInv /\ [Next]_vars => IInv'
<1> SUFFICES ASSUME IInv, [Next]_vars
             PROVE  IInv'
  OBVIOUS
<1>1. TypeOK' /\ Holding'
  BY TypeStep DEF IInv
<1>2. CASE Edit \/ Deploy
  BY <1>1, <1>2, SourceStep
<1>3. ASSUME NEW s \in Syncs, Sync(s) \/ SyncReload(s) \/ SyncCrash(s)
      PROVE  IInv'
  BY <1>1, <1>3, SyncReadStep, SyncInsertStep, SyncResetStep, SyncRefreshStep DEF Sync
<1>4. CASE Run
  BY <1>1, <1>4, ListingStep, TakeUpStep, TellStep, ExtractStep, CommitTextStep,
     FindDonorStep, CopyChunkStep, CutStep, CommitChunkStep, ReloadStep, SettleStep,
     ReloadFailedStep, DeferStep, AskStep, CommitQuizStep DEF Run
<1>5. CASE ShareFailed \/ QuotaExhausted \/ CrashRun
  BY <1>1, <1>5, ShareFailedStep, StopStep
<1>6. CASE \E r \in Rows : BackoffEnds(r)
  BY <1>1, <1>6, BackoffStep
<1>7. CASE UNCHANGED vars
  <2>1. /\ UNCHANGED <<kind, of, content, row, chunk, quiz, at, seen, got, overtaken, crossed>>
        /\ UNCHANGED runVars
    BY <1>7 DEF vars, runVars, hand
  <2>2. \A s \in Syncs : Synced(s)'
    BY <2>1 DEF IInv, Synced
  <2>3. QED
    BY <1>1, <2>1, <2>2, SyncReads
<1>8. QED
  BY <1>2, <1>3, <1>4, <1>5, <1>6, <1>7 DEF Next

\* Every variable keeps the shape of its columns and locals, however many syncs work
\* on one row: what an UPDATE flushes is a row again, and the pipeline writes only to
\* a row that it has in hand.
THEOREM TypeCorrect == Spec => []TypeOK
<1>1. Init => TypeOK /\ Holding
  BY InitIInv DEF IInv
<1>2. QED
  BY <1>1, TypeStep, PTL DEF Spec

\* The inductive invariant, for any number of syncs of one row.
THEOREM Invariance == Spec => []IInv
BY InitIInv, IInvStep, PTL DEF Spec

\* A chunk is of the content that the text of its row is of, whatever edits, syncs,
\* converters, failures and crashes come in the minutes between the load of a row
\* and the commit on it.  Syncs of one row may overlap as they like: only a row that
\* one of them wrote after another had written it since it was loaded, and the rows
\* that copied from such a row, may be wrong.
THEOREM ChunksAreOfText == Spec => []ChunksOfText
<1>1. IInv => ChunksOfText
  BY DEF IInv
<1>2. QED
  BY <1>1, Invariance, PTL

\* Nothing but a new hash takes a chunk, or the quiz on it, from a row: the run
\* writes chunks and quizzes only to rows without, and a refresh keeps them.
THEOREM ProgressStays == Spec => ProgressKept
<1> DEFINE Kept ==
      \A r \in Rows \ crossed' :
        /\ row'[r].hash = row[r].hash
        /\ chunk[r] # NoChunk
        => /\ chunk'[r].from = chunk[r].from
           /\ quiz[r] # "none" => quiz'[r] = quiz[r]
<1>1. IInv /\ [Next]_vars => [Kept]_vars
  <2> SUFFICES ASSUME IInv, [Next]_vars
               PROVE  Kept
    OBVIOUS
  <2>1. CASE UNCHANGED <<chunk, quiz>>
    BY <2>1
  <2>2. CASE CommitChunk
    <3>1. cur \in Rows /\ cur \in Listed /\ (cur \notin crossed' => chunk[cur] = NoChunk)
      BY <2>2, HandFacts DEF CommitChunk, history, IInv, Workable
    <3>2. \A r \in Rows \ {cur} : chunk'[r] = chunk[r] /\ quiz'[r] = quiz[r]
      BY <2>2 DEF CommitChunk, IInv, TypeOK, tables
    <3>3. QED
      BY <3>1, <3>2
  <2>3. CASE CommitQuiz
    <3>1. cur \in Rows /\ quiz[cur] = "none"
      BY <2>3, HandFacts DEF CommitQuiz, IInv, Workable
    <3>2. chunk' = chunk /\ \A r \in Rows \ {cur} : quiz'[r] = quiz[r]
      BY <2>3 DEF CommitQuiz, IInv, TypeOK
    <3>3. QED
      BY <3>1, <3>2
  <2>4. ASSUME NEW s \in Syncs, SyncReset(s)
        PROVE  Kept
    <3>1. /\ of[s] \in Rows /\ row[of[s]] \in Row /\ seen[s] \in Row /\ got[s] \in Texts
          /\ of[s] \notin crossed' => seen[s].hash = row[of[s]].hash
          /\ seen[s].hash # got[s].of
      BY <2>4, FetchedFacts DEF SyncReset, HashChanged
    <3>2. Flush(seen[s], FreshRow(got[s]), row[of[s]]).hash = got[s].of
      BY <3>1, FreshFacts, FlushFacts
    <3>3. row'[of[s]].hash = got[s].of
      BY <2>4, <3>1, <3>2 DEF SyncReset, IInv, TypeOK
    <3>4. \A r \in Rows \ {of[s]} : chunk'[r] = chunk[r] /\ quiz'[r] = quiz[r]
      BY <2>4 DEF SyncReset, IInv, TypeOK
    <3>5. QED
      BY <3>1, <3>3, <3>4
  <2>5. ASSUME NEW s \in Syncs, SyncRefresh(s)
        PROVE  Kept
    BY <2>5, RefreshFacts DEF SyncRefresh
  <2>6. QED
    BY <2>1, <2>2, <2>3, <2>4, <2>5
       DEF Next, Sync, Run, Edit, Deploy, SyncLoad, SyncFetch, SyncInsert, SyncSkip,
           SyncReload, SyncCrash, StartRun, NextStage, TakeUp, Tell, Extract, CommitText,
           FindDonor, CopyChunk, Cut, Reload, Settle, ReloadFailed, Defer, Ask, EndRun,
           ShareFailed, QuotaExhausted, CrashRun, BackoffEnds, tables, vars
<1>2. QED
  BY <1>1, Invariance, PTL DEF Spec, ProgressKept
=============================================================================
