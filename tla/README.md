# Verification of the study buddy

TLA+ models of the parts of `src/app` where several processes work on one
database at once, with TLC instances that check them and TLAPS proofs that the
safety properties hold for any number of jobs, workers, users, items and events.

| Module | Models | Instances |
|---|---|---|
| `JobQueue` | the job queue and its workers | `MCJobQueue`, `JobQueue_claims.cfg`, `JobQueue_live.cfg`, `JobQueue_lost.cfg` |
| `JobLedger` | what the queue promises | (a property of `JobQueue`) |
| `JobQueueProofs` | theorems about both | |
| `MaterialProofs`, `CourseProofs`, `PipelineRunsProofs`, `ReviewProofs`, `MailPassProofs`, `MailerProofs`, `AccountsProofs` | theorems about the modules below | |
| `Material` | one material between the syncs and the pipeline | `MCMaterial`, `Material.cfg`, `Material_reset.cfg` |
| `Course` | a sync of a whole course: topics, moves, duplicates, assignments | `Course.cfg` |
| `PipelineRuns` | jobs, crons and the lock that run the pipeline | `MCPipelineRuns`, `PipelineRuns.cfg` |
| `Review` | answers, schedules, queue, streak | `MCReview`, `Review.cfg` |
| `AnswerJournal` | what reviews promise | (a property of `Review`) |
| `MailPass` | one notify job: reminders, batches, requests | (part of `Mailer`) |
| `Mailer` | notification events, users, and notify jobs that follow or overtake each other | `Mailer.cfg`, `Mailer_lone.cfg` |
| `Accounts` | sign-in, sessions, who owns a course | `MCAccounts`, `Accounts.cfg`, `Accounts_taken.cfg` |

`PROJECT.json` says which definition models which lines, and lists runs,
mutants, hazards and findings.

    tlc -workers 2 -config JobQueue_claims.cfg MCJobQueue
    tlc -workers 2 -config Mailer.cfg Mailer
    tlapm JobQueueProofs.tla
    tlapm MailerProofs.tla

## 1. The system

The application imports a user's courses from Moodle and Google Classroom,
turns the material into chunks and quiz items with an LLM, and schedules
reviews. All shared state is in one Postgres database (READ COMMITTED). Web
processes, a looping worker, cron jobs and command line runs work on it side
by side; handlers take minutes, and any process may be killed by a redeploy.

| Component | State it keeps | Operations | Meets the others by |
|---|---|---|---|
| Job queue, `app/jobs.py` | `jobs` rows: status, attempts, available_at, updated_at | `enqueue`, `_enqueue_once`, `reap_stale`, `prune_finished`, `_claim_next`, heartbeat, `run_due`, `_finish` | the table; handlers call sync, pipeline, notify |
| Worker, `app/worker.py` | `STOP`, `in_handler`, one pass | `_drain`, `_request_stop`, `main` | calls `run_due` |
| Sync engine, `app/sync.py` | courses, topics, resources, assignments | `sync_course`, `sync_all` | rows and row locks shared with the pipeline |
| Pipeline, `app/pipeline.py`, `chunk.py`, `quiz.py` | resources' text and status, chunks, quiz items and attempts; the advisory lock of a source | `run_extraction`, `run_chunking`, `run_quiz`, `single_run` | the same rows; queues notification events |
| Sharing, `app/share.py` | none | `copy_extraction`, `copy_chunks`, `copy_quiz` | reads other users' rows |
| Grading and scheduling, `app/grade.py`, `srs.py` | reviews, schedules, daily allowance | `submit_answer` | reads quiz items; loses them to a purge |
| Notifications, `app/notify.py` | events, batches, idempotency keys | `enqueue_new_material`, `check_review_due`, `send_pending`, `opt_out` | run by the notify job |
| Sign-in, `app/auth.py`, `main.py` | users, session versions, unowned courses | `sign_in`, `_upsert_user`, `revoke_sessions`, `claim_unowned` | owns courses that syncs adopt |
| Rate limiter, `app/security.py` | hits per key in memory | `HitTable.hit` | in front of requests |
| LLM client, `app/llm.py` | none | `complete_json` with its retries | called by the pipeline and grading |
| Streaks, `app/stats.py` | none | `_streak` | reads the log of reviews |
| Adapters, extraction, pages, tools, schema | none that is not above | I/O and formatting | inputs of the above |

What makes each one correct, and what is hard about it:

- **Job queue.** One owner per job, although a stalled worker's job is given
  to another while it still runs; attempts neither overdrawn nor leaked by
  reaping, refunds of shutdowns and deferrals; every job settles. Hard:
  `attempts` is both a budget and the claim token, it is decremented too, and a
  worker reads it again after the commit of its claim.
- **Sync and pipeline.** Chunks and quizzes are of the content the row has;
  progress is lost only when the content is; the last version gets taught.
  Hard: both sides load a row, leave for minutes, and write later.
- **Courses.** A material that moves, or of which copies were left behind,
  ends up as one row where the source lists it, with the reviews of its best
  copy. Hard: a sync commits many times and may fail in between, another may
  overlap with it, and reviews go on.
- **Runs of the pipeline.** Only one per source; nothing is chunked or quizzed
  twice; new material gets its quizzes in the end. Hard: a cron, jobs of many
  users, and a lock that is not tied to the table of jobs.
- **Grading.** One answer advances the schedule once; the daily cap holds
  under concurrent first answers, also over midnight; what is shown (queue,
  count, streak) agrees with the tables. Hard: the grader takes a minute
  between the check and the commit, and items may be purged under it.
- **Notifications.** A batch whose outcome is unknown is sent again only
  under the same key; an opt-out is obeyed; one bad address holds nobody up.
- **Sign-in.** One account per person, one owner per course, a revoked
  session stays revoked.

`PROJECT.json` lists every component with its status and every hazard at its
line.

## 2. The queue: JobQueue, JobLedger

| Model | Code |
|---|---|
| `status`, `attempts`, `created`, `due`, `stale` | columns of `Job`; `due` is `available_at <= now`, `stale` is `updated_at < now - RUNNING_TIMEOUT` |
| `asked` | callers between the two transactions of `_enqueue_once` |
| `pc`, `job`, `claim`, `active`, `left` | a worker's place in `_drain`/`run_due` and its locals |
| `stop` | `jobs.STOP` |
| `CleanUp`, `Prune`, `Announce`, `Reap` | the transactions a pass starts with |
| `Select`, `Claim` | `_claim_next` up to the row lock, and its commit |
| `ReadClaim` | `run_due` reads the row that the commit expired: id, token, payload |
| `shared` | history: jobs of which a worker took up the running claim of another |
| `StartHandler`, `Renew`, `EndHandler`, `DeferHandler`, `Finish` | `run_due` around a handler, the heartbeat thread, `_finish` |
| `Signal`, `Crash` | SIGTERM; a process that dies or whose pass a database error ends |
| `BecomeDue`, `GoStale` | time |

One action is one transaction; between the commit of a claim and `ReadClaim`
anything may happen, as the heartbeat has not begun. The token that `ReadClaim`
gets is what `attempts` is by then: usually the number the claim wrote, but after
a reaping and another claim it is the token of that one. If the row was pruned
the read fails and the pass ends. A handler is a step that ends with some
outcome: what it does to other tables is the business of other modules. Time
is abstract, and a lease may lapse at any moment of a handler: that is weaker
than ten minutes with a beat every minute, so what holds here needs no clock.
Job ids are never reused. `_enqueue_once` may be called by anyone at any time
(sync handlers and Sync buttons do). A pruning takes any set of finished rows.

`JobLedger` is the promise: jobs that are taken by one worker, concluded only
by one who holds them, struck for failing or vanishing, never struck for being
handed back, and failed at the last strike. A worker that had lost a job may
`Join` the one that holds it, and the job is shared from then on. The ledger
knows no token and no lease. `ImplementsLedger` says JobQueue implements it with
*the holders are the workers whose token matches* and *strikes are the attempts
not refunded*. That the ledger must have `Join` is the finding `queue_lost`.

## 3. The material: Material

| Model | Code |
|---|---|
| `content`, `render` | what the source has; the converter that makes text of page HTML |
| `row` | `Resource`: status, content_hash, extracted_text, attempts, retry_after |
| `chunk`, `quiz` | the row's chunks; `QuizAttempt` with or without items |
| `told` | the row's items were put in a notification event |
| `at`, `seen`, `got` | a sync: its place, the row as it loaded it, the source's answer |
| `stage`, `todo`, `cur`, `step`, `mine`, `donor`, `draft`, `made` | a pipeline run: stage, ids listed once, row in hand, the row as loaded, the row to copy from, what it will write, courses to announce |
| `SyncLoad`, `SyncFetch`, `SyncReload`, `SyncInsert/Reset/Refresh/Skip` | `sync_course` for one resource; `SyncReload` is the expiry that the commit of an earlier resource brings |
| `StartRun` ... `EndRun` | `run_extraction`, `run_chunking`, `run_quiz` under `single_run` |
| `FindDonor`, then `CopyChunk` or `Ask` | `copy_chunks`, `copy_quiz`: one statement finds another user's row, a later one reads its chunks or items, which a sync may have purged in between |
| `Reload` | `chunk_resource` after a copy that found nothing: the commit expired the row |
| `ShareFailed` | `_share_failed` |
| `overtaken`, `crossed` | history: syncs whose row another sync has written since they loaded it; rows that such a sync wrote all the same, and rows that copied from one |
| `Flush` | the UPDATE of the unit of work: only the columns that differ from what was loaded |

`Flush` is what makes the module worth having: a writer sets every attribute,
but the UPDATE leaves out those that equal the values *it loaded*, also when
another transaction has changed them since.

A row has at most one chunk (chunks of a row are made and purged together),
content is a version number, and a text is a pair of the version it is of and
the converter that made it. A file's marker names its revision, which never
comes back; a page's HTML may be reverted. Blank text has no value of its own:
a file that yields it is the "skipped" verdict of `Extract`. Any number of syncs
may work on one row: a cron, a queued job and a second job of the same user do
not exclude each other. `of` says which row a sync works on, and the instance has
both two syncs of one row and two users' rows that share.

Left out of this module: hashes from before fingerprints and materials that
move (module Course), titles and other metadata, runs of single stages or
without an LLM, and the over-the-cap branch of `FreshStatus` (the instances
set `Large = {}`).

## 4. A course: Course

| Model | Code |
|---|---|
| `place`, `due` | the topic the source lists the material under; the assignment's version there |
| `Snapshot`, `Listed`, `Where`, `Assignments` | the adapters: a course is read once per sync, Classroom's made-up topics are listed only when used, Moodle is asked again for assignments |
| `topics`, `row`, `work` | rows of `Topic`, `Resource` (topic, hash, reviews), `Assignment` |
| `sync[s].have`, `kept` | the rows as loaded (`by_source_id`) and the copy that is kept |
| `LookUpTopic`, `InsertTopic` | the topic loop |
| `LoadRows`, `Reread` | the rows of the course; that a commit expires them |
| `Choose`, `Pick`, `InTheWay` | `_pick_copy`, and `_retire` of a copy in the destination; of several copies with the most reviews any may be picked, as chunks are not counted here |
| `InsertRow`, `Write`, `Verdicts` | insert; move, reset, renewal of a legacy hash, or nothing |
| `Retire` | the loop over leftover copies |
| `LoadAssignment`, `SaveAssignment` | the assignment loop |
| `Fault`, `Fail` | an exception or a death in the sync; other courses go on |

A row's text and chunks are Material's business; here a row has reviews, which
`_progress` compares. The instance starts with any one or two copies, in any
topics and with any hashes.
`alone`, `best` and `stale` are history: they say what a sync that has the
course to itself must preserve.

## 5. Runs of the pipeline: PipelineRuns

| Model | Code |
|---|---|
| `progress` | how far a course's materials all are: synced, extracted, chunked, quizzed |
| `queue` | pending jobs in the order in which they come due |
| `lock` | the advisory lock of `single_run` |
| `StartSync`, `SyncCourse`, `CheckChunks`, `Ask`, `EnqueueFirst` | `run_sync_job`, `sync_all`, `enqueue_first_pipeline`, the two transactions of `_enqueue_once` |
| `ListCourses`, `TryLock`, `Defer`, `NextCourse`, `EndRun`, `Finish` | `run_pipeline_job` under `run_due` |
| `StartCron`, `TryCron`, `Look`, `Want` | `pipeline.main`: try, see whether a job runs, then block on the lock |
| `Work`, `LeaveRest`, `EndStage`, `EndCourse` | `run_course`, one stage after the other over what its query returned |
| `Die`, `Reap` | a killed process, whose lock goes with its connection, and its job after the lease |

This composes the queue (a job that dies comes back, a deferred one goes to the
end), the syncs and the pipeline, each as abstractly as the question allows:
who works on what, and is anything left. A user without any course, whose
first runs are empty and come again with every sync, is left out: such runs can
keep meeting the cron, whose yielding then rests on luck (`DEPLOY.md` says as
much: a cron run may exit while a job is just starting, and "the next run picks
the work up").

## 6. Reviews: Review

| Model | Code |
|---|---|
| `state`, `log`, `past` | `review_states`, `review_logs`, and logs whose item is gone |
| `Open`, `LockUser`, `Grade`, `Refuse`, `LockState`, `Record` | `submit_answer` from its first check to its commit, with both row locks |
| `Victim` | Postgres ends a deadlock by failing one transaction |
| `StartPurge`, `DeleteItem`, `Purge`, `PurgeFails` | `_purge_derived`: first the states, then the items, then the commit, or a rollback |
| `Quality`, `Verdict`, `NextEase`, `Interval` | `srs.py`; ease in thousandths, credits in two-hundredths |
| `OldRows` | states and logs that migration 0009 left: no first answer, at most the last one logged, without its credit |
| `QueueLength`, `DueCount`, `Allowance` | `due_items`, `due_count`, `_new_allowance` |
| `Streak` | `_streak` with its doubling windows |

Time is the day: due dates and the cap are by local days, and a submit may be
graded after midnight. One user; users share no row but items. One item is purged
at a time.

A credit is any float the grader returns. The code rounds five times the credit to
nine places before it takes the floor, and compares the credit itself for the
verdict, so what matters of it is which hundredth it is at or just below: `2 * h`
stands for `h` hundredths and `2 * h - 1` for a credit within the rounding below.
`AlmostPass` is the one below 0.6: quality 3 and "partial".

`AnswerJournal` is the promise without transactions and locks: answers are added
to a journal one at a time, each under the day it was graded; one that begins an
item needs room under the cap among the items begun that day or later, any other
needs its item to be due; a wrong answer brings the item back the next day, a
right one later; an item may be torn out, but the days with an answer stay.
`ImplementsJournal` says that Review implements it with *the journal is the log*
and *answered is when the transaction commits*: what a submit read before it had
its locks never shows.

## 7. Mail: MailPass, Mailer

| Model | Code |
|---|---|
| `rows` | `notification_events`: owner, kind, sent, failed, batch_key |
| `accepted` | the requests the mail service has delivered, with their keys |
| `NewMaterial` | `enqueue_new_material` |
| `Start`, `Look`, `Remind` | `run_notify_job` begins; `check_review_due` reads the last reminder, and commits another |
| `cached`, `read` | the rows a session still has as it read them: a commit of its own expires them |
| `Load`, `Check`, `Plan`, `Take`, `Accept`, `Fail`, `Rekey`, `Reject`, `Confirm`, `EndPass` | `send_pending` and `_deliver`, one commit or request per action |
| `OptOut`, `OptIn` | `opt_out`, `_save_notify_email` |
| `Move` | a deployment under another URL, a changed address: another body |
| `Overtake`, `Behind` | a job whose lease lapsed is failed and goes on, next to its successor |

The service answers a key it knows as it did the first time and sends nothing
again, refuses a batch with an invalid member as a whole, and answers a known
key with another body with a conflict; that is how `notify.py` uses it.
A key is a hash of the events and the body, so it is modelled by these. The
24 hours a key lives are not modelled: all of a behaviour falls within them.

`MailPass` is one job and is there twice: `Mailer` instances it again, as `Behind`,
for a job that was overtaken. The queue has one live claim on notify jobs
(`OneNotifyHolder`), but that does not stop the process that lost it: a sender that
stalls for longer than the lease goes on with what it has loaded while the next one
sends. At most one such job is left behind at a time. A change of mind of a user, a
lost answer, a crash, a deployment and a lapsed lease all count as upsets.

## 8. Accounts

| Model | Code |
|---|---|
| `account`, `owner`, `cookie` | `users`, `courses.user_id` of one Moodle course, a browser's session |
| `Login`, `Callback`, `Consent`, `AskAgain` | the OAuth round trip and the second consent |
| `Find`, `Save`, `Retry` | `_upsert_user` in two transactions, and the one retry of `sign_in` |
| `Claim`, `FindSpare`, `Give` | `claim_unowned`: what the user has, what nobody owns, and the commit |
| `Welcome`, `Visit`, `Logout`, `Revoke`, `AdminRevoke` | the session cookie, its check, `revoke_sessions` |
| `Disconnect`, `Forget` | `revoke_google_access` |
| `StartSync`, `LookUp`, `FindOrphan`, `Adopt`, `InsertCourse`, `EndSync` | `_upsert_course`, `_adopt_unowned` |

`Copy` is a session on a second device. Accounts from before addresses were
normalized (`OldIds`) may exist twice. Not modelled: changes of
ALLOWED_EMAILS, Moodle keys, the `claim-unowned` command, and syncs without an
owner.

## 9. Runs

| Run | Instance | Shows |
|---|---|---|
| `queue_claims` | 2 workers, a pipeline and two notify jobs, 2 attempts, 1 fault | the inductive invariant; but for late readers of the token one holder and lost claims that stay lost; never two live claims on notify jobs; the ledger is implemented |
| `queue_live` | 2 workers, a sync and a notify job, 2 attempts, 1 fault | every job settles, every pass ends |
| `material` | a page or a file; two syncs of one row, or of two users' rows that share; per case up to 2 edits (also a revert), a new converter, or 2 faults | chunks are of the row's content and progress is kept, but on crossed rows; the last version of a page is taught |
| `course` | 2 topics (one made up), up to 3 rows, 2 syncs, 1 edit or fault | reviews are kept, one row where it is listed, overlapping syncs converge |
| `pipeline` | 2 workers, a cron, a user with a course and one more later, 1 death or unfinished stage | nothing is worked on twice, a first run is complete, everything is picked up |
| `review` | 2 submits, 2 items (one multiple choice, one with credits 0.55 and just below 0.6), an old row or none, cap 1, page 1, window 1, 3 days | one answer a day, the cap, schedule = log to within the rounding, count = queue, the streak, the journal is implemented, every submit ends |
| `mailer` | 2 users (one refused), 3 events or 2 with a job overtaken, batches of 3, 2 upsets | what is marked was sent, opt-outs hold, everything settles; while no job was overtaken, batches are delivered once and the cooldown holds |
| `accounts` | 2 people, 2 browsers, 2 syncs, 2 rows of a course, 4 requests or syncs | one account, racers get in, revocation, adoption |
| `queue_lost`, `material_reset`, `mail_lone`, `course_taken` | the smallest that shows it | the findings of section 12 |

Bounds, and why they are enough.

- Queue: two workers suffice for a claim to be taken over while its first
  worker lives; a job is claimed, reaped, claimed, refunded and claimed again
  within two attempts, which is the shortest way to an attempts value that was
  a token before. `Limit = 1` (5 in the code) makes the end of a batch and the
  next one happen at once. `IInv` begins with the type invariant. `MaxFaults` counts crashes, signals and deferrals,
  never the lapse of a lease, which is unbounded. The proofs have no bounds.
- Material: two edits give a reset during work and a revert; two converters
  give a refresh; `MaxTries = 2` (3 in the code) gives a failure that is retried
  and one that is final. `MCCases` lists the combinations: with two syncs of one row
  each kind of edit, a deployment, and two faults of a page; with two users' rows an
  edit and a fault. An edit or a fault of a file suffices for the syncs of it to cross.
  `Large = {}` leaves files over the download cap to the proofs.
- Course: three ids let a row be retired and its material inserted again;
  with two copies and two topics, every case of `_pick_copy` and of a copy in
  the way occurs, and two syncs may do each of their commits in any order.
- PipelineRuns: one user suffices for two equal pipeline jobs, a deferral, and
  a cron that waits for a job; `MaxQueued = 1` bounds waiting syncs.
- Review: with a cap and a page of 1 the second item already meets both;
  two submits meet in every order at both locks and around one purge; three
  days make a streak of two windows and an interval of 3 come due. A credit of 0.55
  is no pass however it is rounded, one just below 0.6 is a pass for the schedule
  only; a multiple-choice item adds 0 and 1. Either item may have the old row.
- Mailer: three events make a batch, a batch with a refused member, and a lone
  event that is overtaken; two upsets make a lost answer followed by an opt-out
  or by a new body, or a lapsed lease followed by one of these. Two events may be
  left from before derived keys. `LateEvents = 2` keeps behaviours with two senders
  small: two events are a batch that both may tag, send and split.
- Accounts: four operations are two racing sign-ins with two racing syncs,
  or two revocations with a sign-in between them.

`MaxUpsets`, `MaxFaults`, `MaxDay` and `MaxStarts` end the faults, not the
program. Workers, users with their syncs, browsers and syncs are interchangeable
where the safety runs reduce them by symmetry. Deadlock is checked but in
`review`, `accounts` and `course_taken`, where bounded days or requests stop
the model.

Every property of a passing run has a mutant in `PROJECT.json`: a plausible
bug of a mapped definition under which TLC finds that property violated.

Fairness.

- `queue_live`: workers are restarted (`--loop`, cron) and take the steps they
  can, handlers return, `available_at` passes, and a running row whose worker
  no longer holds it goes stale. A row that is held may go stale and need not.
  Crashes and signals are finite. `EveryJobSettles` includes the gated notify
  job, which must outlast other jobs that come back by backoff.
- `material`: syncs and pipeline runs are started again and again
  (cron), each continues, backoffs pass; edits and faults are finite.
- `course`: syncs are started again and again (cron) and each goes on; a
  `Reread` is never forced, as it is the effect of other materials' commits.
- `pipeline`: each worker, each cron and each user's daily sync goes on; a run
  that left work is not told to come back, it is the cron that does.
- `review`: a grader answers or times out, and a lock that is free again and
  again is got (Postgres queues waiters), hence strong fairness per submit.
- `mailer`: a job is started again and again and takes its steps; answers are
  lost finitely often. A job left behind need never take another step.

## 10. Proofs

Every safety property that a passing run checks, invariant or action property, and
both refinements are theorems, for every value of the constants that the named
assumptions allow: any sets of jobs, workers, users, items, rows and browsers
(finite where the code counts them), and every bound. The theorems about the material have no hypothesis on the syncs,
those about the queue and the mail none on how late a worker goes on; what the code
does not keep then is excepted in the properties themselves.

| Theorem | States |
|---|---|
| `JobQueueProofs`: `Invariance`, `TypeCorrect`, `SingleHolder`, `SingleNotifyHolder`, `BudgetKept`, `LostClaims`, `LedgerImplemented` | `IInv`, `TypeOK`, `OneHolder`, `OneNotifyHolder`, `RetryBudget`, `LostForGood`, `ImplementsLedger` |
| `MaterialProofs`: `TypeCorrect`, `ChunksAreOfText`, `ProgressStays` | `TypeOK`, `ChunksOfText`, `ProgressKept` |
| `CourseProofs`: `TypeCorrect`, `ProgressStays`, `OneRowIsLeft` | `TypeOK`, `ProgressKept`, `ListedOnce` |
| `PipelineRunsProofs`: `TypeCorrect`, `StagesApart`, `RunsComplete` | `TypeOK`, `NothingTwice`, `FirstRunComplete` |
| `ReviewProofs`: `TypeCorrect`, `CapKept`, `AnsweredOnce`, `TablesAgree`, `CountIsRight`, `StreakIsWhole`, `JournalImplemented` | `TypeOK`, `DailyCap`, `OneAnswerADay`, `ScheduleOfLog`, `CountOfQueue`, `StreakIsRun`, `ImplementsJournal` |
| `MailerProofs`: `TypeCorrect`, `SentIsMailed`, `OneMailPerBatch`, `OptOutIsFinal`, `OneReminder` | `TypeOK`, `SentWasMailed`, `BatchMailedOnce`, `OffIsOff`, `RemindersApart` |
| `AccountsProofs`: `TypeCorrect`, `NoSecondAccount`, `OneRetryIsEnough`, `RevocationIsFinal`, `AdoptionIsOnce`, `SyncsWorkOnOwn` | `TypeOK`, `AccountPerPerson`, `RacersGetIn`, `SignedOutEverywhere`, `AdoptedOnce`, `SyncTakesOwn` |

Each module has an inductive invariant `IInv`, one lemma per action or group of
actions that it is kept, and the properties as consequences.

**The queue.** `OneHolder` is not inductive: a claim is recognised by
`attempts = claim`, and attempts goes down again when a shutdown or a
deferral is refunded, so an old worker's token might come back. `Tokens` says
why it cannot: no token that is out exceeds the attempts of its job, so that the
next claim hands out a number no other worker has; a refund is done only by the
holder, whose token is given up in the same transaction. A late reader breaks just
this, as it takes up a token that is out; the job is `shared` from then on, and
`Tokens` and `OneHolder` are about the others. `NotifyUnshared` is why that never
touches notify jobs: they have one attempt, so that after a reaping there is no
other claim to take up. `RowLocks` keeps two claims of one row apart between the
SELECT and the commit, `FreeIds` keeps an insert from landing on a used row,
`OneNotifyLive` is the unique index, and `RetryBudget` gives the order between
attempts and `max_attempts`; it holds for shared jobs too, since a token that is
recorded is the row's `attempts`, whoever records it.

**The ledger.** Under the mapping `phase`, `holder`, `strikes`
of `JobQueue.tla` an insert is a Submit, the commit of a claim a Take, the
record of an outcome a Complete, HandBack or Strike, a reaping a GiveUp of all
stale rows, the crash of a holder an Abandon, a pruning a Forget, and a `ReadClaim`
that finds another's attempts a Join; everything else leaves the ledger as it is.
`IInv` supplies what the steps need: the new token of a claim is nobody else's
(Take leaves one holder, unless the job is shared), a running row's attempts are
within its budget (a strike fails the job exactly at the last).

**The material.** `ChunksOfText` needs to know what each side may believe while it
is away. `Synced`: while a sync is at work and is not overtaken, the hash it saw is the
row's, since only another sync writes the hash; `Hashed`: a page's text is of its hash,
and the hash of a file only grows, so that a run that finds the hash it loaded finds
the same text; `Workable`: what a stage listed has no chunk (no quiz) yet, since only
the one run makes them and a reset only purges them; `InHand`: what a run is about
to write, or to copy from a donor that still has it, is of what it loaded;
`ChunkedLast`: only rows that are extracted have chunks; `Holding`: which steps have
a row in hand and a donor. `Flush` is what makes these necessary: it writes only
columns that differ from those loaded.

All but the types are claimed for rows that are not `crossed`. A row is crossed when
a sync writes to it that was overtaken, that is, whose row another sync has written
since it was loaded: what the first believes of the hash is then wrong, and TLC finds
`ChunksOfText` violated on such a row in the ways of section 12. Sharing carries it
on, so a row that copies from a crossed one is crossed. That a sync which was
overtaken and then finds nothing to write, reloads or fails does no harm is part of
what is proved.

**The course.** The properties are about a sync that has the course to itself, with
any number of others before and after it. `Fits`: the rows it has loaded are those
that are there, as they are stored, and what it has chosen is where the source
lists it; `Keeps`: the best of the copies it began with is still there, and is the
one it chose once it has chosen. `Alone` says when both hold, and `IInv` that no
other sync is at work meanwhile. That there is a best
copy for `Pick` to take is shown with the least bound of the reviews, and any that
`Pick` may take has as many.

**Runs of the pipeline.** `Locked`: whoever works has the lock and whoever has the
lock works, through deferral, blocking crons and deaths; hence what a stage listed
is still at that stage when its turn comes (`AtItsStage`), which is `NothingTwice`.
`Onward` follows a first run through its courses: what it saw is listed, being
worked on, or past the stages that are done.

**Reviews.** `Granted` says what a submit may rely on between its locks: one that
begins an item holds the user's row, and with it a place under the cap that nobody
else can take, for the day on which it was graded although another day may have
begun; one that records holds the item's state alone, and the item is due. `Capped`
states the cap for all days, those to come included; `Dated`, that an item is due
after its last answer, gives one answer a day; `ScheduleOfLog`, that repetitions and
lapses are those of the log, rests on `CreditFacts`: a credit counts as a lapse
exactly when it is below `AlmostPass`, and the log shows a correct answer exactly
when it is above. It is about items with a first answer on record; a row from before
the column has none, and its log may hold less than its schedule.

`StreakIsWhole` uses no invariant but the types: the doubling windows of `_streak`
give the whole run of days for every log and any window. What a window reads is
compared with the run day by day; the first day on which they could differ (the
least counterexample) is inside the window or the window is not the last. That a
window of `2^n` days outgrows any log is proved by counting subsets, as induction
over `n` is beyond the prover.

`JournalImplemented` adds `Linked`: an item has a state exactly when it has an
answer, the column of its first answer is the day of the first log, and a submit
that believes it begins the item is right. Then the cap that the code counts over
the states is the journal's over the logs, the commit of a `Record` is an `Answer`
under the day of its grading, a purge a `TearOut`, midnight `NextDay`, and the rest
leave the journal as it is.

**Mail.** `MailPassProofs` says what any step of a job does, whatever befell the job
and whoever else sends: its shapes are kept, a row gains sent or failed and loses
neither, it takes in hand only what it has or what waits, it marks sent only what it
has in hand after an accepted request, and it adds to what was accepted only such a
request. `MailerProofs` instances these lemmas for both jobs. `Ever` is the invariant
that needs no more, and so holds with a job left behind: `Answered`, a job that is
about to mark a batch has had it accepted, gives `SentWasMailed`; `Off`, what was
barred by an opt-out is settled and on neither job's way, gives `OffIsOff`.

`OneInv` holds while no job was overtaken, when there is no other (`Alone`).
`Current`: the keys that the session has read are still those of the rows, as nobody
else sets any. `Apart` and `AllBatched`: the batches of a pass are disjoint, all
events of one carry one key, and every other row with that key is settled and no
longer on its way; what still waits under a key is in what the pass goes through. `AllKept`: a delivered batch keeps its
key to itself, and if one of it is marked sent all are settled; or it lost a member
for good, or its body changed. So a repetition of a delivered batch is the same set
with the same body, the service knows its key, and nothing is delivered again
(`BatchMailedOnce`). `Unsent` and `AllDelivered` relate the rows to what the service
accepted, and `Looked` and `Reminded` order a user's reminders: an earlier one failed
or was sent longer ago than the cooldown, and a job that has looked adds one only if
that is still so.

**Accounts.** A request waits at Google, between two transactions, and over a
retry; `Knows` says what remains true of the accounts meanwhile (a row that was
found is still that person's, a person that had no row can at worst have one with a
normal address, which is what the unique index `OneAddress` makes the insert fail
on, and after which the retry finds it). `Issued`: no session is ahead of its
account's version, so that a new version ends all of them. `AdoptedOnce` and
`SyncTakesOwn` follow from one step: the UPDATE repeats `user_id IS NULL`.

Assumptions used: the named ASSUMEs of the modules, which TLC evaluates in the runs,
and nothing else. They say that bounds are numbers, that the sets of jobs, items and
rows are finite (tables are), that values standing for *none* are no row, user or
topic, that old rows are rows, and those of reviews such as migration 0009 can have
left, that credits lie between 0 and 1, that workers and crons are different
processes, and that there is room for two events (`MaxEvents`): a batch key is given
only to batches of several.

Model-checked only: liveness, that is `EveryJobSettles`, `EveryPassEnds`,
`EveryoneTaught`, `Converges`, `PickedUp`, `EverySubmitEnds`, `EveryMailSettles`
(fairness and ENABLED are beyond the prover), and the properties of the four runs
that violate them. `TypeOK` and `RetryBudget` of the queue are checked by TLC as
parts of `IInv`.

## 11. Not modelled

- Text extraction, HTTP, paging and field mapping of the adapters, rendering of
  pages and mails: transformations of data, which are inputs or outcomes here.
- The rate limiter: a data structure in one process's memory that one thread
  uses, with a bound of 10,000 keys; nothing interleaves with it.
- The retry loop of the LLM client: no state outlives a call; its outcomes are
  inputs of Material, PipelineRuns and Review.
- Command line glue, configuration, encryption, migrations.
- Beats of the heartbeat against the lease (a lease may lapse at any moment); a
  lock connection that drops during a run, and with it a second run on the same
  material; more than one notify job left behind at a time; purges of several items
  in one transaction; the number of chunks as a tie-break between copies; `--course`
  runs and single stages; the dashboard's figures but the streak.

## 12. Findings

Each has a run whose only property states what a comment, a document or a test
says, and which TLC violates.

- `queue_lost`: `jobs.py:14-15` says that a worker whose claim was reaped and
  re-taken cannot record its result. But the token is read after the commit of the
  claim (`jobs.py:266`), when `attempts` may be another's already: a worker that
  stalls there for the length of the lease, before its heartbeat starts, gets the
  token of the worker that claimed the job after it. Both then run the handler and
  renew the lease, and the first to finish records its result. It takes a job with
  more than one attempt, so notify jobs are not affected. `OneHolder`, `LostForGood`
  and `ImplementsLedger` state what holds besides.
- `material_reset`: a sync that loaded the row before an extraction committed
  replaces the hash and leaves the old text and status: its UPDATE names only
  the columns that differ from what it loaded. The row is never extracted
  again. The helper of the tests that stands for the sync writes all columns.
- `mail_lone`: a batch of one has no `batch_key`. If its answer is lost, it goes
  out again together with events queued since, under another key: a second
  delivery within minutes, not only after 24 hours. (`BatchMailedOnce` is what
  holds: batches of several are repeated as they were.)
- `course_taken`: `claim_unowned` updates by id the rows that it read as
  unowned. A course that another user's sync adopts in between is taken from
  that user, whose sync goes on writing to it.

Observations that the models show and no run checks, because no property of
the code is left once they are granted:

- The check of the notify gate (`jobs.py:184`) is of the SELECT's snapshot and
  is not repeated when the claim commits: a sync queued and claimed in between
  runs beside the notify job.
- `_enqueue_once` (`jobs.py:96`) checks and inserts in two transactions, and two
  callers both insert. `NothingTwice` says it does no harm.
- A file that is reset while it waits on the chunking stage's list is taken for
  one with blank text (`pipeline.py:257`), marked skipped, and never extracted.
- A chunk located in the old text and committed after a text refresh keeps
  offsets of the old one: a refresh (`sync.py:414`) does not change the hash
  that the commit checks.
- Two syncs of one row (a cron and a queued job) that both saw the old hash: the
  second resets a file again while the pipeline cuts its new text, or, after a change
  of the converter, writes the old text of a page under its new hash (`sync.py:415`);
  the hash that the chunking's commit checks has not changed. `ChunksOfText` is then
  false of that row and of rows that copy from it, and `ProgressKept` if the second
  reset comes after the commit: hence `crossed` in both.
- A donor whose items are purged between the two statements of `copy_quiz`
  (`share.py:112-124`) gives a quiz without items, with an attempt on record, so
  that the chunk is never quizzed; one whose chunks are purged between those of
  `copy_chunks` (`share.py:81-89`) gives a commit of a row without chunks, after
  which the row is chunked alone. If a sync resets a file after that commit and
  before `chunk_resource` loads the row again, the missing text is taken for blank
  and the file is skipped for good.
- A credit just below 0.6 (0.59999999999) rounds to quality 3, a pass, while the
  verdict is "partial", against the "exactly when" of `srs.py:17`. Graders seldom
  give such a credit. `ScheduleOfLog` excepts it, and no other.
- A notify job that was overtaken and goes on may deliver a batch that its successor
  also delivers, under another key or split otherwise, and both may queue a reminder:
  `OneNotifyHolder` bounds claims, not senders. `BatchMailedOnce` and `RemindersApart`
  are about the time before; `SentWasMailed`, `OffIsOff` and `EveryMailSettles` hold
  throughout.
- Items whose run is cut short before its last step (`pipeline.py:377`) are
  never announced.

For this reason `EveryoneTaught` is checked for pages: for files
`material_reset` and the third observation break it.

## 13. Plan

1. Abstract specifications of the mail (each event settled once) and of the accounts
   (one person, one account, one owner), implemented by Mailer and Accounts as the
   ledger is by the queue and the journal by the reviews.
2. `Lease`: beats against the lease with a clock.
