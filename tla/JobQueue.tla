------------------------------- MODULE JobQueue -------------------------------
(***************************************************************************)
(* The Postgres-backed job queue of app/jobs.py and the workers of         *)
(* app/worker.py that drain it.                                            *)
(*                                                                         *)
(* A row of the jobs table is an element of Jobs (its uuid: never reused). *)
(* A worker process runs one pass after the other (worker._drain): it      *)
(* reaps, prunes, queues the notify job, then claims and runs jobs until   *)
(* nothing is due.  Every database transaction is one action; between two  *)
(* of them any other worker, a request or a signal may run.  Time is       *)
(* abstract: a pending row becomes due, and a running row that nobody      *)
(* renews becomes stale, at some arbitrary later moment.                   *)
(***************************************************************************)
EXTENDS Integers, FiniteSets

CONSTANTS
  Jobs,            \* the ids rows may take (bounds the rows ever created)
  Workers,         \* worker processes: the looping one, the cron ones
  NoJob,           \* what a worker that holds no job remembers
  Type,            \* the type of each job, in JobTypes
  Target,          \* the (source, user_email) its payload names
  DefaultAttempts, \* max_attempts of a job that is not a notify job (3)
  Limit,           \* claims in one call of run_due (5)
  MaxFaults        \* bound on crashes, stop signals and deferrals

Notify == "send_notifications"
JobTypes == {"sync", "pipeline", Notify}

ASSUME JobsAssumption == NoJob \notin Jobs /\ IsFiniteSet(Jobs)
ASSUME TypeAssumption == Type \in [Jobs -> JobTypes]
ASSUME AttemptsAssumption == DefaultAttempts \in Nat \ {0}
ASSUME BoundsAssumption == Limit \in Nat \ {0} /\ MaxFaults \in Nat

VARIABLES
  \* the jobs table
  status,    \* "none" before the insert, "deleted" after the pruning
  attempts,  \* claims made, less those refunded: also the claim token
  created,   \* position in the order of created_at
  due,       \* available_at <= now
  stale,     \* updated_at < now - RUNNING_TIMEOUT
  \* callers of _enqueue_once between their check and their insert
  asked,
  \* the workers
  pc,        \* where a worker's main thread is
  job,       \* the job it has selected or claimed
  claim,     \* the token of its claim: what the claim left in attempts, and
             \* from ReadClaim on the attempts its worker read
  stop,      \* jobs.STOP: a stop signal was received
  active,    \* run_due's summary has counted something
  left,      \* claims run_due may still make
  faults,    \* crashes, stop signals and deferrals so far
  \* history, read by no action
  shared     \* jobs of which a worker took up the running claim of another

rowVars == <<status, attempts, created, due, stale>>
workVars == <<pc, job, claim, stop, active, left>>
vars == <<status, attempts, created, due, stale, asked,
          pc, job, claim, stop, active, left, faults, shared>>

Statuses == {"none", "pending", "running", "completed", "failed", "deleted"}

\* How a handler was left, before the outcome is recorded.
Outcomes == {"completed", "deferred", "error", "shutdown"}

\* The stages of a pass that belong to no claimed job.
PassStages == {"off", "clean", "prune", "announce", "reap", "poll"}

\* From the commit of the claim to the recording of the outcome.
ClaimStages == {"committed", "claimed", "handling"} \union Outcomes

Stages == PassStages \union {"claiming"} \union ClaimStages

-----------------------------------------------------------------------------
(* State formulae *)

MaxAttempts(j) == IF Type[j] = Notify THEN 1 ELSE DefaultAttempts

Fresh(j) == status[j] = "none" /\ j \notin asked

Live(j) == status[j] \in {"pending", "running"}

Row(j) == status[j] \notin {"none", "deleted"}

\* The claim of w, live or not.
HasClaim(w) == pc[w] \in ClaimStages

\* Mutant: a claim is recognised by the row's status alone.
HeldByStatus(w) == HasClaim(w) /\ status[job[w]] = "running"

\* _held: w's claim still owns its job.
Held(w) ==
  /\ HasClaim(w)
  /\ status[job[w]] = "running"
  /\ attempts[job[w]] = claim[w]

\* The row lock that SELECT ... FOR UPDATE takes until the claim commits.
Locked(j) == \E w \in Workers : pc[w] = "claiming" /\ job[w] = j

Stale == {j \in Jobs : status[j] = "running" /\ stale[j]}

\* Mutant: the notify job that waits makes itself wait.
BusyWithAny ==
  \E j \in Jobs : status[j] = "running" \/ (status[j] = "pending" /\ due[j])

\* _claim_next's "busy": another kind of job is running, or pending and due.
Busy ==
  \E j \in Jobs :
    /\ Type[j] # Notify
    /\ \/ status[j] = "running"
       \/ status[j] = "pending" /\ due[j]

\* The rows _claim_next's WHERE admits and SKIP LOCKED leaves.
Claimable ==
  {j \in Jobs :
     /\ status[j] = "pending"
     /\ due[j]
     /\ ~Locked(j)
     /\ Type[j] = Notify => ~Busy}

Oldest(S) == {j \in S : \A k \in S : created[j] <= created[k]}

\* Mutant: the index covers pending rows only.
NotifyPending == \E j \in Jobs : Type[j] = Notify /\ status[j] = "pending"

\* uq_jobs_active_notify would refuse another notify row.
NotifyQueued == \E j \in Jobs : Type[j] = Notify /\ Live(j)

-----------------------------------------------------------------------------
Init ==
  /\ status = [j \in Jobs |-> "none"]
  /\ attempts = [j \in Jobs |-> 0]
  /\ created = [j \in Jobs |-> 0]
  /\ due = [j \in Jobs |-> FALSE]
  /\ stale = [j \in Jobs |-> FALSE]
  /\ asked = {}
  /\ pc = [w \in Workers |-> "off"]
  /\ job = [w \in Workers |-> NoJob]
  /\ claim = [w \in Workers |-> 0]
  /\ stop = [w \in Workers |-> FALSE]
  /\ active = [w \in Workers |-> FALSE]
  /\ left = [w \in Workers |-> 0]
  /\ faults = 0
  /\ shared = {}

(* The statements on the jobs table that several operations share. *)

\* enqueue: a new row, due at once.
InsertRow(j) ==
  /\ status' = [status EXCEPT ![j] = "pending"]
  /\ due' = [due EXCEPT ![j] = TRUE]
  /\ created' = [created EXCEPT ![j] = Cardinality({k \in Jobs : status[k] # "none"})]
  /\ UNCHANGED <<attempts, stale>>

\* Mutant: a reaped attempt is refunded like one handed back.
ReapRefunding ==
  /\ status' = [j \in Jobs |-> IF j \in Stale THEN "pending" ELSE status[j]]
  /\ attempts' = [j \in Jobs |-> IF j \in Stale THEN attempts[j] - 1 ELSE attempts[j]]
  /\ due' = [j \in Jobs |-> j \in Stale \/ due[j]]
  /\ stale' = [j \in Jobs |-> j \notin Stale /\ stale[j]]
  /\ UNCHANGED created

\* reap_stale: every stale row back to pending, or to failed when its
\* attempts are used up; due at once.
ReapRows ==
  /\ status' = [j \in Jobs |->
                  IF j \notin Stale THEN status[j]
                  ELSE IF attempts[j] >= MaxAttempts(j) THEN "failed"
                  ELSE "pending"]
  /\ due' = [j \in Jobs |-> j \in Stale \/ due[j]]
  /\ stale' = [j \in Jobs |-> j \notin Stale /\ stale[j]]
  /\ UNCHANGED <<attempts, created>>

\* _finish on a row its claim still owns.
FinishRow(j, s, n, d) ==
  /\ status' = [status EXCEPT ![j] = s]
  /\ attempts' = [attempts EXCEPT ![j] = n]
  /\ due' = [due EXCEPT ![j] = d]
  /\ stale' = [stale EXCEPT ![j] = FALSE]
  /\ UNCHANGED created

Goto(w, stage) == pc' = [pc EXCEPT ![w] = stage]

\* The pass is over, and w's memory of it gone.  A worker that was told to
\* stop exits; what starts its next pass is a new process.
LeavePass(w) ==
  /\ Goto(w, "off")
  /\ job' = [job EXCEPT ![w] = NoJob]
  /\ claim' = [claim EXCEPT ![w] = 0]
  /\ stop' = [stop EXCEPT ![w] = FALSE]
  /\ active' = [active EXCEPT ![w] = FALSE]
  /\ left' = [left EXCEPT ![w] = 0]

\* Counts a crash, a signal or a deferral, at most MaxFaults of them.
Fault ==
  /\ faults < MaxFaults
  /\ faults' = faults + 1

-----------------------------------------------------------------------------
(* Requests, the crons and handlers: anyone who queues a job. *)

\* enqueue of a sync job by the Sync button or sync_cli --enqueue.
Enqueue(j) ==
  /\ Fresh(j)
  /\ Type[j] = "sync"
  /\ InsertRow(j)
  /\ UNCHANGED <<asked, workVars, faults, shared>>

\* _enqueue_once finds no pending or running job of the type and target.
CheckOnce(j) ==
  /\ Fresh(j)
  /\ Type[j] # Notify
  /\ ~\E k \in Jobs : Type[k] = Type[j] /\ Target[k] = Target[j] /\ Live(k)
  /\ asked' = asked \union {j}
  /\ UNCHANGED <<rowVars, workVars, faults, shared>>

\* ... and inserts it, in a later transaction.
EnqueueOnce(j) ==
  /\ j \in asked
  /\ InsertRow(j)
  /\ asked' = asked \ {j}
  /\ UNCHANGED <<workVars, faults, shared>>

-----------------------------------------------------------------------------
(* One pass of a worker: worker._drain around jobs.run_due. *)

\* A pass begins: the next interval of --loop, a cron, or a new process.
StartPass(w) ==
  /\ pc[w] = "off"
  /\ Goto(w, "clean")
  /\ UNCHANGED <<rowVars, asked, job, claim, stop, active, left, faults, shared>>

\* _drain reaps first.
CleanUp(w) ==
  /\ pc[w] = "clean"
  /\ ReapRows
  /\ Goto(w, "prune")
  /\ UNCHANGED <<asked, job, claim, stop, active, left, faults, shared>>

\* prune_finished: some finished rows are past their retention.
Prune(w) ==
  /\ pc[w] = "prune"
  /\ \E old \in SUBSET {j \in Jobs : status[j] \in {"completed", "failed"}} :
       status' = [j \in Jobs |-> IF j \in old THEN "deleted" ELSE status[j]]
  /\ Goto(w, "announce")
  /\ UNCHANGED <<attempts, created, due, stale, asked, job, claim, stop, active,
                 left, faults, shared>>

\* The pass's notify job, unless the unique index refuses it (or the ids
\* of the model are used up).
Announce(w) ==
  /\ pc[w] = "announce"
  /\ LET free == {j \in Jobs : Fresh(j) /\ Type[j] = Notify} IN
       IF NotifyQueued \/ free = {}
         THEN UNCHANGED rowVars
         ELSE \E j \in free : InsertRow(j)
  /\ IF stop[w]
       THEN LeavePass(w)
       ELSE Goto(w, "reap") /\ UNCHANGED <<job, claim, stop, active, left>>
  /\ UNCHANGED <<asked, faults, shared>>

\* run_due begins: it reaps, and whatever it reaped counts.
Reap(w) ==
  /\ pc[w] = "reap"
  /\ ReapRows
  /\ Goto(w, "poll")
  /\ active' = [active EXCEPT ![w] = Stale # {}]
  /\ left' = [left EXCEPT ![w] = Limit]
  /\ UNCHANGED <<asked, job, claim, stop, faults, shared>>

\* _claim_next: the SELECT finds the oldest claimable row and locks it.
Select(w) ==
  /\ pc[w] = "poll"
  /\ ~stop[w]
  /\ left[w] > 0
  /\ \E j \in Oldest(Claimable) : job' = [job EXCEPT ![w] = j]
  /\ Goto(w, "claiming")
  /\ left' = [left EXCEPT ![w] = left[w] - 1]
  /\ UNCHANGED <<rowVars, asked, claim, stop, active, faults, shared>>

\* _claim_next: the claim commits, and the row lock with it.  The commit
\* also expires the row in the session: w knows nothing of it any more.
Claim(w) ==
  /\ pc[w] = "claiming"
  /\ LET j == job[w] IN
       /\ status' = [status EXCEPT ![j] = "running"]
       /\ attempts' = [attempts EXCEPT ![j] = attempts[j] + 1]
       /\ stale' = [stale EXCEPT ![j] = FALSE]
       /\ claim' = [claim EXCEPT ![w] = attempts[j] + 1]
  /\ Goto(w, "committed")
  /\ UNCHANGED <<created, due, asked, job, stop, active, left, faults, shared>>

\* run_due reads the row again for its token: whatever attempts is now.  A
\* worker that stalls before it may have been reaped, and then reads what the
\* claims since have made of attempts; a pruned row is an error that ends the
\* pass.
ReadClaim(w) ==
  /\ pc[w] = "committed"
  /\ LET j == job[w] IN
       IF status[j] = "deleted"
         THEN LeavePass(w) /\ UNCHANGED shared
         ELSE /\ claim' = [claim EXCEPT ![w] = attempts[j]]
              /\ shared' = IF status[j] = "running" /\ attempts[j] # claim[w]
                             THEN shared \union {j}
                             ELSE shared
              /\ Goto(w, "claimed")
              /\ UNCHANGED <<job, stop, active, left>>
  /\ UNCHANGED <<rowVars, asked, faults>>

\* run_due returns: told to stop, out of claims, or nothing to claim.  The
\* pass goes on while its batches do something and no signal came.
EndBatch(w) ==
  /\ pc[w] = "poll"
  /\ stop[w] \/ left[w] = 0 \/ Claimable = {}
  /\ IF active[w] /\ ~stop[w]
       THEN Goto(w, "reap") /\ UNCHANGED <<job, claim, stop, active, left>>
       ELSE LeavePass(w)
  /\ UNCHANGED <<rowVars, asked, faults, shared>>

\* The handler starts, unless a signal landed during the claim.
StartHandler(w) ==
  /\ pc[w] = "claimed"
  /\ Goto(w, IF stop[w] THEN "shutdown" ELSE "handling")
  /\ UNCHANGED <<rowVars, asked, job, claim, stop, active, left, faults, shared>>

\* The heartbeat thread renews the lease of a claim that is still held.
Renew(w) ==
  /\ pc[w] = "handling"
  /\ Held(w)
  /\ stale[job[w]]
  /\ stale' = [stale EXCEPT ![job[w]] = FALSE]
  /\ UNCHANGED <<status, attempts, created, due, asked, workVars, faults, shared>>

\* The handler returns or raises an Exception.
EndHandler(w) ==
  /\ pc[w] = "handling"
  /\ \E outcome \in {"completed", "error"} : Goto(w, outcome)
  /\ UNCHANGED <<rowVars, asked, job, claim, stop, active, left, faults, shared>>

\* The pipeline handler finds another run of its source going.
DeferHandler(w) ==
  /\ pc[w] = "handling"
  /\ Type[job[w]] = "pipeline"
  /\ Fault
  /\ Goto(w, "deferred")
  /\ UNCHANGED <<rowVars, asked, job, claim, stop, active, left, shared>>

\* Mutant: a shutdown burns the attempt.
RecordUnrefunded(w) ==
  LET j == job[w]
      c == claim[w]
  IN  \/ pc[w] = "completed" /\ FinishRow(j, "completed", c, due[j])
      \/ pc[w] = "shutdown"  /\ FinishRow(j, "pending", c, TRUE)
      \/ pc[w] = "deferred"  /\ FinishRow(j, "pending", c - 1, FALSE)
      \/ /\ pc[w] = "error"
         /\ IF c >= MaxAttempts(j)
              THEN FinishRow(j, "failed", c, due[j])
              ELSE FinishRow(j, "pending", c, FALSE)

\* Mutant: a failed attempt is refunded, so no attempt is the last.
RecordRefundingErrors(w) ==
  LET j == job[w]
      c == claim[w]
  IN  \/ pc[w] = "completed" /\ FinishRow(j, "completed", c, due[j])
      \/ pc[w] \in {"shutdown", "deferred", "error"} /\
           FinishRow(j, "pending", c - 1, pc[w] = "shutdown")

\* run_due's except clauses: what becomes of the row, by outcome.
RecordOutcome(w) ==
  LET j == job[w]
      c == claim[w]
  IN  \/ pc[w] = "completed" /\ FinishRow(j, "completed", c, due[j])
      \/ pc[w] = "shutdown"  /\ FinishRow(j, "pending", c - 1, TRUE)
      \/ pc[w] = "deferred"  /\ FinishRow(j, "pending", c - 1, FALSE)
      \/ /\ pc[w] = "error"
         /\ IF c >= MaxAttempts(j)
              THEN FinishRow(j, "failed", c, due[j])
              ELSE FinishRow(j, "pending", c, FALSE)

\* _finish: the outcome is recorded if the claim still owns the job, and
\* lost otherwise.  Shutdown is raised again and ends the process.
Finish(w) ==
  /\ pc[w] \in Outcomes
  /\ IF Held(w) THEN RecordOutcome(w) ELSE UNCHANGED rowVars
  /\ IF pc[w] = "shutdown"
       THEN LeavePass(w)
       ELSE /\ Goto(w, "poll")
            /\ job' = [job EXCEPT ![w] = NoJob]
            /\ claim' = [claim EXCEPT ![w] = 0]
            /\ active' = [active EXCEPT ![w] = TRUE]
            /\ UNCHANGED <<stop, left>>
  /\ UNCHANGED <<asked, faults, shared>>

-----------------------------------------------------------------------------
(* Signals, crashes and time. *)

\* _request_stop: SIGTERM.  Inside a handler it raises Shutdown there.
Signal(w) ==
  /\ pc[w] # "off"
  /\ ~stop[w]
  /\ Fault
  /\ stop' = [stop EXCEPT ![w] = TRUE]
  /\ Goto(w, IF pc[w] = "handling" THEN "shutdown" ELSE pc[w])
  /\ UNCHANGED <<rowVars, asked, job, claim, active, left, shared>>

\* The process dies, or a database error ends its pass: the row lock goes,
\* a committed claim stays.
Crash(w) ==
  /\ pc[w] # "off"
  /\ Fault
  /\ LeavePass(w)
  /\ UNCHANGED <<rowVars, asked, shared>>

\* available_at passes.
BecomeDue(j) ==
  /\ status[j] = "pending"
  /\ ~due[j]
  /\ due' = [due EXCEPT ![j] = TRUE]
  /\ UNCHANGED <<status, attempts, created, stale, asked, workVars, faults, shared>>

\* RUNNING_TIMEOUT passes since the last claim or beat: the worker is dead,
\* or alive but stalled or cut off from the database.
GoStale(j) ==
  /\ status[j] = "running"
  /\ ~stale[j]
  /\ stale' = [stale EXCEPT ![j] = TRUE]
  /\ UNCHANGED <<status, attempts, created, due, asked, workVars, faults, shared>>

-----------------------------------------------------------------------------
\* A worker's own steps; it always has one while it is in a pass.
Work(w) ==
  \/ CleanUp(w) \/ Prune(w) \/ Announce(w) \/ Reap(w)
  \/ Select(w) \/ Claim(w) \/ ReadClaim(w) \/ EndBatch(w)
  \/ StartHandler(w) \/ EndHandler(w) \/ Finish(w)

Next ==
  \/ \E j \in Jobs : Enqueue(j) \/ CheckOnce(j) \/ EnqueueOnce(j)
  \/ \E w \in Workers : StartPass(w) \/ Work(w) \/ Renew(w) \/ DeferHandler(w)
  \/ \E w \in Workers : Signal(w) \/ Crash(w)
  \/ \E j \in Jobs : BecomeDue(j) \/ GoStale(j)

Spec == Init /\ [][Next]_vars

\* Nobody who can conclude the job is left.
Orphaned(j) ==
  /\ status[j] = "running"
  /\ ~\E w \in Workers : Held(w) /\ job[w] = j

\* Workers run and are restarted, handlers return, and time passes.
Fairness ==
  /\ \A w \in Workers : WF_vars(StartPass(w)) /\ WF_vars(Work(w))
  /\ \A j \in Jobs : WF_vars(BecomeDue(j)) /\ WF_vars(Orphaned(j) /\ GoStale(j))

FairSpec == Spec /\ Fairness

-----------------------------------------------------------------------------
(* Properties *)

\* Every variable has the shape the table's columns and the worker's locals
\* have (models.Job, run_due).
TypeOK ==
  /\ status \in [Jobs -> Statuses]
  /\ attempts \in [Jobs -> Nat]
  /\ created \in [Jobs -> Nat]
  /\ due \in [Jobs -> BOOLEAN]
  /\ stale \in [Jobs -> BOOLEAN]
  /\ asked \subseteq Jobs
  /\ pc \in [Workers -> Stages]
  /\ job \in [Workers -> Jobs \union {NoJob}]
  /\ claim \in [Workers -> Nat]
  /\ stop \in [Workers -> BOOLEAN]
  /\ active \in [Workers -> BOOLEAN]
  /\ left \in [Workers -> Nat]
  /\ faults \in Nat
  /\ shared \subseteq Jobs

\* However often a job is reaped, handed back and claimed again, at most one
\* worker's claim on it is live: attempts is a token although it is refunded.
\* The one exception is a worker that reads its token so late that it takes
\* up the claim of another (ReadClaim).
OneHolder ==
  \A v, w \in Workers :
    v # w /\ Held(v) /\ Held(w) /\ job[v] = job[w] => job[v] \in shared

\* A worker whose claim was reaped never holds the job again in that run,
\* whatever the workers after it do to attempts and whenever it reads its
\* token, unless it takes up the claim of another.
LostForGood ==
  [][\A w \in Workers :
       /\ HasClaim(w) /\ ~Held(w)
       /\ job'[w] = job[w] /\ job[w] \notin shared'
       => ~Held(w)']_vars

\* "a worker whose claim was reaped and re-taken can't record its result"
\* (the docstring of jobs.py): as it stands there, without an exception.
LostIsLost ==
  [][\A w \in Workers :
       HasClaim(w) /\ ~Held(w) /\ job'[w] = job[w] => ~Held(w)']_vars

\* No two live claims are on notify jobs, on the same row or on two: the
\* unique index and the token together keep a second sender from recording
\* its batch, also when the first one's job was reaped, failed and pruned,
\* and whenever it reads its token: a notify job has one attempt.
OneNotifyHolder ==
  \A v, w \in Workers :
    /\ v # w /\ Held(v) /\ Held(w)
    => ~(Type[job[v]] = Notify /\ Type[job[w]] = Notify)

\* A row that waits still has an attempt to spend, and a running one spends
\* one of its max_attempts: refunds and reaping never overdraw or strand it.
RetryBudget ==
  \A j \in Jobs :
    /\ status[j] = "pending" => attempts[j] < MaxAttempts(j)
    /\ status[j] = "running" => attempts[j] \in 1..MaxAttempts(j)

\* Two workers between SELECT ... FOR UPDATE and the commit of the claim hold
\* locks on different rows, and the locked row is still pending.
RowLocks ==
  \A w \in Workers : pc[w] = "claiming" =>
    /\ job[w] \in Jobs /\ status[job[w]] = "pending"
    /\ \A v \in Workers \ {w} : pc[v] = "claiming" => job[v] # job[w]

\* No token exceeds the attempts of its row, so the next one is new.
Tokens ==
  \A w \in Workers : HasClaim(w) =>
    /\ job[w] \in Jobs /\ status[job[w]] # "none"
    /\ job[w] \notin shared => claim[w] \in 1..attempts[job[w]]

\* A notify job is never claimed twice.
NotifyUnshared == \A j \in shared : Type[j] # Notify

\* An id that is still free has no attempts, and a caller that is about to
\* insert has a free one, not for a notify job.
FreeIds ==
  /\ \A j \in Jobs : status[j] = "none" => attempts[j] = 0
  /\ \A j \in asked : status[j] = "none" /\ Type[j] # Notify

\* uq_jobs_active_notify.
OneNotifyLive ==
  \A j, k \in Jobs :
    Type[j] = Notify /\ Type[k] = Notify /\ Live(j) /\ Live(k) => j = k

\* Why the claims of jobs.py work: inductive, and implies the invariants
\* above.
IInv ==
  /\ TypeOK
  /\ RowLocks
  /\ Tokens
  /\ OneHolder
  /\ NotifyUnshared
  /\ FreeIds
  /\ OneNotifyLive
  /\ RetryBudget

\* The queue implements the ledger of JobLedger: a job is held by the workers
\* whose token matches, and a strike is an attempt that was not refunded.
Phases ==
  [none |-> "absent", pending |-> "queued", running |-> "taken",
   completed |-> "completed", failed |-> "failed", deleted |-> "forgotten"]

Strikes(s, n) ==
  CASE s = "deleted" -> 0
    [] s \in {"running", "completed"} -> n - 1
    [] OTHER -> n

phase == [j \in Jobs |-> Phases[status[j]]]
holder == [j \in Jobs |-> {w \in Workers : job[w] = j /\ Held(w)}]
strikes == [j \in Jobs |-> Strikes(status[j], attempts[j])]
Budget == [j \in Jobs |-> MaxAttempts(j)]

Ledger == INSTANCE JobLedger
  WITH Budget <- Budget, phase <- phase, holder <- holder, strikes <- strikes

ImplementsLedger == Ledger!Spec

\* Nothing is silently dropped: a job that waits is run to its end, or
\* fails, whichever workers crash or are stopped on the way.
EveryJobSettles ==
  \A j \in Jobs :
    status[j] = "pending" ~> status[j] \in {"completed", "failed", "deleted"}

\* A pass ends although failing jobs come back ("this terminates").
EveryPassEnds == \A w \in Workers : pc[w] # "off" ~> pc[w] = "off"
=============================================================================
