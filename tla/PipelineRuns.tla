------------------------------ MODULE PipelineRuns ------------------------------
(***************************************************************************)
(* Who runs the pipeline of one source, and when: the worker's sync and    *)
(* pipeline jobs (jobs.run_sync_job, run_pipeline_job), the daily cron     *)
(* (pipeline.main) and the advisory lock between them                      *)
(* (pipeline.single_run).  The claiming of jobs is module JobQueue, what a *)
(* stage does to one material is module Material; here a course is as far  *)
(* as the last stage all its materials have passed, and of the jobs table  *)
(* there are the jobs that wait, in the order in which they come due, and  *)
(* the one a worker has.                                                   *)
(***************************************************************************)
EXTENDS Integers, Sequences, FiniteSets

CONSTANTS
  Users,
  Courses,      \* ids of course rows
  Owner,        \* the user of each course
  Later,        \* courses their owner is enrolled in later
  Workers, Crons,
  Nobody,
  MaxQueued,    \* bound on the waiting syncs of one user
  MaxUpsets     \* bound on deaths of processes and stages that leave work

Processes == Workers \union Crons

ASSUME OwnerAssumption == Owner \in [Courses -> Users] /\ Later \subseteq Courses
ASSUME ProcessesAssumption == Workers \intersect Crons = {}
ASSUME NobodyAssumption == Nobody \notin Processes \union Users
ASSUME BoundsAssumption == MaxQueued \in Nat \ {0} /\ MaxUpsets \in Nat

VARIABLES
  listed,     \* courses the source lists
  progress,   \* 0 not synced, 1 synced, then the number of the next stage
  queue,      \* the pending jobs
  lock,       \* who holds the advisory lock of the source
  proc,       \* each process: the job it has, where in it, and its locals
  upsets

vars == <<listed, progress, queue, lock, proc, upsets>>

\* STAGES: extraction, chunking, quiz.
Stages == 1..3
Chunked == 3
Ready == 4
Types == {"sync", "pipeline"}

\* The courses are those still to sync, to run or, within a stage, to work on.
Off == [at |-> "off", type |-> "sync", user |-> Nobody, rest |-> {}, scope |-> {},
        stage |-> 1, todo |-> {}, seen |-> {}]

Mine(u) == {c \in Courses : Owner[c] = u}
Synced == {c \in Courses : progress[c] > 0}

Init ==
  /\ listed = Courses \ Later
  /\ progress = [c \in Courses |-> 0]
  /\ queue = <<>>
  /\ lock = Nobody
  /\ proc = [p \in Processes |-> Off]
  /\ upsets = 0

Step(p, f) == proc' = [proc EXCEPT ![p] = f]
At(p, stage) == Step(p, [proc[p] EXCEPT !.at = stage])
Upset == upsets < MaxUpsets /\ upsets' = upsets + 1

Job(t, u) == [type |-> t, user |-> u]
Enqueue(t, u) == queue' = Append(queue, Job(t, u))
Queued(t, u) == {i \in DOMAIN queue : queue[i] = Job(t, u)}

\* A job of a worker that died is running until it is reaped.
Running(t, u) == \E w \in Workers : proc[w].at # "off" /\ proc[w].type = t /\ proc[w].user = u

Waiting == {c \in Crons : proc[c].at = "wait"}

-----------------------------------------------------------------------------
(* A stage *)

\* Mutant: the stages in reverse, so that a course advances one stage a run.
DueReversed(scope, stage) == {c \in scope : progress[c] = Ready - stage}

\* What the stage's query returns.
Due(scope, stage) == {c \in scope : progress[c] = stage}

\* f at the stage of a run over the courses of scope.
AtStage(f, scope, stage) ==
  [f EXCEPT !.at = "work", !.scope = scope, !.stage = stage, !.todo = Due(scope, stage)]

-----------------------------------------------------------------------------
(* The lock *)

\* Mutant: the run goes on whether or not it got the lock.
FreeAlways(p) == TRUE

\* pg_try_advisory_lock succeeds.
Free(p) == lock = Nobody

\* Mutant: the lock is left to the connection, which the pool keeps.
UnlockByPool(f) == lock' = lock /\ proc' = f

\* The lock passes to a cron that blocks on it, which then runs; or is free.
Unlock(f) ==
  IF Waiting = {} THEN lock' = Nobody /\ proc' = f
  ELSE \E c \in Waiting :
         lock' = c /\ proc' = [f EXCEPT ![c] = AtStage(@, Courses, 1)]

-----------------------------------------------------------------------------
(* The source, and who asks for syncs *)

Enrol ==
  /\ \E c \in Courses \ listed : listed' = listed \union {c}
  /\ UNCHANGED <<progress, queue, lock, proc, upsets>>

\* The sync cron (sync_cli --all-users --enqueue), a sign-in, the button.
AskSync(u) ==
  /\ Cardinality(Queued("sync", u)) < MaxQueued
  /\ Enqueue("sync", u)
  /\ UNCHANGED <<listed, progress, lock, proc, upsets>>

-----------------------------------------------------------------------------
(* A worker *)

Claim(w) ==
  /\ proc[w].at = "off" /\ queue # <<>>
  /\ queue' = Tail(queue)
  /\ Step(w, [Off EXCEPT !.at = "start", !.type = Head(queue).type, !.user = Head(queue).user])
  /\ UNCHANGED <<listed, progress, lock, upsets>>

\* sync_all: the courses the source lists, one after the other.
StartSync(w) ==
  /\ proc[w].at = "start" /\ proc[w].type = "sync"
  /\ Step(w, [proc[w] EXCEPT !.at = "sync", !.rest = listed \intersect Mine(proc[w].user)])
  /\ UNCHANGED <<listed, progress, queue, lock, upsets>>

SyncCourse(w) ==
  /\ proc[w].at = "sync"
  /\ \E c \in proc[w].rest :
       /\ progress' = [progress EXCEPT ![c] = IF @ = 0 THEN 1 ELSE @]
       /\ Step(w, [proc[w] EXCEPT !.rest = @ \ {c}])
  /\ UNCHANGED <<listed, queue, lock, upsets>>

HasChunks(u) == \E c \in Mine(u) : progress[c] >= Chunked

\* enqueue_first_pipeline, unless there are chunks, ...
CheckChunks(w) ==
  /\ proc[w].at = "sync" /\ proc[w].rest = {}
  /\ IF HasChunks(proc[w].user) THEN Step(w, Off) ELSE At(w, "ask")
  /\ UNCHANGED <<listed, progress, queue, lock, upsets>>

\* ... or such a job is queued or running.
Ask(w) ==
  /\ proc[w].at = "ask"
  /\ LET u == proc[w].user IN
       IF Queued("pipeline", u) # {} \/ Running("pipeline", u)
         THEN Step(w, Off)
         ELSE At(w, "enqueue")
  /\ UNCHANGED <<listed, progress, queue, lock, upsets>>

EnqueueFirst(w) ==
  /\ proc[w].at = "enqueue"
  /\ Enqueue("pipeline", proc[w].user)
  /\ Step(w, Off)
  /\ UNCHANGED <<listed, progress, lock, upsets>>

\* A pipeline job lists the user's courses before it asks for the lock.
ListCourses(w) ==
  /\ proc[w].at = "start" /\ proc[w].type = "pipeline"
  /\ LET own == Synced \intersect Mine(proc[w].user)
     IN Step(w, [proc[w] EXCEPT !.at = "try", !.rest = own, !.seen = own])
  /\ UNCHANGED <<listed, progress, queue, lock, upsets>>

TryLock(w) ==
  /\ w \in Workers /\ proc[w].at = "try" /\ Free(w)
  /\ lock' = w
  /\ At(w, "next")
  /\ UNCHANGED <<listed, progress, queue, upsets>>

\* The job goes back to the queue, due after those that wait now.
Defer(w) ==
  /\ w \in Workers /\ proc[w].at = "try" /\ ~Free(w)
  /\ Enqueue("pipeline", proc[w].user)
  /\ Step(w, Off)
  /\ UNCHANGED <<listed, progress, lock, upsets>>

NextCourse(w) ==
  /\ proc[w].at = "next"
  /\ \E c \in proc[w].rest :
       Step(w, AtStage([proc[w] EXCEPT !.rest = @ \ {c}], {c}, 1))
  /\ UNCHANGED <<listed, progress, queue, lock, upsets>>

\* The lock is released before the job is recorded as completed.
EndRun(w) ==
  /\ proc[w].at = "next" /\ proc[w].rest = {}
  /\ Unlock([proc EXCEPT ![w].at = "finish"])
  /\ UNCHANGED <<listed, progress, queue, upsets>>

Finish(w) ==
  /\ proc[w].at = "finish"
  /\ Step(w, Off)
  /\ UNCHANGED <<listed, progress, queue, lock, upsets>>

\* A dead worker's job: back to the queue once its lease has lapsed.
Reap(w) ==
  /\ proc[w].at = "dead"
  /\ queue' = <<Job(proc[w].type, proc[w].user)>> \o queue
  /\ Step(w, Off)
  /\ UNCHANGED <<listed, progress, lock, upsets>>

-----------------------------------------------------------------------------
(* A cron: pipeline.main over every course of the source *)

StartCron(c) ==
  /\ proc[c].at = "off"
  /\ At(c, "try")
  /\ UNCHANGED <<listed, progress, queue, lock, upsets>>

TryCron(c) ==
  /\ c \in Crons /\ proc[c].at = "try"
  /\ IF Free(c)
       THEN lock' = c /\ Step(c, AtStage(proc[c], Courses, 1))
       ELSE At(c, "look") /\ UNCHANGED lock
  /\ UNCHANGED <<listed, progress, queue, upsets>>

\* pipeline_job_running: if so it will wait, otherwise another cron's run is
\* in progress and it exits.
Look(c) ==
  /\ proc[c].at = "look"
  /\ IF \E u \in Users : Running("pipeline", u) THEN At(c, "want") ELSE Step(c, Off)
  /\ UNCHANGED <<listed, progress, queue, lock, upsets>>

\* pg_advisory_lock takes the lock or blocks.
Want(c) ==
  /\ proc[c].at = "want"
  /\ IF Free(c)
       THEN lock' = c /\ Step(c, AtStage(proc[c], Courses, 1))
       ELSE At(c, "wait") /\ UNCHANGED lock
  /\ UNCHANGED <<listed, progress, queue, upsets>>

-----------------------------------------------------------------------------
(* run_course, for both *)

Work(p) ==
  /\ proc[p].at = "work"
  /\ \E c \in proc[p].todo :
       /\ progress' = [progress EXCEPT ![c] = @ + 1]
       /\ Step(p, [proc[p] EXCEPT !.todo = @ \ {c}])
  /\ UNCHANGED <<listed, queue, lock, upsets>>

\* The stage leaves the rest: they fail and back off, or the quota is used up,
\* after which a job takes no further course.
LeaveRest(p) ==
  /\ proc[p].at = "work" /\ proc[p].todo # {} /\ Upset
  /\ \E rest \in {proc[p].rest, {}} :
       Step(p, [proc[p] EXCEPT !.todo = {}, !.rest = rest, !.seen = {}])
  /\ UNCHANGED <<listed, progress, queue, lock>>

EndStage(p) ==
  /\ proc[p].at = "work" /\ proc[p].todo = {} /\ proc[p].stage < 3
  /\ Step(p, AtStage(proc[p], proc[p].scope, proc[p].stage + 1))
  /\ UNCHANGED <<listed, progress, queue, lock, upsets>>

EndCourse(p) ==
  /\ proc[p].at = "work" /\ proc[p].todo = {} /\ proc[p].stage = 3
  /\ IF p \in Workers
       THEN Step(p, [proc[p] EXCEPT !.at = "next", !.scope = {}, !.stage = 1]) /\ UNCHANGED lock
       ELSE Unlock([proc EXCEPT ![p] = Off])
  /\ UNCHANGED <<listed, progress, queue, upsets>>

\* The process dies, and its session and lock with it.
Die(p) ==
  /\ proc[p].at \notin {"off", "dead"} /\ Upset
  /\ LET gone == IF p \in Crons THEN Off
                 ELSE [Off EXCEPT !.at = "dead", !.type = proc[p].type, !.user = proc[p].user]
     IN IF lock = p THEN Unlock([proc EXCEPT ![p] = gone])
        ELSE Step(p, gone) /\ UNCHANGED lock
  /\ UNCHANGED <<listed, progress, queue>>

-----------------------------------------------------------------------------
RunStep(p) == Work(p) \/ EndStage(p) \/ EndCourse(p)

WorkerStep(w) ==
  \/ StartSync(w) \/ SyncCourse(w) \/ CheckChunks(w) \/ Ask(w) \/ EnqueueFirst(w)
  \/ ListCourses(w) \/ TryLock(w) \/ Defer(w) \/ NextCourse(w) \/ RunStep(w)
  \/ EndRun(w) \/ Finish(w) \/ Reap(w)

CronStep(c) == StartCron(c) \/ TryCron(c) \/ Look(c) \/ Want(c) \/ RunStep(c)

Next ==
  \/ Enrol
  \/ \E u \in Users : AskSync(u)
  \/ \E w \in Workers : Claim(w) \/ WorkerStep(w)
  \/ \E c \in Crons : CronStep(c)
  \/ \E p \in Processes : LeaveRest(p) \/ Die(p)

Spec == Init /\ [][Next]_vars

\* Syncs and cron runs come daily; workers go on.
FairSpec ==
  /\ Spec
  /\ \A w \in Workers : WF_vars(Claim(w) \/ WorkerStep(w))
  /\ \A c \in Crons : WF_vars(CronStep(c))
  /\ \A u \in Users : WF_vars(AskSync(u))

-----------------------------------------------------------------------------
(* Properties *)

\* The shape of the processes; only one that runs holds the lock.
TypeOK ==
  /\ listed \subseteq Courses
  /\ progress \in [Courses -> 0..Ready]
  /\ \A i \in DOMAIN queue : queue[i].type \in Types /\ queue[i].user \in Users
  /\ lock \in Processes \union {Nobody}
  /\ lock # Nobody => proc[lock].at \in {"next", "work"}
  /\ upsets \in 0..MaxUpsets

\* What a run has listed to work on no other run has worked on meanwhile: no
\* material is chunked or quizzed twice.
NothingTwice ==
  \A p \in Processes :
    proc[p].at = "work" => \A c \in proc[p].todo : progress[c] = proc[p].stage

\* A first run whose stages left nothing has brought every course that it listed
\* to its quizzes, also if it was deferred or others ran in between.
FirstRunComplete ==
  \A w \in Workers :
    proc[w].at = "finish" => \A c \in proc[w].seen : progress[c] = Ready

\* Every course that a user is enrolled in comes to have its quizzes, whatever
\* runs got in each other's way, gave up, waited or died.
PickedUp == <>[](\A c \in listed : progress[c] = Ready)
=============================================================================
