--------------------------- MODULE PipelineRunsProofs ---------------------------
(***************************************************************************)
(* The invariants of PipelineRuns, for every set of users, courses and     *)
(* processes.                                                              *)
(***************************************************************************)
EXTENDS PipelineRuns, SequenceTheorems, TLAPS

Jobs == [type : Types, user : Users]

WorkerPlaces ==
  {"off", "start", "sync", "ask", "enqueue", "try", "next", "work", "finish", "dead"}
CronPlaces == {"off", "try", "look", "want", "wait", "work"}

Locals ==
  [at : WorkerPlaces \union CronPlaces, type : Types, user : Users \union {Nobody},
   rest : SUBSET Courses, scope : SUBSET Courses, stage : Stages,
   todo : SUBSET Courses, seen : SUBSET Courses]

\* A worker that is not idle has a job; a cron lists nothing for itself.
Typed(p, f) ==
  /\ f \in Locals
  /\ p \in Workers => f.at \in WorkerPlaces /\ (f.at # "off" => f.user \in Users)
  /\ p \in Crons => f.at \in CronPlaces /\ f.seen = {}

\* Who runs has the lock, and who has the lock runs.
Locked(p, f) == f.at \in {"next", "work"} <=> lock = p

\* What is listed for a stage is at that stage.
AtItsStage(f) == f.at = "work" => \A c \in f.todo : progress[c] = f.stage

\* What a run saw and is done with is ready; what it is at has passed the
\* stages that are done.
Onward(f) ==
  /\ f.at \in {"try", "next", "work", "finish"} \/ f.seen = {}
  /\ \A c \in f.seen : progress[c] > 0
  /\ f.at = "try" => f.seen \subseteq f.rest
  /\ f.at = "next" => \A c \in f.seen \ f.rest : progress[c] = Ready
  /\ f.at = "work" =>
       \A c \in f.seen \ f.rest :
         IF c \in f.scope THEN c \in f.todo \/ progress[c] > f.stage
                          ELSE progress[c] = Ready
  /\ f.at = "finish" => \A c \in f.seen : progress[c] = Ready

Sound(p, f) == Typed(p, f) /\ Locked(p, f) /\ AtItsStage(f) /\ Onward(f)

\* The inductive invariant.
IInv ==
  /\ listed \subseteq Courses
  /\ progress \in [Courses -> 0..Ready]
  /\ queue \in Seq(Jobs)
  /\ lock \in Processes \union {Nobody}
  /\ upsets \in 0..MaxUpsets
  /\ proc \in [Processes -> Locals]
  /\ \A p \in Processes : Sound(p, proc[p])

LEMMA PlaceFacts ==
  /\ WorkerPlaces \subseteq WorkerPlaces \union CronPlaces
  /\ CronPlaces \subseteq WorkerPlaces \union CronPlaces
  /\ \A p \in Workers : p \notin Crons /\ p \in Processes /\ p # Nobody
  /\ \A p \in Crons : p \notin Workers /\ p \in Processes /\ p # Nobody
BY ProcessesAssumption, NobodyAssumption DEF Processes

LEMMA IdleIsSound ==
  ASSUME NEW p \in Processes
  PROVE  Typed(p, Off) /\ AtItsStage(Off) /\ Onward(Off) /\ (Locked(p, Off) <=> lock # p)
BY DEF Off, Typed, Locked, AtItsStage, Onward, Locals, WorkerPlaces, CronPlaces,
       Types, Stages

LEMMA InitIInv == Init => IInv
<1> SUFFICES ASSUME Init PROVE IInv
  OBVIOUS
<1>1. /\ listed \subseteq Courses
      /\ progress \in [Courses -> 0..Ready]
      /\ lock = Nobody /\ lock \in Processes \union {Nobody}
      /\ upsets \in 0..MaxUpsets
  BY BoundsAssumption DEF Init, Ready
<1>2. queue \in Seq(Jobs)
  BY DEF Init
<1>3. ASSUME NEW p \in Processes
      PROVE  proc[p] \in Locals /\ Sound(p, proc[p])
  <2>1. proc[p] = Off
    BY DEF Init
  <2>2. lock # p
    BY <1>1, NobodyAssumption
  <2>3. QED
    BY <2>1, <2>2, IdleIsSound DEF Sound, Typed
<1>4. proc \in [Processes -> Locals]
  <2>1. proc = [p \in Processes |-> Off]
    BY DEF Init
  <2>2. \A p \in Processes : Off \in Locals
    BY <1>3, <2>1
  <2>3. QED
    BY <2>1, <2>2
<1>5. QED
  BY <1>1, <1>2, <1>3, <1>4 DEF IInv

\* A process comes to have the locals f, which are sound, and the queue, the
\* courses and the count of upsets keep their types.
LEMMA StepKeeps ==
  ASSUME IInv, NEW p \in Processes, NEW f, Step(p, f), Sound(p, f),
         UNCHANGED <<progress, lock>>,
         listed' \subseteq Courses, queue' \in Seq(Jobs), upsets' \in 0..MaxUpsets
  PROVE  IInv'
<1>1. proc' = [proc EXCEPT ![p] = f] /\ f \in Locals
  BY DEF Step, Sound, Typed
<1>2. proc' \in [Processes -> Locals]
  BY <1>1 DEF IInv
<1>3. ASSUME NEW q \in Processes
      PROVE  Sound(q, proc[q])'
  <2>1. Sound(q, proc'[q])
    BY <1>1 DEF IInv
  <2>2. QED
    BY <2>1 DEF Sound, Typed, Locked, AtItsStage, Onward
<1>4. QED
  BY <1>2, <1>3 DEF IInv

\* Nobody who is not to work on course c minds that it advances: the holder of
\* the lock may advance it, and anyone may when it was not synced.
LEMMA AdvanceKeeps ==
  ASSUME IInv, NEW c \in Courses, NEW n \in 0..Ready, n >= progress[c],
         progress' = [progress EXCEPT ![c] = n],
         NEW q \in Processes, NEW f, Sound(q, f),
         n = progress[c] \/ progress[c] = 0 \/ lock # q \/ c \notin f.todo
  PROVE  AtItsStage(f)' /\ Onward(f)'
<1>1. /\ \A d \in Courses : progress[d] \in 0..Ready /\ progress'[d] \in 0..Ready
      /\ \A d \in Courses : progress'[d] >= progress[d]
      /\ \A d \in Courses \ {c} : progress'[d] = progress[d]
      /\ progress'[c] = n
  BY DEF IInv, Ready
<1>2. f.todo \subseteq Courses /\ f.seen \subseteq Courses /\ f.stage \in Stages
  BY DEF Sound, Typed, Locals
<1>3. AtItsStage(f)'
  <2> SUFFICES ASSUME f.at = "work", NEW d \in f.todo
               PROVE  progress'[d] = f.stage
    BY DEF AtItsStage
  <2>1. progress[d] = f.stage /\ lock = q
    BY DEF Sound, AtItsStage, Locked
  <2>2. QED
    BY <1>1, <1>2, <2>1 DEF Stages
<1>4. Onward(f)'
  BY <1>1, <1>2 DEF Sound, Onward, Stages, Ready
<1>5. QED
  BY <1>3, <1>4

\* A process that does not run moves on to a place where it does not run, and
\* keeps its job.
LEMMA MoveIsSound ==
  ASSUME IInv, NEW p \in Processes, proc[p].at \notin {"next", "work", "finish"},
         NEW place, place \notin {"try", "next", "work", "finish"},
         p \in Workers => place \in WorkerPlaces /\ proc[p].at \notin {"off", "try"},
         p \in Crons => place \in CronPlaces
  PROVE  Sound(p, [proc[p] EXCEPT !.at = place])
<1> DEFINE f == [proc[p] EXCEPT !.at = place]
<1>1. proc[p] \in Locals /\ Sound(p, proc[p]) /\ (p \in Workers \/ p \in Crons)
  BY DEF IInv, Processes
<1>2. /\ f.at = place /\ f.seen = proc[p].seen /\ f.user = proc[p].user
      /\ f \in Locals
  BY <1>1, PlaceFacts DEF Locals
<1>3. Typed(p, f)
  BY <1>1, <1>2 DEF Sound, Typed
<1>4. Locked(p, f) /\ AtItsStage(f)
  BY <1>1, <1>2 DEF Sound, Locked, AtItsStage
<1>5. Onward(f)
  BY <1>1, <1>2 DEF Sound, Typed, Onward
<1>6. QED
  BY <1>3, <1>4, <1>5 DEF Sound

\* A worker whose job is done, or a cron that gives up.
LEMMA RestKeeps ==
  ASSUME IInv, NEW p \in Processes, Step(p, Off), lock # p,
         UNCHANGED <<listed, progress, lock, upsets>>, queue' \in Seq(Jobs)
  PROVE  IInv'
<1>1. Sound(p, Off)
  BY IdleIsSound DEF Sound
<1>2. QED
  BY <1>1, StepKeeps DEF IInv

LEMMA JobFacts ==
  ASSUME IInv, NEW w \in Workers, proc[w].at # "off"
  PROVE  Job(proc[w].type, proc[w].user) \in Jobs /\ Job("pipeline", proc[w].user) \in Jobs
BY PlaceFacts DEF IInv, Sound, Typed, Locals, Job, Jobs, Types

\* What happens outside of the processes, and the steps that only move a
\* worker's job on.
LEMMA QuietStep ==
  ASSUME IInv,
         \/ Enrol \/ \E u \in Users : AskSync(u)
         \/ \E w \in Workers : Claim(w) \/ StartSync(w) \/ CheckChunks(w) \/ Ask(w)
                               \/ EnqueueFirst(w) \/ Defer(w) \/ Finish(w) \/ Reap(w)
  PROVE  IInv'
<1>1. CASE Enrol
  BY <1>1 DEF Enrol, IInv, Sound, Typed, Locked, AtItsStage, Onward
<1>2. ASSUME NEW u \in Users, AskSync(u)
      PROVE  IInv'
  <2>1. Job("sync", u) \in Jobs
    BY DEF Job, Jobs, Types
  <2>2. queue' \in Seq(Jobs)
    BY <1>2, <2>1 DEF AskSync, Enqueue, IInv
  <2>3. QED
    BY <1>2, <2>2 DEF AskSync, IInv, Sound, Typed, Locked, AtItsStage, Onward
<1>3. ASSUME NEW w \in Workers, Claim(w)
      PROVE  IInv'
  <2> DEFINE f == [Off EXCEPT !.at = "start", !.type = Head(queue).type,
                              !.user = Head(queue).user]
  <2>1. Head(queue) \in Jobs /\ Tail(queue) \in Seq(Jobs)
    BY <1>3 DEF Claim, IInv
  <2>2. lock # w
    BY <1>3, PlaceFacts DEF Claim, IInv, Sound, Locked
  <2>3. f \in Locals /\ f.at = "start" /\ f.seen = {} /\ f.user \in Users
    <3>1. Head(queue).type \in Types /\ Head(queue).user \in Users
      BY <2>1 DEF Jobs
    <3>2. "start" \in WorkerPlaces /\ 1 \in Stages
      BY DEF WorkerPlaces, Stages
    <3>3. QED
      BY <3>1, <3>2 DEF Off, Locals
  <2>4. Sound(w, f)
    BY <2>2, <2>3, PlaceFacts
       DEF Sound, Typed, Locked, AtItsStage, Onward, WorkerPlaces
  <2>5. Step(w, f) /\ queue' \in Seq(Jobs) /\ UNCHANGED <<listed, progress, lock, upsets>>
    BY <1>3, <2>1 DEF Claim
  <2>6. QED
    BY <2>4, <2>5, StepKeeps, PlaceFacts DEF IInv
<1>4. ASSUME NEW w \in Workers, StartSync(w)
      PROVE  IInv'
  <2> DEFINE f == [proc[w] EXCEPT !.at = "sync", !.rest = listed \intersect Mine(proc[w].user)]
  <2>1. Sound(w, proc[w]) /\ proc[w] \in Locals
    BY PlaceFacts DEF IInv
  <2>2. f \in Locals /\ f.at = "sync" /\ f.seen = {} /\ f.user \in Users
    BY <1>4, <2>1, PlaceFacts
       DEF StartSync, Sound, Typed, Onward, Locals, WorkerPlaces, IInv, Mine
  <2>3. Sound(w, f)
    BY <1>4, <2>1, <2>2, PlaceFacts
       DEF StartSync, Sound, Typed, Locked, AtItsStage, Onward, WorkerPlaces
  <2>4. QED
    BY <1>4, <2>3, StepKeeps, PlaceFacts DEF StartSync, IInv
<1>5. ASSUME NEW w \in Workers, CheckChunks(w) \/ Ask(w)
      PROVE  IInv'
  <2>1. lock # w /\ proc[w].at \in {"sync", "ask"}
    BY <1>5, PlaceFacts DEF CheckChunks, Ask, IInv, Sound, Locked
  <2>2. Step(w, Off) \/ \E place \in {"ask", "enqueue"} : At(w, place)
    BY <1>5 DEF CheckChunks, Ask
  <2>3. UNCHANGED <<listed, progress, queue, lock, upsets>>
    BY <1>5 DEF CheckChunks, Ask
  <2>4. ASSUME NEW place \in {"ask", "enqueue"}, At(w, place)
        PROVE  IInv'
    <3>1. Sound(w, [proc[w] EXCEPT !.at = place])
      BY <2>1, MoveIsSound, PlaceFacts DEF WorkerPlaces
    <3>2. QED
      BY <2>3, <2>4, <3>1, StepKeeps, PlaceFacts DEF At, IInv
  <2>5. QED
    BY <2>1, <2>2, <2>3, <2>4, RestKeeps, PlaceFacts DEF IInv
<1>6. ASSUME NEW w \in Workers, EnqueueFirst(w) \/ Defer(w) \/ Finish(w) \/ Reap(w)
      PROVE  IInv'
  <2>1. lock # w /\ proc[w].at # "off"
    BY <1>6, PlaceFacts DEF EnqueueFirst, Defer, Finish, Reap, IInv, Sound, Locked
  <2>2. queue' \in Seq(Jobs)
    <3>1. /\ Job(proc[w].type, proc[w].user) \in Jobs
          /\ Job("pipeline", proc[w].user) \in Jobs
          /\ queue \in Seq(Jobs)
      BY <2>1, JobFacts DEF IInv
    <3>2. CASE Reap(w)
      BY <3>1, <3>2, ConcatProperties DEF Reap
    <3>3. CASE EnqueueFirst(w) \/ Defer(w) \/ Finish(w)
      BY <3>1, <3>3, AppendProperties DEF EnqueueFirst, Defer, Finish, Enqueue
    <3>4. QED
      BY <1>6, <3>2, <3>3
  <2>3. QED
    BY <1>6, <2>1, <2>2, RestKeeps, PlaceFacts DEF EnqueueFirst, Defer, Finish, Reap
<1>7. QED
  BY <1>1, <1>2, <1>3, <1>4, <1>5, <1>6

\* A sync brings a course in that nobody works on.
LEMMA SyncStep == ASSUME IInv, NEW w \in Workers, SyncCourse(w) PROVE IInv'
<1>1. PICK c \in proc[w].rest :
        /\ progress' = [progress EXCEPT ![c] = IF @ = 0 THEN 1 ELSE @]
        /\ Step(w, [proc[w] EXCEPT !.rest = @ \ {c}])
  BY DEF SyncCourse
<1> DEFINE f == [proc[w] EXCEPT !.rest = @ \ {c}]
           n == IF progress[c] = 0 THEN 1 ELSE progress[c]
<1>2. w \in Processes /\ proc[w] \in Locals /\ Sound(w, proc[w]) /\ proc[w].at = "sync"
  BY PlaceFacts DEF IInv, SyncCourse
<1>3. c \in Courses
  BY <1>2 DEF Locals
<1>4. /\ n \in 0..Ready /\ n >= progress[c] /\ (n = progress[c] \/ progress[c] = 0)
      /\ progress' = [progress EXCEPT ![c] = n]
  BY <1>1, <1>3 DEF IInv, Ready
<1>5. f \in Locals /\ f.at = "sync" /\ f.seen = {} /\ f.user = proc[w].user
  BY <1>2 DEF Locals, Sound, Onward
<1>6. Sound(w, f)
  BY <1>2, <1>5 DEF Sound, Typed, Locked, AtItsStage, Onward
<1>7. proc' = [proc EXCEPT ![w] = f] /\ UNCHANGED <<listed, queue, lock, upsets>>
  BY <1>1 DEF SyncCourse, Step
<1>8. ASSUME NEW q \in Processes
      PROVE  Sound(q, proc[q])'
  <2>1. proc'[q] = (IF q = w THEN f ELSE proc[q]) /\ Sound(q, proc'[q])
    BY <1>2, <1>6, <1>7 DEF IInv
  <2>2. AtItsStage(proc[q])' /\ Onward(proc[q])'
    <3>1. CASE q = w
      <4>1. proc'[q].at = "sync" /\ proc'[q].seen = {}
        BY <1>5, <2>1, <3>1
      <4>2. QED
        BY <4>1 DEF AtItsStage, Onward
    <3>2. CASE q # w
      <4>1. Sound(q, proc[q])
        BY DEF IInv
      <4>2. proc'[q] = proc[q]
        BY <2>1, <3>2
      <4>3. \A d \in Courses : d = c \/ progress'[d] = progress[d]
        BY <1>4 DEF IInv
      <4>4. QED
        BY <1>3, <1>4, <4>1, <4>2, <4>3, AdvanceKeeps DEF AtItsStage, Onward
    <3>3. QED
      BY <3>1, <3>2
  <2>3. Typed(q, proc[q])' /\ Locked(q, proc[q])'
    BY <1>7, <2>1 DEF Sound, Typed, Locked
  <2>4. QED
    BY <2>2, <2>3 DEF Sound
<1>9. progress' \in [Courses -> 0..Ready] /\ proc' \in [Processes -> Locals]
  BY <1>4, <1>5, <1>7 DEF IInv
<1>10. QED
  BY <1>7, <1>8, <1>9 DEF IInv

\* What a process has listed at the beginning of a stage.
LEMMA StageFacts ==
  ASSUME IInv, NEW f \in Locals, NEW scope \in SUBSET Courses, NEW n \in Stages,
         \A c \in f.seen : progress[c] > 0,
         \A c \in f.seen \ f.rest :
           IF c \in scope THEN progress[c] >= n ELSE progress[c] = Ready
  PROVE  /\ AtStage(f, scope, n) \in Locals
         /\ AtStage(f, scope, n).at = "work"
         /\ AtStage(f, scope, n).seen = f.seen
         /\ AtStage(f, scope, n).user = f.user
         /\ AtItsStage(AtStage(f, scope, n))
         /\ Onward(AtStage(f, scope, n))
<1> DEFINE g == AtStage(f, scope, n)
<1>1. Due(scope, n) \in SUBSET Courses
  BY DEF Due
<1>2. /\ g \in Locals /\ g.at = "work" /\ g.seen = f.seen /\ g.user = f.user
      /\ g.rest = f.rest /\ g.scope = scope /\ g.stage = n /\ g.todo = Due(scope, n)
  BY <1>1 DEF AtStage, Locals, WorkerPlaces
<1> HIDE DEF g
<1>3. AtItsStage(g)
  BY <1>2 DEF AtItsStage, Due
<1>4. Onward(g)
  <2> SUFFICES ASSUME NEW c \in f.seen \ f.rest, c \in scope
               PROVE  c \in Due(scope, n) \/ progress[c] > n
    BY <1>2 DEF Onward
  <2>1. progress[c] \in Nat /\ n \in Nat
    BY DEF IInv, Ready, Stages
  <2>2. QED
    BY <2>1 DEF Due
<1>5. QED
  BY <1>2, <1>3, <1>4 DEF g

\* The lock and the processes change, and each is sound by itself.
LEMMA LockKeeps ==
  ASSUME IInv, UNCHANGED <<listed, progress, queue>>, upsets' \in 0..MaxUpsets,
         lock' \in Processes \union {Nobody}, proc' \in [Processes -> Locals],
         \A q \in Processes :
           /\ Typed(q, proc'[q]) /\ AtItsStage(proc'[q]) /\ Onward(proc'[q])
           /\ proc'[q].at \in {"next", "work"} <=> lock' = q
  PROVE  IInv'
<1>1. ASSUME NEW q \in Processes
      PROVE  Sound(q, proc[q])'
  BY DEF Sound, Typed, Locked, AtItsStage, Onward
<1>2. QED
  BY <1>1 DEF IInv

\* A process gets the lock.
LEMMA LockTaken ==
  ASSUME IInv, NEW p \in Processes, NEW f, lock = Nobody, lock' = p,
         Step(p, f), Typed(p, f), AtItsStage(f), Onward(f), f.at \in {"next", "work"},
         UNCHANGED <<listed, progress, queue, upsets>>
  PROVE  IInv'
<1>1. proc' \in [Processes -> Locals]
  BY DEF IInv, Step, Typed
<1>2. ASSUME NEW q \in Processes
      PROVE  /\ Typed(q, proc'[q]) /\ AtItsStage(proc'[q]) /\ Onward(proc'[q])
             /\ proc'[q].at \in {"next", "work"} <=> lock' = q
  <2>1. proc'[q] = IF q = p THEN f ELSE proc[q]
    BY DEF IInv, Step
  <2>2. Sound(q, proc[q]) /\ lock # q
    BY NobodyAssumption DEF IInv
  <2>3. QED
    BY <2>1, <2>2 DEF Sound, Locked
<1>3. QED
  BY <1>1, <1>2, LockKeeps DEF IInv

\* A process lets go of the lock, to a cron that waits for it or to nobody.
LEMMA LockReleased ==
  ASSUME IInv, NEW p \in Processes, NEW g, lock = p,
         Typed(p, g), AtItsStage(g), Onward(g), g.at \notin {"next", "work", "wait"},
         Unlock([proc EXCEPT ![p] = g]),
         UNCHANGED <<listed, progress, queue>>, upsets' \in 0..MaxUpsets
  PROVE  IInv'
<1>1. CASE Waiting = {}
  <2>1. lock' = Nobody /\ proc' = [proc EXCEPT ![p] = g]
    BY <1>1 DEF Unlock
  <2>2. proc' \in [Processes -> Locals]
    BY <2>1 DEF IInv, Typed
  <2>3. ASSUME NEW q \in Processes
        PROVE  /\ Typed(q, proc'[q]) /\ AtItsStage(proc'[q]) /\ Onward(proc'[q])
               /\ proc'[q].at \in {"next", "work"} <=> lock' = q
    <3>1. proc'[q] = IF q = p THEN g ELSE proc[q]
      BY <2>1 DEF IInv
    <3>2. Sound(q, proc[q]) /\ lock' # q
      BY <2>1, NobodyAssumption DEF IInv
    <3>3. QED
      BY <3>1, <3>2 DEF Sound, Locked
  <2>4. QED
    BY <2>1, <2>2, <2>3, LockKeeps DEF IInv
<1>2. CASE Waiting # {}
  <2>1. PICK c \in Waiting :
          /\ lock' = c
          /\ proc' = [[proc EXCEPT ![p] = g] EXCEPT ![c] = AtStage(@, Courses, 1)]
    BY <1>2 DEF Unlock
  <2>2. c \in Crons /\ c \in Processes /\ proc[c].at = "wait" /\ Sound(c, proc[c])
    BY PlaceFacts DEF Waiting, IInv
  <2>3. c # p
    BY <2>2 DEF Sound, Locked
  <2> DEFINE f == AtStage(proc[c], Courses, 1)
  <2>4. proc' = [proc EXCEPT ![p] = g, ![c] = f]
    BY <2>1, <2>2, <2>3 DEF IInv
  <2>5. f \in Locals /\ f.at = "work" /\ f.seen = {} /\ AtItsStage(f) /\ Onward(f)
    <3>1. proc[c] \in Locals /\ proc[c].seen = {}
      BY <2>2 DEF Sound, Typed
    <3>2. 1 \in Stages
      BY DEF Stages
    <3>3. QED
      BY <3>1, <3>2, StageFacts
  <2>6. Typed(c, f)
    BY <2>2, <2>5, PlaceFacts DEF Typed, CronPlaces
  <2> HIDE DEF f
  <2>7. proc' \in [Processes -> Locals]
    BY <2>4, <2>5 DEF IInv, Typed
  <2>8. ASSUME NEW q \in Processes
        PROVE  /\ Typed(q, proc'[q]) /\ AtItsStage(proc'[q]) /\ Onward(proc'[q])
               /\ proc'[q].at \in {"next", "work"} <=> lock' = q
    <3>1. proc'[q] = IF q = c THEN f ELSE IF q = p THEN g ELSE proc[q]
      BY <2>2, <2>3, <2>4 DEF IInv
    <3>2. Sound(q, proc[q])
      BY DEF IInv
    <3>3. QED
      BY <2>1, <2>3, <2>5, <2>6, <3>1, <3>2 DEF Sound, Locked
  <2>9. QED
    BY <2>1, <2>2, <2>7, <2>8, LockKeeps DEF IInv
<1>3. QED
  BY <1>1, <1>2

\* A worker lists its courses, or gets the lock and takes one course after
\* another.
LEMMA RunStart ==
  ASSUME IInv, NEW w \in Workers, ListCourses(w) \/ TryLock(w) \/ NextCourse(w)
  PROVE  IInv'
<1>1. w \in Processes /\ proc[w] \in Locals /\ Sound(w, proc[w])
  BY PlaceFacts DEF IInv
<1>2. CASE ListCourses(w)
  <2> DEFINE own == Synced \intersect Mine(proc[w].user)
             f == [proc[w] EXCEPT !.at = "try", !.rest = own, !.seen = own]
  <2>1. own \in SUBSET Courses /\ \A c \in own : progress[c] > 0
    BY DEF Mine, Synced
  <2> HIDE DEF own
  <2>2. /\ f \in Locals /\ f.at = "try" /\ f.seen = own /\ f.rest = own
        /\ f.user = proc[w].user
    BY <1>1, <2>1 DEF Locals, WorkerPlaces
  <2>3. Sound(w, f)
    BY <1>1, <1>2, <2>1, <2>2, PlaceFacts
       DEF ListCourses, Sound, Typed, Locked, AtItsStage, Onward, WorkerPlaces
  <2>4. Step(w, f) /\ UNCHANGED <<listed, progress, queue, lock, upsets>>
    BY <1>2 DEF ListCourses, own
  <2>5. QED
    BY <1>1, <2>3, <2>4, StepKeeps DEF IInv
<1>3. CASE TryLock(w)
  <2> DEFINE f == [proc[w] EXCEPT !.at = "next"]
  <2>1. f \in Locals /\ f.at = "next" /\ f.seen = proc[w].seen /\ f.rest = proc[w].rest
        /\ f.user = proc[w].user
    BY <1>1 DEF Locals, WorkerPlaces
  <2>2. Typed(w, f) /\ AtItsStage(f) /\ Onward(f)
    BY <1>1, <1>3, <2>1, PlaceFacts
       DEF TryLock, Sound, Typed, AtItsStage, Onward, WorkerPlaces
  <2>3. lock = Nobody /\ lock' = w /\ Step(w, f) /\ UNCHANGED <<listed, progress, queue, upsets>>
    BY <1>3 DEF TryLock, Free, At
  <2>4. QED
    BY <1>1, <2>1, <2>2, <2>3, LockTaken
<1>4. CASE NextCourse(w)
  <2>1. PICK c \in proc[w].rest :
          Step(w, AtStage([proc[w] EXCEPT !.rest = @ \ {c}], {c}, 1))
    BY <1>4 DEF NextCourse
  <2> DEFINE f == [proc[w] EXCEPT !.rest = @ \ {c}]
             g == AtStage(f, {c}, 1)
  <2>2. f \in Locals /\ f.seen = proc[w].seen /\ f.rest = proc[w].rest \ {c}
        /\ f.user = proc[w].user /\ {c} \in SUBSET Courses /\ 1 \in Stages
    BY <1>1 DEF Locals, Stages
  <2> HIDE DEF f
  <2>3. /\ \A d \in f.seen : progress[d] > 0
        /\ \A d \in f.seen \ f.rest :
             IF d \in {c} THEN progress[d] >= 1 ELSE progress[d] = Ready
    <3>1. \A d \in f.seen : d \in Courses /\ progress[d] \in Nat
      BY <2>2 DEF Locals, IInv, Ready
    <3>2. QED
      BY <1>1, <1>4, <2>2, <3>1 DEF NextCourse, Sound, Onward
  <2>4. g \in Locals /\ g.at = "work" /\ g.user = f.user /\ AtItsStage(g) /\ Onward(g)
    BY <2>2, <2>3, StageFacts
  <2> HIDE DEF g
  <2>5. Sound(w, g)
    BY <1>1, <1>4, <2>2, <2>4, PlaceFacts DEF NextCourse, Sound, Typed, Locked, WorkerPlaces
  <2>6. Step(w, g) /\ UNCHANGED <<listed, progress, queue, lock, upsets>>
    BY <1>4, <2>1 DEF NextCourse, f, g
  <2>7. QED
    BY <1>1, <2>5, <2>6, StepKeeps DEF IInv
<1>5. QED
  BY <1>2, <1>3, <1>4

\* A cron begins, and takes the lock or not.
LEMMA CronStart ==
  ASSUME IInv, NEW c \in Crons, StartCron(c) \/ TryCron(c) \/ Look(c) \/ Want(c)
  PROVE  IInv'
<1>1. /\ c \in Processes /\ proc[c] \in Locals /\ Sound(c, proc[c]) /\ proc[c].seen = {}
      /\ c \notin Workers
  BY PlaceFacts DEF IInv, Sound, Typed
<1>2. lock # c
  BY <1>1 DEF StartCron, TryCron, Look, Want, Sound, Locked
<1>3. CASE StartCron(c)
  <2> DEFINE f == [proc[c] EXCEPT !.at = "try"]
  <2>1. f \in Locals /\ f.at = "try" /\ f.seen = {}
    BY <1>1 DEF Locals, WorkerPlaces
  <2>2. Sound(c, f)
    BY <1>1, <1>2, <2>1 DEF Sound, Typed, Locked, AtItsStage, Onward, CronPlaces
  <2>3. QED
    BY <1>1, <1>3, <2>2, StepKeeps DEF StartCron, At, IInv
<1>4. ASSUME lock' = c, lock = Nobody, Step(c, AtStage(proc[c], Courses, 1)),
             UNCHANGED <<listed, progress, queue, upsets>>
      PROVE  IInv'
  <2> DEFINE f == AtStage(proc[c], Courses, 1)
  <2>1. 1 \in Stages
    BY DEF Stages
  <2>2. f \in Locals /\ f.at = "work" /\ f.seen = {} /\ AtItsStage(f) /\ Onward(f)
    BY <1>1, <2>1, StageFacts
  <2> HIDE DEF f
  <2>3. Typed(c, f)
    BY <1>1, <2>2 DEF Typed, CronPlaces
  <2>4. Step(c, f)
    BY <1>4 DEF f
  <2>5. QED
    BY <1>1, <1>4, <2>2, <2>3, <2>4, LockTaken
<1>5. ASSUME NEW place \in {"look", "want", "wait"}, At(c, place),
             proc[c].at \in {"try", "look", "want"},
             UNCHANGED <<listed, progress, queue, lock, upsets>>
      PROVE  IInv'
  <2>1. Sound(c, [proc[c] EXCEPT !.at = place])
    BY <1>1, <1>5, MoveIsSound DEF CronPlaces
  <2>2. QED
    BY <1>1, <1>5, <2>1, StepKeeps DEF At, IInv
<1>6. CASE TryCron(c)
  BY <1>4, <1>5, <1>6 DEF TryCron, Free
<1>7. CASE Look(c)
  <2>1. CASE Step(c, Off)
    BY <1>1, <1>2, <1>7, <2>1, RestKeeps DEF Look, IInv
  <2>2. CASE At(c, "want")
    BY <1>5, <1>7, <2>2 DEF Look
  <2>3. QED
    BY <1>7, <2>1, <2>2 DEF Look
<1>8. CASE Want(c)
  BY <1>4, <1>5, <1>8 DEF Want, Free
<1>9. QED
  BY <1>3, <1>6, <1>7, <1>8

\* A course passes the stage of the run that has it in hand.
LEMMA WorkStep == ASSUME IInv, NEW p \in Processes, Work(p) PROVE IInv'
<1>1. PICK c \in proc[p].todo :
        /\ progress' = [progress EXCEPT ![c] = @ + 1]
        /\ Step(p, [proc[p] EXCEPT !.todo = @ \ {c}])
  BY DEF Work
<1> DEFINE f == [proc[p] EXCEPT !.todo = @ \ {c}]
<1>2. proc[p] \in Locals /\ Sound(p, proc[p]) /\ proc[p].at = "work" /\ lock = p
  BY DEF Work, IInv, Sound, Locked
<1>3. c \in Courses /\ progress[c] = proc[p].stage /\ progress[c] \in 1..3
  BY <1>2 DEF Locals, Sound, AtItsStage, Stages
<1>4. /\ progress[c] + 1 \in 0..Ready
      /\ progress' = [progress EXCEPT ![c] = progress[c] + 1]
      /\ progress' \in [Courses -> 0..Ready]
      /\ \A d \in Courses : progress[d] \in Nat /\ progress'[d] >= progress[d]
      /\ \A d \in Courses \ {c} : progress'[d] = progress[d]
      /\ progress'[c] = progress[c] + 1
  BY <1>1, <1>3 DEF IInv, Ready
<1>5. /\ f \in Locals /\ f.at = "work" /\ f.todo = proc[p].todo \ {c}
      /\ f.seen = proc[p].seen /\ f.rest = proc[p].rest /\ f.scope = proc[p].scope
      /\ f.stage = proc[p].stage /\ f.user = proc[p].user
  BY <1>2 DEF Locals
<1>6. proc' = [proc EXCEPT ![p] = f] /\ UNCHANGED <<listed, queue, lock, upsets>>
  BY <1>1 DEF Work, Step
<1> HIDE DEF f
<1>7. Sound(p, proc[p])'
  <2>1. proc'[p] = f
    BY <1>6 DEF IInv
  <2>2. Typed(p, proc[p])' /\ Locked(p, proc[p])'
    BY <1>2, <1>5, <1>6, <2>1 DEF Sound, Typed, Locked
  <2>3. AtItsStage(proc[p])'
    <3>1. \A d \in f.todo : d \in Courses \ {c} /\ progress[d] = f.stage
      BY <1>2, <1>5 DEF Sound, AtItsStage, Locals
    <3>2. QED
      BY <1>4, <2>1, <3>1 DEF AtItsStage
  <2>4. Onward(proc[p])'
    <3>1. \A d \in f.seen : d \in Courses /\ progress[d] \in 0..Ready /\ progress'[d] \in 0..Ready
      BY <1>4, <1>5 DEF Locals, IInv
    <3>2. \A d \in f.seen : progress'[d] > 0
      BY <1>2, <1>4, <1>5, <3>1 DEF Sound, Onward
    <3>3. ASSUME NEW d \in f.seen \ f.rest
          PROVE  IF d \in f.scope THEN d \in f.todo \/ progress'[d] > f.stage
                                  ELSE progress'[d] = Ready
      <4>1. IF d \in f.scope THEN d \in proc[p].todo \/ progress[d] > f.stage
                             ELSE progress[d] = Ready
        BY <1>2, <1>5 DEF Sound, Onward
      <4>2. CASE d = c
        BY <1>3, <1>4, <1>5, <4>1, <4>2 DEF Ready
      <4>3. CASE d # c
        BY <1>4, <1>5, <3>1, <4>1, <4>3
      <4>4. QED
        BY <4>2, <4>3
    <3>4. QED
      BY <1>5, <2>1, <3>2, <3>3 DEF Onward
  <2>5. QED
    BY <2>2, <2>3, <2>4 DEF Sound
<1>8. ASSUME NEW q \in Processes \ {p}
      PROVE  Sound(q, proc[q])'
  <2>1. proc'[q] = proc[q] /\ Sound(q, proc[q])
    BY <1>6 DEF IInv
  <2>2. AtItsStage(proc[q])' /\ Onward(proc[q])'
    <3>1. PICK n \in 0..Ready : n = progress[c] + 1
      BY <1>4
    <3>2. /\ n >= progress[c] /\ progress' = [progress EXCEPT ![c] = n]
          /\ lock # q /\ q \in Processes
      BY <1>2, <1>3, <1>4, <3>1
    <3>3. QED
      BY <1>3, <2>1, <3>2, AdvanceKeeps DEF AtItsStage, Onward
  <2>3. QED
    BY <1>6, <2>1, <2>2 DEF Sound, Typed, Locked
<1>9. proc' \in [Processes -> Locals]
  BY <1>5, <1>6 DEF IInv
<1>10. QED
  BY <1>4, <1>6, <1>7, <1>8, <1>9 DEF IInv

\* The stage that p is at leaves the rest of its courses, or has none left.
LEMMA StageEnds ==
  ASSUME IInv, NEW p \in Processes, LeaveRest(p) \/ EndStage(p)
  PROVE  IInv'
<1>1. /\ proc[p] \in Locals /\ Sound(p, proc[p]) /\ proc[p].at = "work" /\ lock = p
      /\ UNCHANGED <<listed, progress, queue, lock>>
  BY DEF IInv, Sound, Locked, LeaveRest, EndStage
<1>2. CASE LeaveRest(p)
  <2>1. PICK rest \in {proc[p].rest, {}} :
          Step(p, [proc[p] EXCEPT !.todo = {}, !.rest = rest, !.seen = {}])
    BY <1>2 DEF LeaveRest
  <2> DEFINE f == [proc[p] EXCEPT !.todo = {}, !.rest = rest, !.seen = {}]
  <2>2. /\ f \in Locals /\ f.at = "work" /\ f.todo = {} /\ f.seen = {}
        /\ f.user = proc[p].user
    BY <1>1 DEF Locals
  <2>3. Sound(p, f)
    BY <1>1, <2>2 DEF Sound, Typed, Locked, AtItsStage, Onward
  <2>4. upsets' \in 0..MaxUpsets
    BY <1>2, BoundsAssumption DEF LeaveRest, Upset, IInv
  <2>5. QED
    BY <1>1, <2>1, <2>3, <2>4, StepKeeps DEF IInv
<1>3. CASE EndStage(p)
  <2> DEFINE n == proc[p].stage + 1
             g == AtStage(proc[p], proc[p].scope, n)
  <2>1. /\ n \in Stages /\ n > proc[p].stage /\ proc[p].scope \in SUBSET Courses
        /\ proc[p].stage \in Stages
    BY <1>1, <1>3 DEF EndStage, Locals, Stages
  <2>2. \A c \in proc[p].seen : c \in Courses /\ progress[c] \in 0..Ready /\ progress[c] > 0
    BY <1>1 DEF Locals, IInv, Sound, Onward
  <2>3. \A c \in proc[p].seen \ proc[p].rest :
          IF c \in proc[p].scope THEN progress[c] >= n ELSE progress[c] = Ready
    <3>1. \A c \in proc[p].seen \ proc[p].rest :
            IF c \in proc[p].scope THEN progress[c] > proc[p].stage ELSE progress[c] = Ready
      BY <1>1, <1>3 DEF EndStage, Sound, Onward
    <3>2. QED
      BY <2>1, <2>2, <3>1 DEF Stages, Ready
  <2>4. g \in Locals /\ g.at = "work" /\ g.seen = proc[p].seen /\ g.user = proc[p].user
        /\ AtItsStage(g) /\ Onward(g)
    BY <1>1, <2>1, <2>2, <2>3, StageFacts
  <2>5. Step(p, g) /\ UNCHANGED upsets
    BY <1>3 DEF EndStage
  <2> HIDE DEF n, g
  <2>6. Sound(p, g)
    BY <1>1, <2>4 DEF Sound, Typed, Locked
  <2>7. QED
    BY <1>1, <2>5, <2>6, StepKeeps DEF IInv
<1>4. QED
  BY <1>2, <1>3

\* A run is over: of a course, of a job or of a cron.
LEMMA RunEnds ==
  ASSUME IInv, NEW p \in Processes, EndCourse(p) \/ (p \in Workers /\ EndRun(p))
  PROVE  IInv'
<1>1. /\ proc[p] \in Locals /\ Sound(p, proc[p]) /\ lock = p
      /\ UNCHANGED <<listed, progress, queue, upsets>>
  BY DEF IInv, Sound, Locked, EndCourse, EndRun
<1>2. CASE EndCourse(p) /\ p \in Workers
  <2> DEFINE f == [proc[p] EXCEPT !.at = "next", !.scope = {}, !.stage = 1]
  <2>1. /\ f \in Locals /\ f.at = "next" /\ f.seen = proc[p].seen
        /\ f.rest = proc[p].rest /\ f.user = proc[p].user
    <3>1. "next" \in WorkerPlaces /\ 1 \in Stages
      BY DEF WorkerPlaces, Stages
    <3>2. QED
      BY <1>1, <3>1 DEF Locals
  <2>2. Onward(f)
    <3>1. \A c \in f.seen : c \in Courses /\ progress[c] \in 0..Ready
      BY <2>1 DEF Locals, IInv
    <3>2. \A c \in f.seen \ f.rest :
            IF c \in proc[p].scope THEN progress[c] > 3 ELSE progress[c] = Ready
      BY <1>1, <1>2, <2>1 DEF EndCourse, Sound, Onward
    <3>3. \A c \in f.seen \ f.rest : progress[c] = Ready
      BY <3>1, <3>2 DEF Ready
    <3>4. QED
      BY <1>1, <2>1, <3>3 DEF Sound, Onward
  <2>3. Sound(p, f)
    BY <1>1, <1>2, <2>1, <2>2, PlaceFacts
       DEF EndCourse, Sound, Typed, Locked, AtItsStage, WorkerPlaces
  <2>4. Step(p, f) /\ UNCHANGED lock
    BY <1>2 DEF EndCourse
  <2>5. QED
    BY <1>1, <2>3, <2>4, StepKeeps DEF IInv
<1>3. CASE EndCourse(p) /\ p \notin Workers
  <2>1. Unlock([proc EXCEPT ![p] = Off])
    BY <1>3 DEF EndCourse
  <2>2. Typed(p, Off) /\ AtItsStage(Off) /\ Onward(Off) /\ Off.at = "off"
    BY IdleIsSound DEF Off
  <2>3. QED
    BY <1>1, <2>1, <2>2, LockReleased DEF IInv
<1>4. CASE p \in Workers /\ EndRun(p)
  <2> DEFINE f == [proc[p] EXCEPT !.at = "finish"]
  <2>1. /\ f \in Locals /\ f.at = "finish" /\ f.seen = proc[p].seen
        /\ f.rest = proc[p].rest /\ f.user = proc[p].user
    BY <1>1 DEF Locals, WorkerPlaces
  <2>2. Typed(p, f) /\ AtItsStage(f) /\ Onward(f)
    BY <1>1, <1>4, <2>1, PlaceFacts
       DEF EndRun, Sound, Typed, AtItsStage, Onward, WorkerPlaces
  <2>3. Unlock([proc EXCEPT ![p] = f])
    BY <1>1, <1>4 DEF EndRun, IInv
  <2> HIDE DEF f
  <2>4. QED
    BY <1>1, <2>1, <2>2, <2>3, LockReleased DEF IInv
<1>5. QED
  BY <1>2, <1>3, <1>4

\* A process dies, and lets go of the lock if it has it.
LEMMA DieStep == ASSUME IInv, NEW p \in Processes, Die(p) PROVE IInv'
<1> DEFINE gone == IF p \in Crons THEN Off
                   ELSE [Off EXCEPT !.at = "dead", !.type = proc[p].type,
                                    !.user = proc[p].user]
<1>1. proc[p] \in Locals /\ Sound(p, proc[p]) /\ proc[p].at # "off"
  BY DEF IInv, Die
<1>2. UNCHANGED <<listed, progress, queue>> /\ upsets' \in 0..MaxUpsets
  BY BoundsAssumption DEF Die, Upset, IInv
<1>3. IF lock = p THEN Unlock([proc EXCEPT ![p] = gone])
      ELSE Step(p, gone) /\ UNCHANGED lock
  BY DEF Die
<1>4. Typed(p, gone) /\ gone.at \in {"off", "dead"} /\ gone.seen = {}
  <2>1. CASE p \in Crons
    BY <2>1, IdleIsSound DEF Off
  <2>2. CASE p \notin Crons
    <3>1. p \in Workers /\ proc[p].type \in Types /\ proc[p].user \in Users
      BY <1>1, <2>2 DEF Processes, Sound, Typed, Locals
    <3>2. "dead" \in WorkerPlaces /\ 1 \in Stages
      BY DEF WorkerPlaces, Stages
    <3>3. QED
      BY <2>2, <3>1, <3>2 DEF Off, Typed, Locals
  <2>3. QED
    BY <2>1, <2>2
<1> HIDE DEF gone
<1>5. AtItsStage(gone) /\ Onward(gone)
  BY <1>4 DEF AtItsStage, Onward
<1>6. CASE lock = p
  BY <1>2, <1>3, <1>4, <1>5, <1>6, LockReleased DEF IInv
<1>7. CASE lock # p
  <2>1. Sound(p, gone)
    BY <1>4, <1>5, <1>7 DEF Sound, Locked
  <2>2. QED
    BY <1>2, <1>3, <1>7, <2>1, StepKeeps DEF IInv
<1>8. QED
  BY <1>6, <1>7

-----------------------------------------------------------------------------
LEMMA StepIInv == IInv /\ [Next]_vars => IInv'
<1> SUFFICES ASSUME IInv, [Next]_vars
             PROVE  IInv'
  OBVIOUS
<1>1. CASE UNCHANGED vars
  BY <1>1 DEF vars, IInv, Sound, Typed, Locked, AtItsStage, Onward
<1>2. ASSUME NEW p \in Processes, RunStep(p)
      PROVE  IInv'
  BY <1>2, WorkStep, StageEnds, RunEnds DEF RunStep
<1>3. ASSUME NEW w \in Workers, Claim(w) \/ WorkerStep(w)
      PROVE  IInv'
  BY <1>2, <1>3, PlaceFacts, QuietStep, SyncStep, RunStart, RunEnds DEF WorkerStep
<1>4. ASSUME NEW c \in Crons, CronStep(c)
      PROVE  IInv'
  BY <1>2, <1>4, PlaceFacts, CronStart DEF CronStep
<1>5. ASSUME NEW p \in Processes, LeaveRest(p) \/ Die(p)
      PROVE  IInv'
  BY <1>5, StageEnds, DieStep
<1>6. QED
  BY <1>1, <1>3, <1>4, <1>5, QuietStep DEF Next

LEMMA Invariance == Spec => []IInv
<1>1. QED
  BY InitIInv, StepIInv, PTL DEF Spec

\* The processes of module PipelineRuns have their shapes, and only one that
\* runs has the lock (pipeline.single_run).
THEOREM TypeCorrect == Spec => []TypeOK
<1>1. IInv => TypeOK
  <2> SUFFICES ASSUME IInv PROVE TypeOK
    OBVIOUS
  <2>1. \A i \in DOMAIN queue : queue[i].type \in Types /\ queue[i].user \in Users
    <3>1. \A i \in DOMAIN queue : queue[i] \in Jobs
      BY DEF IInv
    <3>2. QED
      BY <3>1 DEF Jobs
  <2>2. lock # Nobody => proc[lock].at \in {"next", "work"}
    BY DEF IInv, Sound, Locked
  <2>3. QED
    BY <2>1, <2>2 DEF IInv, TypeOK
<1>2. QED
  BY <1>1, Invariance, PTL

\* The lock of a source keeps the stages of two runs apart: what a run has
\* listed is at that stage until the run itself is done with it, whatever
\* syncs, other runs, waiting crons and deaths come between (pipeline.run_course).
THEOREM StagesApart == Spec => []NothingTwice
<1>1. IInv => NothingTwice
  BY DEF IInv, Sound, AtItsStage, NothingTwice
<1>2. QED
  BY <1>1, Invariance, PTL

\* A pipeline job that no stage failed has brought all the courses that it
\* listed to their quizzes when it ends (jobs.run_pipeline_job).
THEOREM RunsComplete == Spec => []FirstRunComplete
<1>1. IInv => FirstRunComplete
  BY PlaceFacts DEF IInv, Sound, Onward, FirstRunComplete
<1>2. QED
  BY <1>1, Invariance, PTL
=============================================================================
