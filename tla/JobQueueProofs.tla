---------------------------- MODULE JobQueueProofs ----------------------------
(***************************************************************************)
(* The invariants of JobQueue, for every set of jobs and of workers, and   *)
(* for every number of attempts.                                           *)
(***************************************************************************)
EXTENDS JobQueue, FiniteSetTheorems, TLAPS

\* The stages named once, so that the steps below need not list them.
LEMMA StageFacts ==
  /\ PassStages \subseteq Stages /\ ClaimStages \subseteq Stages
  /\ Outcomes \subseteq ClaimStages /\ "claiming" \in Stages
  /\ {"committed", "claimed", "handling"} \subseteq ClaimStages
  /\ {"off", "clean", "prune", "announce", "reap", "poll"} \subseteq PassStages
  /\ PassStages \intersect ClaimStages = {}
  /\ "claiming" \notin ClaimStages /\ "claiming" \notin PassStages
BY DEF Stages, PassStages, ClaimStages, Outcomes

LEMMA OutcomeFacts ==
  /\ {"completed", "deferred", "error", "shutdown"} = Outcomes
  /\ "none" \in Statuses /\ "pending" \in Statuses /\ "running" \in Statuses
  /\ "completed" \in Statuses /\ "failed" \in Statuses /\ "deleted" \in Statuses
BY DEF Outcomes, Statuses

\* created_at's place in the order is a number: there are finitely many ids.
LEMMA CreatedIsNat ==
  Cardinality({k \in Jobs : status[k] # "none"}) \in Nat
<1>1. {k \in Jobs : status[k] # "none"} \subseteq Jobs
  OBVIOUS
<1>2. IsFiniteSet({k \in Jobs : status[k] # "none"})
  BY <1>1, JobsAssumption, FS_Subset
<1>3. QED
  BY <1>2, FS_CardinalityType

\* The budget of a job is positive.
LEMMA BudgetIsPositive ==
  ASSUME NEW j \in Jobs
  PROVE  MaxAttempts(j) \in Nat \ {0}
BY AttemptsAssumption DEF MaxAttempts

LEMMA InitIInv == Init => IInv
<1> SUFFICES ASSUME Init PROVE IInv
  OBVIOUS
<1>1. TypeOK
  BY StageFacts, OutcomeFacts DEF Init, TypeOK
<1>2. RowLocks /\ Tokens /\ FreeIds
  BY StageFacts DEF Init, RowLocks, Tokens, FreeIds, HasClaim
<1>3. OneNotifyLive /\ RetryBudget
  BY DEF Init, OneNotifyLive, RetryBudget, Live
<1>4. OneHolder /\ NotifyUnshared
  BY StageFacts DEF Init, OneHolder, NotifyUnshared, Held, HasClaim
<1>5. QED
  BY <1>1, <1>2, <1>3, <1>4 DEF IInv

\* A new row disturbs no lock and no token: nobody can know its id.
LEMMA InsertKeeps ==
  ASSUME IInv, NEW j \in Jobs, status[j] = "none", InsertRow(j),
         Type[j] = Notify => ~NotifyQueued,
         UNCHANGED <<pc, job, claim, shared>>
  PROVE  /\ status' \in [Jobs -> Statuses]
         /\ created' \in [Jobs -> Nat]
         /\ due' \in [Jobs -> BOOLEAN]
         /\ RowLocks' /\ Tokens' /\ OneNotifyLive' /\ RetryBudget'
         /\ OneHolder' /\ NotifyUnshared'
<1>1. /\ status' \in [Jobs -> Statuses]
      /\ created' \in [Jobs -> Nat]
      /\ due' \in [Jobs -> BOOLEAN]
  BY CreatedIsNat, OutcomeFacts DEF IInv, TypeOK, InsertRow
<1>2. RowLocks'
  BY DEF IInv, TypeOK, RowLocks, InsertRow
<1>3. Tokens'
  BY DEF IInv, TypeOK, Tokens, InsertRow, HasClaim, Live
<1>4. OneNotifyLive'
  BY DEF IInv, TypeOK, OneNotifyLive, InsertRow, NotifyQueued, Live
<1>5. RetryBudget'
  BY BudgetIsPositive DEF IInv, TypeOK, FreeIds, RetryBudget, InsertRow, MaxAttempts
<1>6. OneHolder' /\ NotifyUnshared'
  BY DEF IInv, TypeOK, Tokens, OneHolder, NotifyUnshared, Held, HasClaim, InsertRow
<1>7. QED
  BY <1>1, <1>2, <1>3, <1>4, <1>5, <1>6

\* Worker w only moves on to stage, without touching the table or taking a
\* job: what it still remembers of a job it knew before.
MovesTo(w, stage) ==
  /\ UNCHANGED <<rowVars, asked, shared>>
  /\ stage \in Stages
  /\ Goto(w, stage)
  /\ stage = "claiming" => pc[w] = "claiming"
  /\ stage \in ClaimStages => pc[w] \in ClaimStages
  /\ \/ UNCHANGED <<job, claim>>
     \/ /\ stage \notin ClaimStages /\ stage # "claiming"
        /\ job' = [job EXCEPT ![w] = NoJob]
        /\ claim' = [claim EXCEPT ![w] = 0]
  /\ stop' \in [Workers -> BOOLEAN]
  /\ active' \in [Workers -> BOOLEAN]
  /\ left' \in [Workers -> Nat]
  /\ faults' \in Nat

LEMMA MoveKeeps ==
  ASSUME IInv, NEW w \in Workers, NEW stage, MovesTo(w, stage)
  PROVE  IInv'
<1>1. TypeOK'
  <2>1. pc' \in [Workers -> Stages]
    BY DEF IInv, TypeOK, MovesTo, Goto
  <2>2. job' \in [Workers -> Jobs \union {NoJob}] /\ claim' \in [Workers -> Nat]
    BY DEF IInv, TypeOK, MovesTo
  <2>3. QED
    BY <2>1, <2>2 DEF IInv, TypeOK, MovesTo, rowVars
<1>2. RowLocks'
  BY StageFacts DEF IInv, TypeOK, RowLocks, MovesTo, Goto, rowVars
<1>3. Tokens'
  BY StageFacts DEF IInv, TypeOK, Tokens, HasClaim, Live, MovesTo, Goto, rowVars
<1>4. FreeIds' /\ OneNotifyLive' /\ RetryBudget'
  BY DEF IInv, FreeIds, OneNotifyLive, RetryBudget, Live, MovesTo, rowVars
<1>5. OneHolder' /\ NotifyUnshared'
  <2>1. ASSUME NEW v \in Workers, Held(v)'
        PROVE  Held(v) /\ job'[v] = job[v]
    BY <2>1, StageFacts DEF IInv, TypeOK, Held, HasClaim, MovesTo, Goto, rowVars
  <2>2. QED
    BY <2>1 DEF IInv, OneHolder, NotifyUnshared, MovesTo
<1>6. QED
  BY <1>1, <1>2, <1>3, <1>4, <1>5 DEF IInv

\* The actions that leave the table alone.
LEMMA QuietStep ==
  ASSUME IInv, NEW w \in Workers,
         \/ StartPass(w) \/ EndBatch(w) \/ StartHandler(w) \/ EndHandler(w)
         \/ DeferHandler(w) \/ Signal(w) \/ Crash(w)
  PROVE  IInv'
<1> SUFFICES \E stage : MovesTo(w, stage)
  BY MoveKeeps
<1> USE StageFacts, OutcomeFacts DEF IInv, TypeOK, MovesTo, LeavePass
<1>1. CASE StartPass(w)
  <2>1. MovesTo(w, "clean")
    BY <1>1 DEF StartPass
  <2>2. QED
    BY ONLY <2>1
<1>2. CASE EndBatch(w)
  <2>1. CASE active[w] /\ ~stop[w]
    <3>1. MovesTo(w, "reap")
      BY <1>2, <2>1 DEF EndBatch
    <3>2. QED
      BY ONLY <3>1
  <2>2. CASE ~(active[w] /\ ~stop[w])
    <3>1. LeavePass(w) /\ UNCHANGED <<rowVars, asked, faults, shared>>
      BY <1>2, <2>2 DEF EndBatch
    <3>2. MovesTo(w, "off")
      BY <3>1
    <3>3. QED
      BY ONLY <3>2
  <2>3. QED
    BY <2>1, <2>2
<1>3. CASE StartHandler(w)
  <2>1. MovesTo(w, "shutdown") \/ MovesTo(w, "handling")
    BY <1>3 DEF StartHandler
  <2>2. QED
    BY ONLY <2>1
<1>4. CASE EndHandler(w)
  <2>1. MovesTo(w, "completed") \/ MovesTo(w, "error")
    BY <1>4 DEF EndHandler
  <2>2. QED
    BY ONLY <2>1
<1>5. CASE DeferHandler(w)
  <2>1. MovesTo(w, "deferred")
    BY <1>5 DEF DeferHandler, Fault
  <2>2. QED
    BY ONLY <2>1
<1>6. CASE Signal(w)
  <2>1. pc[w] \in Stages
    OBVIOUS
  <2>2. MovesTo(w, "shutdown") \/ MovesTo(w, pc[w])
    BY <1>6, <2>1 DEF Signal, Fault
  <2>3. QED
    BY ONLY <2>2
<1>7. CASE Crash(w)
  <2>1. MovesTo(w, "off")
    BY <1>7 DEF Crash, Fault
  <2>2. QED
    BY ONLY <2>1
<1>8. QED
  BY <1>1, <1>2, <1>3, <1>4, <1>5, <1>6, <1>7

\* Whoever queues a job has a free id for it.
LEMMA EnqueueStep ==
  ASSUME IInv, NEW j \in Jobs, Enqueue(j) \/ CheckOnce(j) \/ EnqueueOnce(j)
  PROVE  IInv'
<1>1. CASE Enqueue(j)
  <2>1. status[j] = "none" /\ InsertRow(j) /\ Type[j] # Notify
    BY <1>1 DEF Enqueue, Fresh, Notify
  <2>2. UNCHANGED <<asked, pc, job, claim, stop, active, left, faults, shared>>
    BY <1>1 DEF Enqueue, workVars
  <2>3. TypeOK'
    BY <2>1, <2>2, InsertKeeps DEF IInv, TypeOK, InsertRow
  <2>4. FreeIds'
    BY <1>1, <2>2 DEF IInv, FreeIds, TypeOK, Enqueue, InsertRow, Fresh
  <2>5. QED
    BY <2>1, <2>2, <2>3, <2>4, InsertKeeps DEF IInv
<1>2. CASE CheckOnce(j)
  <2>1. TypeOK'
    BY <1>2 DEF IInv, TypeOK, CheckOnce, rowVars, workVars
  <2>2. FreeIds'
    BY <1>2 DEF IInv, FreeIds, CheckOnce, Fresh, rowVars
  <2>3. /\ RowLocks' /\ Tokens' /\ OneNotifyLive' /\ RetryBudget'
        /\ OneHolder' /\ NotifyUnshared'
    BY <1>2 DEF IInv, RowLocks, Tokens, OneNotifyLive, RetryBudget, CheckOnce,
                OneHolder, NotifyUnshared, Held, HasClaim, Live, rowVars, workVars
  <2>4. QED
    BY <2>1, <2>2, <2>3 DEF IInv
<1>3. CASE EnqueueOnce(j)
  <2>1. status[j] = "none" /\ InsertRow(j) /\ Type[j] # Notify
    BY <1>3 DEF EnqueueOnce, IInv, FreeIds
  <2>2. UNCHANGED <<pc, job, claim, stop, active, left, faults, shared>>
    BY <1>3 DEF EnqueueOnce, workVars
  <2>3. TypeOK'
    BY <1>3, <2>1, <2>2, InsertKeeps DEF IInv, TypeOK, InsertRow, EnqueueOnce
  <2>4. FreeIds'
    BY <1>3 DEF IInv, FreeIds, TypeOK, EnqueueOnce, InsertRow
  <2>5. QED
    BY <2>1, <2>2, <2>3, <2>4, InsertKeeps DEF IInv
<1>4. QED
  BY <1>1, <1>2, <1>3

\* The pass's notify job is the only one that is pending or running.
LEMMA AnnounceStep ==
  ASSUME IInv, NEW w \in Workers, Announce(w)
  PROVE  IInv'
<1> DEFINE New(j) == Fresh(j) /\ Type[j] = Notify /\ ~NotifyQueued /\ InsertRow(j)
<1>1. UNCHANGED rowVars \/ \E j \in Jobs : New(j)
  BY DEF Announce
\* the worker's side of the step
<1>2. /\ pc' \in [Workers -> Stages]
      /\ job' \in [Workers -> Jobs \union {NoJob}]
      /\ claim' \in [Workers -> Nat]
      /\ stop' \in [Workers -> BOOLEAN]
      /\ active' \in [Workers -> BOOLEAN]
      /\ left' \in [Workers -> Nat]
      /\ UNCHANGED <<asked, faults, shared>>
      /\ pc'[w] \notin ClaimStages /\ pc'[w] # "claiming"
      /\ \A v \in Workers \ {w} :
           pc'[v] = pc[v] /\ job'[v] = job[v] /\ claim'[v] = claim[v]
  <2>1. CASE stop[w]
    <3>1. LeavePass(w) /\ UNCHANGED <<asked, faults, shared>>
      BY <2>1 DEF Announce
    <3>2. QED
      BY <3>1, StageFacts DEF IInv, TypeOK, Goto, LeavePass
  <2>2. CASE ~stop[w]
    <3>1. Goto(w, "reap") /\ UNCHANGED <<job, claim, stop, active, left, asked, faults, shared>>
      BY <2>2 DEF Announce
    <3>2. QED
      BY <3>1, StageFacts DEF IInv, TypeOK, Goto
  <2>3. QED
    BY <2>1, <2>2
<1>3. CASE UNCHANGED rowVars
  <2>1. TypeOK'
    BY <1>2, <1>3 DEF IInv, TypeOK, rowVars
  <2>2. RowLocks' /\ Tokens'
    BY <1>2, <1>3 DEF IInv, RowLocks, Tokens, HasClaim, Live, rowVars
  <2>3. FreeIds' /\ OneNotifyLive' /\ RetryBudget'
    BY <1>2, <1>3 DEF IInv, FreeIds, OneNotifyLive, RetryBudget, Live, rowVars
  <2>4. OneHolder' /\ NotifyUnshared'
    BY <1>2, <1>3 DEF IInv, OneHolder, NotifyUnshared, Held, HasClaim, rowVars
  <2>5. QED
    BY <2>1, <2>2, <2>3, <2>4 DEF IInv
<1>4. CASE \E j \in Jobs : New(j)
  <2>1. PICK j \in Jobs : New(j)
    BY <1>4
  <2>2. TypeOK'
    BY <1>2, <2>1, CreatedIsNat, OutcomeFacts DEF IInv, TypeOK, InsertRow
  <2>3. RowLocks'
    BY <1>2, <2>1 DEF IInv, TypeOK, RowLocks, InsertRow, Fresh
  <2>4. Tokens'
    BY <1>2, <2>1 DEF IInv, TypeOK, Tokens, InsertRow, Fresh, HasClaim, Live
  <2>5. FreeIds'
    BY <1>2, <2>1 DEF IInv, TypeOK, FreeIds, InsertRow, Fresh
  <2>6. OneNotifyLive'
    BY <2>1 DEF IInv, TypeOK, OneNotifyLive, InsertRow, NotifyQueued, Live
  <2>7. RetryBudget'
    BY <2>1, BudgetIsPositive
       DEF IInv, TypeOK, FreeIds, RetryBudget, InsertRow, MaxAttempts, Fresh
  <2>8. OneHolder' /\ NotifyUnshared'
    BY <1>2, <2>1
       DEF IInv, TypeOK, Tokens, OneHolder, NotifyUnshared, Held, HasClaim, InsertRow, Fresh
  <2>9. QED
    BY <2>2, <2>3, <2>4, <2>5, <2>6, <2>7, <2>8 DEF IInv
<1>5. QED
  BY <1>1, <1>3, <1>4

\* The table changes without a claim: no row starts to run, none that is
\* pending leaves the queue, and what comes back to it has attempts left.
CalmRows ==
  /\ UNCHANGED <<attempts, asked, job, claim, shared>>
  /\ \A j \in Jobs :
       /\ status'[j] = "running" => status[j] = "running"
       /\ status[j] = "pending" => status'[j] = "pending"
       /\ status'[j] = "pending" /\ status[j] # "pending" =>
            status[j] = "running" /\ attempts[j] < MaxAttempts(j)
       /\ status'[j] = "none" <=> status[j] = "none"
  /\ \A v \in Workers :
       \/ pc'[v] = pc[v]
       \/ pc[v] \in PassStages /\ pc'[v] \in PassStages

LEMMA CalmKeeps ==
  ASSUME IInv, TypeOK', CalmRows
  PROVE  IInv'
<1>1. RowLocks'
  BY StageFacts DEF IInv, TypeOK, RowLocks, CalmRows
<1>2. Tokens'
  BY StageFacts DEF IInv, TypeOK, Tokens, HasClaim, Live, CalmRows
<1>3. FreeIds'
  BY DEF IInv, TypeOK, FreeIds, CalmRows
<1>4. OneNotifyLive'
  BY DEF IInv, OneNotifyLive, Live, CalmRows
<1>5. RetryBudget'
  BY DEF IInv, RetryBudget, MaxAttempts, CalmRows
<1>6. OneHolder' /\ NotifyUnshared'
  BY StageFacts DEF IInv, TypeOK, Tokens, OneHolder, NotifyUnshared, Held, HasClaim, CalmRows
<1>7. QED
  BY <1>1, <1>2, <1>3, <1>4, <1>5, <1>6 DEF IInv

\* What reaping does to one row.
LEMMA ReapRowsFacts ==
  ASSUME IInv, ReapRows, NEW j \in Jobs
  PROVE  /\ status'[j] \in Statuses
         /\ status'[j] # status[j] =>
              /\ status[j] = "running"
              /\ \/ status'[j] = "failed" /\ attempts[j] = MaxAttempts(j)
                 \/ status'[j] = "pending" /\ attempts[j] < MaxAttempts(j)
<1>1. status[j] \in Statuses /\ attempts[j] \in Nat /\ MaxAttempts(j) \in Nat
  BY BudgetIsPositive DEF IInv, TypeOK
<1>2. status[j] = "running" => attempts[j] <= MaxAttempts(j)
  BY <1>1 DEF IInv, RetryBudget
<1>3. CASE j \notin Stale
  BY <1>1, <1>3 DEF ReapRows
<1>4. CASE j \in Stale /\ attempts[j] >= MaxAttempts(j)
  BY <1>1, <1>2, <1>4, OutcomeFacts DEF ReapRows, Stale
<1>5. CASE j \in Stale /\ ~(attempts[j] >= MaxAttempts(j))
  BY <1>1, <1>5, OutcomeFacts DEF ReapRows, Stale
<1>6. QED
  BY <1>3, <1>4, <1>5

\* The steps of a pass that reap or prune, and those of time and heartbeats.
LEMMA CalmStep ==
  ASSUME IInv,
         \/ \E w \in Workers : CleanUp(w) \/ Prune(w) \/ Reap(w) \/ Renew(w)
         \/ \E j \in Jobs : BecomeDue(j) \/ GoStale(j)
  PROVE  IInv'
<1>1. ASSUME NEW w \in Workers, CleanUp(w) \/ Reap(w)
      PROVE  TypeOK' /\ CalmRows
  <2>1. ReapRows /\ (Goto(w, "prune") \/ Goto(w, "poll")) /\ pc[w] \in PassStages
    BY <1>1, StageFacts DEF CleanUp, Reap
  <2>2. UNCHANGED <<asked, job, claim, stop, faults, shared>>
    BY <1>1 DEF CleanUp, Reap
  <2>3. active' \in [Workers -> BOOLEAN] /\ left' \in [Workers -> Nat]
    BY <1>1, BoundsAssumption DEF CleanUp, Reap, IInv, TypeOK
  <2>4. /\ status' \in [Jobs -> Statuses]
        /\ due' \in [Jobs -> BOOLEAN]
        /\ stale' \in [Jobs -> BOOLEAN]
    BY <2>1, ReapRowsFacts DEF ReapRows, IInv, TypeOK
  <2>5. TypeOK'
    BY <2>1, <2>2, <2>3, <2>4, StageFacts DEF IInv, TypeOK, ReapRows, Goto
  <2>6. CalmRows
    BY <2>1, <2>2, ReapRowsFacts, StageFacts DEF IInv, TypeOK, CalmRows, ReapRows, Goto
  <2>7. QED
    BY <2>5, <2>6
<1>2. ASSUME NEW w \in Workers, Prune(w)
      PROVE  TypeOK' /\ CalmRows
  <2>1. PICK old \in SUBSET {j \in Jobs : status[j] \in {"completed", "failed"}} :
          status' = [j \in Jobs |-> IF j \in old THEN "deleted" ELSE status[j]]
    BY <1>2 DEF Prune
  <2>2. TypeOK'
    BY <1>2, <2>1, StageFacts, OutcomeFacts DEF IInv, TypeOK, Prune, Goto
  <2>3. CalmRows
    BY <1>2, <2>1, StageFacts DEF IInv, TypeOK, Prune, CalmRows, Goto
  <2>4. QED
    BY <2>2, <2>3
<1>3. ASSUME NEW w \in Workers, Renew(w)
      PROVE  TypeOK' /\ CalmRows
  BY <1>3 DEF IInv, TypeOK, Renew, CalmRows, workVars
<1>4. ASSUME NEW j \in Jobs, BecomeDue(j) \/ GoStale(j)
      PROVE  TypeOK' /\ CalmRows
  BY <1>4 DEF IInv, TypeOK, BecomeDue, GoStale, CalmRows, workVars
<1>5. QED
  BY <1>1, <1>2, <1>3, <1>4, CalmKeeps

\* A worker locks a row that is pending and that nobody else has locked.
LEMMA SelectStep ==
  ASSUME IInv, NEW w \in Workers, Select(w)
  PROVE  IInv'
<1>1. PICK j \in Claimable : job' = [job EXCEPT ![w] = j]
  BY DEF Select, Oldest
<1>2. j \in Jobs /\ status[j] = "pending" /\ ~Locked(j)
  BY <1>1 DEF Claimable
<1>3. TypeOK'
  <2>1. left'[w] \in Nat
    BY DEF Select, IInv, TypeOK
  <2>2. QED
    BY <1>1, <1>2, <2>1, StageFacts DEF Select, IInv, TypeOK, Goto, rowVars
<1>4. RowLocks'
  BY <1>1, <1>2 DEF Select, IInv, TypeOK, RowLocks, Locked, Goto, rowVars
<1>5. Tokens'
  BY <1>1, StageFacts DEF Select, IInv, TypeOK, Tokens, HasClaim, Live, Goto, rowVars
<1>6. FreeIds' /\ OneNotifyLive' /\ RetryBudget'
  BY DEF Select, IInv, FreeIds, OneNotifyLive, RetryBudget, Live, rowVars
<1>7. OneHolder' /\ NotifyUnshared'
  <2>1. ASSUME NEW v \in Workers, Held(v)'
        PROVE  Held(v) /\ job'[v] = job[v]
    BY <1>1, <2>1, StageFacts DEF Select, IInv, TypeOK, Held, HasClaim, Goto, rowVars
  <2>2. QED
    BY <2>1 DEF Select, IInv, OneHolder, NotifyUnshared
<1>8. QED
  BY <1>3, <1>4, <1>5, <1>6, <1>7 DEF IInv

\* A claim makes a token above all that are out.
LEMMA ClaimStep ==
  ASSUME IInv, NEW w \in Workers, Claim(w)
  PROVE  IInv'
<1> DEFINE j == job[w]
<1>1. /\ pc[w] = "claiming" /\ j \in Jobs /\ status[j] = "pending"
      /\ attempts[j] \in Nat /\ attempts[j] < MaxAttempts(j)
      /\ MaxAttempts(j) \in Nat
  BY BudgetIsPositive DEF Claim, IInv, TypeOK, RowLocks, RetryBudget
<1>2. /\ status' = [status EXCEPT ![j] = "running"]
      /\ attempts' = [attempts EXCEPT ![j] = attempts[j] + 1]
      /\ stale' = [stale EXCEPT ![j] = FALSE]
      /\ claim' = [claim EXCEPT ![w] = attempts[j] + 1]
      /\ pc' = [pc EXCEPT ![w] = "committed"]
      /\ UNCHANGED <<created, due, asked, job, stop, active, left, faults, shared>>
  BY DEF Claim, Goto
<1> HIDE DEF j
<1>3. TypeOK'
  BY <1>1, <1>2, StageFacts, OutcomeFacts DEF IInv, TypeOK
<1>4. RowLocks'
  BY <1>1, <1>2 DEF IInv, TypeOK, RowLocks, j
<1>5. \A v \in Workers \ {w} : HasClaim(v)' <=> HasClaim(v)
  BY <1>2 DEF HasClaim, IInv, TypeOK
<1>6. Tokens'
  <2>1. ASSUME NEW v \in Workers \ {w}, HasClaim(v)
        PROVE  /\ job'[v] \in Jobs /\ status'[job'[v]] # "none"
               /\ job'[v] \notin shared' => claim'[v] \in 1..attempts'[job'[v]]
    BY <1>1, <1>2, <2>1 DEF IInv, TypeOK, Tokens
  <2>2. /\ job'[w] \in Jobs /\ status'[job'[w]] # "none"
        /\ claim'[w] \in 1..attempts'[job'[w]]
    BY <1>1, <1>2 DEF IInv, TypeOK, j
  <2>3. QED
    BY <1>5, <2>1, <2>2 DEF Tokens
<1>7. OneHolder' /\ NotifyUnshared'
  <2>1. ASSUME NEW v \in Workers \ {w}, Held(v)', job'[v] = j, j \notin shared
        PROVE  FALSE
    <3>1. claim[v] <= attempts[j] /\ claim[v] \in Nat
      BY <1>1, <1>2, <1>5, <2>1 DEF IInv, TypeOK, Tokens, Held
    <3>2. QED
      BY <1>1, <1>2, <2>1, <3>1 DEF IInv, TypeOK, Held
  <2>2. ASSUME NEW v \in Workers \ {w}, Held(v)', job'[v] # j
        PROVE  Held(v) /\ job'[v] = job[v]
    BY <1>1, <1>2, <1>5, <2>2 DEF IInv, TypeOK, Tokens, Held
  <2>3. job'[w] = j
    BY <1>2 DEF j
  <2>4. OneHolder'
    <3> SUFFICES ASSUME NEW u \in Workers, NEW v \in Workers,
                        u # v, Held(u)', Held(v)', job'[u] = job'[v],
                        job'[u] \notin shared'
                 PROVE  FALSE
      BY DEF OneHolder
    <3>1. job'[u] # j
      BY <1>2, <2>1, <2>3
    <3>2. QED
      BY <1>2, <2>2, <2>3, <3>1 DEF IInv, OneHolder
  <2>5. QED
    BY <1>2, <2>4 DEF IInv, NotifyUnshared
<1>8. FreeIds'
  BY <1>1, <1>2 DEF IInv, TypeOK, FreeIds
<1>9. OneNotifyLive'
  BY <1>1, <1>2 DEF IInv, TypeOK, OneNotifyLive, Live
<1>10. RetryBudget'
  BY <1>1, <1>2 DEF IInv, TypeOK, RetryBudget, MaxAttempts
<1>11. QED
  BY <1>3, <1>4, <1>6, <1>7, <1>8, <1>9, <1>10 DEF IInv

\* A token that is read late is that of the claim that runs, and the job is
\* shared; or nobody runs the job.
LEMMA ReadClaimStep ==
  ASSUME IInv, NEW w \in Workers, ReadClaim(w)
  PROVE  IInv'
<1>1. PICK j \in Jobs : j = job[w]
  BY StageFacts DEF ReadClaim, IInv, Tokens, HasClaim
<1>2. /\ pc[w] = "committed" /\ HasClaim(w) /\ status[j] # "none"
      /\ j \notin shared => claim[w] \in 1..attempts[j]
      /\ attempts[j] \in Nat /\ claim[w] \in Nat
      /\ UNCHANGED <<rowVars, asked, faults>>
  BY <1>1, StageFacts DEF ReadClaim, IInv, TypeOK, Tokens, HasClaim
<1>3. CASE status[j] = "deleted"
  <2>1. LeavePass(w) /\ UNCHANGED shared
    BY <1>1, <1>3 DEF ReadClaim
  <2>2. MovesTo(w, "off")
    BY <1>2, <2>1, StageFacts DEF MovesTo, LeavePass, IInv, TypeOK
  <2>3. QED
    BY <2>2, MoveKeeps
<1>4. CASE status[j] # "deleted"
  <2>1. /\ claim' = [claim EXCEPT ![w] = attempts[j]]
        /\ shared' = IF status[j] = "running" /\ attempts[j] # claim[w]
                       THEN shared \union {j} ELSE shared
        /\ pc' = [pc EXCEPT ![w] = "claimed"]
        /\ UNCHANGED <<job, stop, active, left>>
    BY <1>1, <1>4 DEF ReadClaim, Goto
  <2>2. UNCHANGED <<status, attempts, created, due, stale>>
    BY <1>2 DEF rowVars
  <2>3. /\ HasClaim(w)'
        /\ \A v \in Workers \ {w} : /\ HasClaim(v)' <=> HasClaim(v)
                                      /\ claim'[v] = claim[v]
    BY <2>1, StageFacts DEF HasClaim, IInv, TypeOK
  <2>4. TypeOK'
    BY <1>2, <2>1, <2>2, StageFacts DEF IInv, TypeOK
  <2>5. RowLocks'
    BY <1>2, <2>1, <2>2 DEF IInv, TypeOK, RowLocks
  <2>6. Tokens'
    <3>1. ASSUME NEW v \in Workers \ {w}, HasClaim(v)
          PROVE  /\ job'[v] \in Jobs /\ status'[job'[v]] # "none"
                 /\ job'[v] \notin shared' => claim'[v] \in 1..attempts'[job'[v]]
      BY <2>1, <2>2, <2>3, <3>1 DEF IInv, Tokens
    <3>2. /\ job'[w] \in Jobs /\ status'[job'[w]] # "none"
          /\ job'[w] \notin shared' => claim'[w] \in 1..attempts'[job'[w]]
      BY <1>1, <1>2, <2>1, <2>2 DEF IInv, TypeOK
    <3>3. QED
      BY <2>3, <3>1, <3>2 DEF Tokens
  <2>7. OneHolder'
    <3>1. ASSUME NEW v \in Workers, Held(v)', job'[v] \notin shared'
          PROVE  Held(v) /\ job'[v] = job[v]
      <4>1. CASE v = w
        <5>1. job'[v] = j /\ status[j] = "running" /\ attempts[j] = claim[w]
          BY <1>1, <2>1, <2>2, <3>1, <4>1 DEF Held
        <5>2. QED
          BY <1>1, <1>2, <4>1, <5>1 DEF Held
      <4>2. CASE v # w
        BY <2>1, <2>2, <2>3, <3>1, <4>2 DEF Held
      <4>3. QED
        BY <4>1, <4>2
    <3>2. QED
      BY <2>1, <3>1 DEF IInv, OneHolder
  <2>8. NotifyUnshared'
    <3>1. ASSUME status[j] = "running", attempts[j] # claim[w], Type[j] = Notify
          PROVE  FALSE
      BY <1>2, <3>1 DEF IInv, RetryBudget, MaxAttempts, NotifyUnshared
    <3>2. QED
      BY <2>1, <3>1 DEF IInv, NotifyUnshared
  <2>9. FreeIds' /\ OneNotifyLive' /\ RetryBudget'
    BY <1>2, <2>2 DEF IInv, FreeIds, OneNotifyLive, RetryBudget, Live
  <2>10. QED
    BY <2>4, <2>5, <2>6, <2>7, <2>8, <2>9 DEF IInv
<1>5. QED
  BY <1>3, <1>4

\* What the holder of a job records: its token is the row's attempts, and
\* the attempts it leaves are its token or one less.
LEMMA RecordFacts ==
  ASSUME IInv, NEW w \in Workers, Held(w), RecordOutcome(w)
  PROVE  \E s \in Statuses, n \in Nat, d \in BOOLEAN :
           /\ FinishRow(job[w], s, n, d)
           /\ n >= claim[w] - 1
           /\ \/ s = "pending" /\ n < MaxAttempts(job[w])
              \/ s \in {"completed", "failed"}
<1> DEFINE j == job[w]
<1> DEFINE c == claim[w]
<1>1. /\ j \in Jobs /\ c \in Nat /\ c > 0 /\ c = attempts[j]
      /\ c <= MaxAttempts(j) /\ MaxAttempts(j) \in Nat /\ due[j] \in BOOLEAN
  BY BudgetIsPositive DEF Held, IInv, TypeOK, Tokens, RetryBudget
<1>2. \/ FinishRow(j, "completed", c, due[j])
      \/ FinishRow(j, "pending", c - 1, TRUE)
      \/ FinishRow(j, "pending", c - 1, FALSE)
      \/ FinishRow(j, "failed", c, due[j])
      \/ c < MaxAttempts(j) /\ FinishRow(j, "pending", c, FALSE)
  <2>1. CASE pc[w] = "completed"
    BY <2>1 DEF RecordOutcome
  <2>2. CASE pc[w] = "shutdown"
    BY <2>2 DEF RecordOutcome
  <2>3. CASE pc[w] = "deferred"
    BY <2>3 DEF RecordOutcome
  <2>4. CASE pc[w] = "error" /\ c >= MaxAttempts(j)
    BY <2>4 DEF RecordOutcome
  <2>5. CASE pc[w] = "error" /\ ~(c >= MaxAttempts(j))
    <3>1. c < MaxAttempts(j)
      BY <1>1, <2>5
    <3>2. FinishRow(j, "pending", c, FALSE)
      BY <2>5 DEF RecordOutcome
    <3>3. QED
      BY ONLY <3>1, <3>2
  <2>6. QED
    BY <2>1, <2>2, <2>3, <2>4, <2>5 DEF RecordOutcome
<1>3. /\ c - 1 \in Nat /\ c - 1 < MaxAttempts(j)
      /\ "completed" \in Statuses /\ "pending" \in Statuses /\ "failed" \in Statuses
  BY <1>1, OutcomeFacts
<1>4. CASE FinishRow(j, "completed", c, due[j])
  BY <1>1, <1>3, <1>4
<1>5. CASE FinishRow(j, "failed", c, due[j])
  BY <1>1, <1>3, <1>5
<1>6. CASE FinishRow(j, "pending", c - 1, TRUE) \/ FinishRow(j, "pending", c - 1, FALSE)
  <2>1. ASSUME NEW d \in BOOLEAN, FinishRow(j, "pending", c - 1, d)
        PROVE  \E s \in Statuses, n \in Nat, e \in BOOLEAN :
                 /\ FinishRow(j, s, n, e)
                 /\ n >= c - 1
                 /\ \/ s = "pending" /\ n < MaxAttempts(j)
                    \/ s \in {"completed", "failed"}
    <3> USE <1>3
    <3>1. c - 1 >= c - 1
      OBVIOUS
    <3>2. WITNESS "pending" \in Statuses, c - 1 \in Nat, d \in BOOLEAN
    <3>3. QED
      BY <2>1, <3>1
  <2>2. QED
    BY <1>6, <2>1
<1>7. CASE c < MaxAttempts(j) /\ FinishRow(j, "pending", c, FALSE)
  <2>1. c >= c - 1 /\ c \in Nat /\ FALSE \in BOOLEAN
    BY <1>1
  <2> USE <1>3, <2>1
  <2>2. WITNESS "pending" \in Statuses, c \in Nat, FALSE \in BOOLEAN
  <2>3. QED
    BY <1>7, <2>1
<1>8. QED
  BY <1>2, <1>4, <1>5, <1>6, <1>7

\* The outcome of a live claim is recorded and its token with it; the other
\* tokens out are smaller.
LEMMA FinishStep ==
  ASSUME IInv, NEW w \in Workers, Finish(w)
  PROVE  IInv'
<1>1. CASE ~Held(w)
  <2>1. UNCHANGED <<rowVars, asked, faults, shared>>
    BY <1>1 DEF Finish
  <2>2. CASE pc[w] = "shutdown"
    <3>1. LeavePass(w)
      BY <2>2 DEF Finish
    <3>2. MovesTo(w, "off")
      BY <2>1, <3>1, StageFacts DEF MovesTo, LeavePass, IInv, TypeOK
    <3>3. QED
      BY <3>2, MoveKeeps
  <2>3. CASE pc[w] # "shutdown"
    <3>1. /\ Goto(w, "poll")
          /\ job' = [job EXCEPT ![w] = NoJob]
          /\ claim' = [claim EXCEPT ![w] = 0]
          /\ active' = [active EXCEPT ![w] = TRUE]
          /\ UNCHANGED <<stop, left>>
      BY <2>3 DEF Finish
    <3>2. MovesTo(w, "poll")
      BY <2>1, <3>1, StageFacts DEF MovesTo, IInv, TypeOK
    <3>3. QED
      BY <3>2, MoveKeeps
  <2>4. QED
    BY <2>2, <2>3
<1>2. CASE Held(w)
  <2> DEFINE j == job[w]
  <2>1. PICK s \in Statuses, n \in Nat, d \in BOOLEAN :
          /\ FinishRow(j, s, n, d)
          /\ n >= claim[w] - 1
          /\ \/ s = "pending" /\ n < MaxAttempts(j)
             \/ s \in {"completed", "failed"}
    BY <1>2, RecordFacts DEF Finish
  <2>2. /\ j \in Jobs /\ status[j] = "running" /\ attempts[j] = claim[w]
        /\ HasClaim(w) /\ claim[w] \in Nat
    BY <1>2 DEF Held, IInv, TypeOK, Tokens
  <2>3. /\ pc' \in [Workers -> Stages]
        /\ job' \in [Workers -> Jobs \union {NoJob}]
        /\ claim' \in [Workers -> Nat]
        /\ stop' \in [Workers -> BOOLEAN]
        /\ active' \in [Workers -> BOOLEAN]
        /\ left' \in [Workers -> Nat]
        /\ UNCHANGED <<asked, faults, shared>>
        /\ pc'[w] \in {"off", "poll"}
        /\ \A v \in Workers \ {w} :
             pc'[v] = pc[v] /\ job'[v] = job[v] /\ claim'[v] = claim[v]
    <3>1. CASE pc[w] = "shutdown"
      <4>1. LeavePass(w) /\ UNCHANGED <<asked, faults, shared>>
        BY <3>1 DEF Finish
      <4>2. QED
        BY <4>1, StageFacts DEF LeavePass, Goto, IInv, TypeOK
    <3>2. CASE pc[w] # "shutdown"
      <4>1. /\ Goto(w, "poll")
            /\ job' = [job EXCEPT ![w] = NoJob]
            /\ claim' = [claim EXCEPT ![w] = 0]
            /\ active' = [active EXCEPT ![w] = TRUE]
            /\ UNCHANGED <<stop, left, asked, faults, shared>>
        BY <3>2 DEF Finish
      <4>2. QED
        BY <4>1, StageFacts DEF Goto, IInv, TypeOK
    <3>3. QED
      BY <3>1, <3>2
  <2>4. pc'[w] \notin ClaimStages /\ pc'[w] # "claiming"
    BY <2>3, StageFacts
  <2> HIDE DEF j
  <2>5. TypeOK'
    BY <2>1, <2>2, <2>3 DEF IInv, TypeOK, FinishRow
  <2>6. RowLocks'
    BY <2>1, <2>2, <2>3, <2>4 DEF IInv, TypeOK, RowLocks, FinishRow
  <2>7. Tokens'
    <3>1. ASSUME NEW v \in Workers \ {w}, HasClaim(v), job[v] = j, j \notin shared
          PROVE  claim[v] \in 1..n
      <4>1. claim[v] \in 1..claim[w]
        BY <2>2, <3>1 DEF IInv, TypeOK, Tokens
      <4>2. claim[v] # claim[w]
        BY <1>2, <2>2, <3>1 DEF IInv, OneHolder, Held, j
      <4>3. QED
        BY <2>1, <2>2, <4>1, <4>2
    <3>2. ~HasClaim(w)' /\ \A v \in Workers \ {w} : HasClaim(v)' <=> HasClaim(v)
      BY <2>3, <2>4 DEF HasClaim
    <3>3. ASSUME NEW v \in Workers \ {w}, HasClaim(v)
          PROVE  /\ job'[v] \in Jobs /\ status'[job'[v]] # "none"
                 /\ job'[v] \notin shared' => claim'[v] \in 1..attempts'[job'[v]]
      <4>1. job'[v] \in Jobs /\ status'[job'[v]] # "none"
        BY <2>1, <2>2, <2>3, <3>3 DEF IInv, TypeOK, Tokens, FinishRow
      <4>2. ASSUME job[v] = j, j \notin shared
            PROVE  claim'[v] \in 1..attempts'[job'[v]]
        BY <2>1, <2>2, <2>3, <3>1, <3>3, <4>2 DEF IInv, TypeOK, FinishRow
      <4>3. ASSUME job[v] # j, job[v] \notin shared
            PROVE  claim'[v] \in 1..attempts'[job'[v]]
        BY <2>1, <2>2, <2>3, <3>3, <4>3 DEF IInv, TypeOK, Tokens, FinishRow
      <4>4. QED
        BY <2>3, <3>3, <4>1, <4>2, <4>3
    <3>4. QED
      BY <3>2, <3>3 DEF Tokens
  <2>8. OneHolder' /\ NotifyUnshared'
    <3>1. ASSUME NEW v \in Workers, Held(v)'
          PROVE  Held(v) /\ job'[v] = job[v]
      <4>1. v # w
        BY <2>4, <3>1 DEF Held, HasClaim
      <4>2. HasClaim(v) /\ job'[v] = job[v] /\ claim'[v] = claim[v]
        BY <2>3, <3>1, <4>1 DEF Held, HasClaim
      <4>3. job[v] \in Jobs
        BY <4>2 DEF IInv, Tokens
      <4>4. job[v] # j
        BY <2>1, <2>2, <3>1, <4>2 DEF Held, FinishRow, IInv, TypeOK
      <4>5. QED
        BY <2>1, <2>2, <3>1, <4>2, <4>3, <4>4 DEF Held, FinishRow, IInv, TypeOK
    <3>2. QED
      BY <2>3, <3>1 DEF IInv, OneHolder, NotifyUnshared
  <2>9. FreeIds'
    BY <2>1, <2>2, <2>3 DEF IInv, TypeOK, FreeIds, FinishRow
  <2>10. OneNotifyLive'
    BY <2>1, <2>2 DEF IInv, TypeOK, OneNotifyLive, FinishRow, Live
  <2>11. RetryBudget'
    BY <2>1, <2>2 DEF IInv, TypeOK, RetryBudget, FinishRow, MaxAttempts
  <2>12. QED
    BY <2>5, <2>6, <2>7, <2>8, <2>9, <2>10, <2>11 DEF IInv
<1>3. QED
  BY <1>1, <1>2

\* Each action keeps the invariant, so every step does.
LEMMA StepIInv == IInv /\ [Next]_vars => IInv'
<1> SUFFICES ASSUME IInv, [Next]_vars PROVE IInv'
  OBVIOUS
<1>1. CASE UNCHANGED vars
  BY <1>1 DEF vars, IInv, TypeOK, RowLocks, Tokens, OneHolder, NotifyUnshared, FreeIds,
              OneNotifyLive, RetryBudget, Held, HasClaim, Live
<1>2. CASE \E j \in Jobs : Enqueue(j) \/ CheckOnce(j) \/ EnqueueOnce(j)
  BY <1>2, EnqueueStep
<1>3. CASE \E w \in Workers : StartPass(w) \/ Work(w) \/ Renew(w) \/ DeferHandler(w)
  BY <1>3, QuietStep, AnnounceStep, CalmStep, SelectStep, ClaimStep,
     ReadClaimStep, FinishStep DEF Work
<1>4. CASE \E w \in Workers : Signal(w) \/ Crash(w)
  BY <1>4, QuietStep
<1>5. CASE \E j \in Jobs : BecomeDue(j) \/ GoStale(j)
  BY <1>5, CalmStep
<1>6. QED
  BY <1>1, <1>2, <1>3, <1>4, <1>5 DEF Next

\* The inductive invariant holds in every reachable state.
THEOREM Invariance == Spec => []IInv
BY InitIInv, StepIInv, PTL DEF Spec

\* Every variable keeps its type.
THEOREM TypeCorrect == Spec => []TypeOK
<1>1. IInv => TypeOK
  BY DEF IInv
<1>2. QED
  BY <1>1, Invariance, PTL

\* A row that waits has an attempt left and a running one is within its
\* budget: claims, refunds and reaping keep attempts in step (run_due).
THEOREM BudgetKept == Spec => []RetryBudget
<1>1. IInv => RetryBudget
  BY DEF IInv
<1>2. QED
  BY <1>1, Invariance, PTL

\* At most one worker's claim on a job is live (jobs._held), unless a worker
\* took up the claim of another when it read its token (run_due).
THEOREM SingleHolder == Spec => []OneHolder
<1>1. IInv => OneHolder
  BY DEF IInv
<1>2. QED
  BY <1>1, Invariance, PTL

\* At most one live claim is on a notify job, so one sender records a batch
\* (uq_jobs_active_notify and the claim token).
THEOREM SingleNotifyHolder == Spec => []OneNotifyHolder
<1>1. IInv => OneNotifyHolder
  <2> SUFFICES ASSUME IInv, NEW v \in Workers, NEW w \in Workers,
                      v # w, Held(v), Held(w),
                      Type[job[v]] = Notify, Type[job[w]] = Notify
               PROVE  FALSE
    BY DEF OneNotifyHolder
  <2>1. /\ job[v] \in Jobs /\ job[w] \in Jobs
        /\ Live(job[v]) /\ Live(job[w])
    BY DEF IInv, Tokens, Held, Live
  <2>2. job[v] = job[w]
    BY <2>1 DEF IInv, OneNotifyLive
  <2>3. QED
    BY <2>1, <2>2 DEF IInv, OneHolder, NotifyUnshared
<1>2. QED
  BY <1>1, Invariance, PTL

-----------------------------------------------------------------------------
(* A lost claim stays lost. *)

\* A row starts to run only by a claim, at one attempt more than it had, and
\* a running row keeps its attempts while it runs.
LEMMA RunningRows ==
  ASSUME IInv, [Next]_vars, NEW j \in Jobs, status'[j] = "running"
  PROVE  \/ status[j] = "running" /\ attempts'[j] = attempts[j]
         \/ status[j] = "pending" /\ attempts'[j] = attempts[j] + 1
<1> USE DEF IInv, TypeOK
<1>1. CASE UNCHANGED vars
  BY <1>1 DEF vars
<1>2. CASE \E k \in Jobs : Enqueue(k) \/ CheckOnce(k) \/ EnqueueOnce(k)
  BY <1>2 DEF Enqueue, CheckOnce, EnqueueOnce, InsertRow, rowVars
<1>3. ASSUME NEW w \in Workers, CleanUp(w) \/ Reap(w)
      PROVE  status[j] = "running" /\ attempts'[j] = attempts[j]
  <2>1. ReapRows
    BY <1>3 DEF CleanUp, Reap
  <2>2. QED
    BY <2>1, ReapRowsFacts DEF ReapRows
<1>4. ASSUME NEW w \in Workers, Prune(w)
      PROVE  status[j] = "running" /\ attempts'[j] = attempts[j]
  BY <1>4 DEF Prune
<1>5. ASSUME NEW w \in Workers, Announce(w)
      PROVE  status[j] = "running" /\ attempts'[j] = attempts[j]
  <2>1. UNCHANGED rowVars \/ \E k \in Jobs : InsertRow(k)
    BY <1>5 DEF Announce
  <2>2. QED
    BY <2>1 DEF InsertRow, rowVars
<1>6. ASSUME NEW w \in Workers,
             \/ StartPass(w) \/ Select(w) \/ EndBatch(w) \/ StartHandler(w)
             \/ EndHandler(w) \/ DeferHandler(w) \/ Signal(w) \/ Crash(w)
             \/ Renew(w) \/ ReadClaim(w)
      PROVE  status[j] = "running" /\ attempts'[j] = attempts[j]
  BY <1>6 DEF StartPass, Select, EndBatch, StartHandler, EndHandler, DeferHandler,
              Signal, Crash, Renew, ReadClaim, rowVars
<1>7. ASSUME NEW w \in Workers, Claim(w)
      PROVE  \/ status[j] = "running" /\ attempts'[j] = attempts[j]
             \/ status[j] = "pending" /\ attempts'[j] = attempts[j] + 1
  BY <1>7 DEF Claim, RowLocks
<1>8. ASSUME NEW w \in Workers, Finish(w)
      PROVE  status[j] = "running" /\ attempts'[j] = attempts[j]
  <2>1. CASE ~Held(w)
    BY <1>8, <2>1 DEF Finish, rowVars
  <2>2. CASE Held(w)
    <3>1. PICK s \in Statuses, n \in Nat, d \in BOOLEAN :
            /\ FinishRow(job[w], s, n, d)
            /\ n >= claim[w] - 1
            /\ \/ s = "pending" /\ n < MaxAttempts(job[w])
               \/ s \in {"completed", "failed"}
      BY <1>8, <2>2, RecordFacts DEF Finish
    <3>2. QED
      BY <3>1 DEF FinishRow
  <2>3. QED
    BY <2>1, <2>2
<1>9. CASE \E k \in Jobs : BecomeDue(k) \/ GoStale(k)
  BY <1>9 DEF BecomeDue, GoStale
<1>10. QED
  BY <1>1, <1>2, <1>3, <1>4, <1>5, <1>6, <1>7, <1>8, <1>9 DEF Next, Work

\* A job that was shared stays marked.
LEMMA SharedStays == [Next]_vars => shared \subseteq shared'
<1> SUFFICES ASSUME [Next]_vars PROVE shared \subseteq shared'
  OBVIOUS
<1>1. ASSUME NEW w \in Workers, ReadClaim(w) PROVE shared \subseteq shared'
  BY <1>1 DEF ReadClaim
<1>2. QED
  BY <1>1 DEF Next, Work, vars, Enqueue, CheckOnce, EnqueueOnce, StartPass, CleanUp,
     Prune, Announce, Reap, Select, Claim, EndBatch, StartHandler, EndHandler, Finish,
     Renew, DeferHandler, Signal, Crash, BecomeDue, GoStale

\* A worker's token changes only when it claims, reads its token or leaves
\* the job.
LEMMA TokenChanges ==
  ASSUME IInv, [Next]_vars, NEW w \in Workers, HasClaim(w), job'[w] = job[w]
  PROVE  claim'[w] = claim[w] \/ ReadClaim(w) \/ ~HasClaim(w)'
<1> USE StageFacts DEF IInv, TypeOK
<1>1. CASE UNCHANGED vars
  BY <1>1 DEF vars
<1>2. CASE \E k \in Jobs : Enqueue(k) \/ CheckOnce(k) \/ EnqueueOnce(k)
  BY <1>2 DEF Enqueue, CheckOnce, EnqueueOnce, workVars
<1>3. ASSUME NEW v \in Workers,
             \/ StartPass(v) \/ CleanUp(v) \/ Prune(v) \/ Reap(v) \/ Select(v)
             \/ StartHandler(v) \/ EndHandler(v) \/ DeferHandler(v) \/ Signal(v)
             \/ Renew(v)
      PROVE  claim'[w] = claim[w]
  BY <1>3 DEF StartPass, CleanUp, Prune, Reap, Select, StartHandler, EndHandler,
              DeferHandler, Signal, Renew, workVars
<1>4. ASSUME NEW v \in Workers, Announce(v) \/ EndBatch(v) \/ Finish(v) \/ Crash(v)
      PROVE  claim'[w] = claim[w] \/ ~HasClaim(w)'
  BY <1>4 DEF Announce, EndBatch, Finish, Crash, LeavePass, Goto, HasClaim
<1>5. ASSUME NEW v \in Workers, Claim(v)
      PROVE  claim'[w] = claim[w]
  BY <1>5 DEF Claim, HasClaim
<1>6. ASSUME NEW v \in Workers, ReadClaim(v), v # w
      PROVE  claim'[w] = claim[w]
  BY <1>6 DEF ReadClaim, LeavePass
<1>7. CASE \E k \in Jobs : BecomeDue(k) \/ GoStale(k)
  BY <1>7 DEF BecomeDue, GoStale, workVars
<1>8. QED
  BY <1>1, <1>2, <1>3, <1>4, <1>5, <1>6, <1>7 DEF Next, Work

\* A claim that was lost to the reaper is never live again, through any
\* sequence of refunds and new claims, so that its worker cannot record a
\* result; unless that worker took up the claim of another.
THEOREM LostClaims == Spec => LostForGood
<1>1. ASSUME IInv, [Next]_vars, NEW w \in Workers,
             HasClaim(w), ~Held(w), job'[w] = job[w], job[w] \notin shared'
      PROVE  ~Held(w)'
  <2> SUFFICES ASSUME Held(w)' PROVE FALSE
    OBVIOUS
  <2>1. job[w] \in Jobs /\ claim[w] \in Nat /\ attempts[job[w]] \in Nat
    BY <1>1 DEF IInv, TypeOK, Tokens
  <2>2. /\ HasClaim(w)' /\ status'[job[w]] = "running"
        /\ attempts'[job[w]] = claim'[w]
    BY <1>1 DEF Held
  <2>3. CASE ReadClaim(w)
    <3>1. status' = status /\ attempts' = attempts
      BY <2>3 DEF ReadClaim, rowVars
    <3>2. status[job[w]] = "running" /\ attempts[job[w]] # claim[w]
      BY <1>1, <2>2, <3>1 DEF Held
    <3>3. QED
      BY <1>1, <2>1, <2>3, <3>2 DEF ReadClaim
  <2>4. CASE claim'[w] = claim[w]
    <3>1. job[w] \notin shared
      BY <1>1, SharedStays
    <3>2. claim[w] <= attempts[job[w]]
      BY <1>1, <2>1, <3>1 DEF IInv, Tokens
    <3>3. CASE status[job[w]] = "running" /\ attempts'[job[w]] = attempts[job[w]]
      BY <1>1, <2>2, <2>4, <3>3 DEF Held
    <3>4. CASE status[job[w]] = "pending" /\ attempts'[job[w]] = attempts[job[w]] + 1
      BY <2>1, <2>2, <2>4, <3>2, <3>4
    <3>5. QED
      BY <1>1, <2>1, <2>2, <3>3, <3>4, RunningRows
  <2>5. QED
    BY <1>1, <2>2, <2>3, <2>4, TokenChanges
<1>2. IInv /\ [Next]_vars =>
        [\A w \in Workers :
           /\ HasClaim(w) /\ ~Held(w)
           /\ job'[w] = job[w] /\ job[w] \notin shared'
           => ~Held(w)']_vars
  BY <1>1
<1>3. QED
  BY <1>2, Invariance, PTL DEF Spec, LostForGood

-----------------------------------------------------------------------------
(* JobQueue implements JobLedger: every step of the queue is a step of the  *)
(* ledger or leaves it as it is.                                            *)

LEMMA PhaseFacts ==
  /\ Phases["none"] = "absent" /\ Phases["pending"] = "queued"
  /\ Phases["running"] = "taken" /\ Phases["completed"] = "completed"
  /\ Phases["failed"] = "failed" /\ Phases["deleted"] = "forgotten"
BY DEF Phases

LEMMA StrikesFacts ==
  ASSUME NEW n
  PROVE  /\ Strikes("none", n) = n /\ Strikes("pending", n) = n
         /\ Strikes("failed", n) = n /\ Strikes("deleted", n) = 0
         /\ Strikes("running", n) = n - 1 /\ Strikes("completed", n) = n - 1
BY DEF Strikes

-----------------------------------------------------------------------------
(* What a change of the tables and of the claims is for the ledger. *)

\* w holds j.
Holds(w, j) == job[w] = j /\ Held(w)

\* Rows and live claims as they were: nothing happens to the ledger.
LEMMA SameLedger ==
  ASSUME UNCHANGED <<status, attempts, shared>>,
         \A w \in Workers, j \in Jobs : Holds(w, j)' <=> Holds(w, j)
  PROVE  UNCHANGED Ledger!ledger
<1>1. phase' = phase /\ strikes' = strikes
  BY DEF phase, strikes
<1>2. holder' = holder
  BY DEF holder, Holds
<1>3. QED
  BY <1>1, <1>2 DEF Ledger!ledger

\* The holders of one row change.
LEMMA OneHold ==
  ASSUME NEW j \in Jobs, NEW H \in SUBSET Workers,
         \A w \in Workers, k \in Jobs \ {j} : Holds(w, k)' <=> Holds(w, k),
         \A w \in Workers : Holds(w, j)' <=> w \in H
  PROVE  holder' = [holder EXCEPT ![j] = H]
<1>1. \A k \in Jobs \ {j} : {w \in Workers : Holds(w, k)'} = {w \in Workers : Holds(w, k)}
  OBVIOUS
<1>2. {w \in Workers : Holds(w, j)'} = H
  OBVIOUS
<1>3. holder' = [k \in Jobs |-> {w \in Workers : Holds(w, k)'}]
  BY DEF holder, Holds
<1>4. holder = [k \in Jobs |-> {w \in Workers : Holds(w, k)}]
  BY DEF holder, Holds
<1>5. QED
  BY <1>1, <1>2, <1>3, <1>4

\* A claim that is live holds its job; alone, unless the job is shared.
LEMMA HolderFacts ==
  ASSUME IInv, NEW w \in Workers, Held(w)
  PROVE  /\ job[w] \in Jobs
         /\ w \in holder[job[w]]
<1>1. job[w] \in Jobs /\ HasClaim(w)
  BY DEF Held, IInv, Tokens
<1>2. QED
  BY <1>1 DEF holder

-----------------------------------------------------------------------------
LEMMA InitLedger == Init => Ledger!Init
<1> SUFFICES ASSUME Init PROVE Ledger!Init
  OBVIOUS
<1>1. phase = [j \in Jobs |-> "absent"] /\ strikes = [j \in Jobs |-> 0]
  BY PhaseFacts, StrikesFacts DEF Init, phase, strikes
<1>2. holder = [j \in Jobs |-> {}]
  BY DEF Init, holder, Held
<1>3. shared = {}
  BY DEF Init
<1>4. QED
  BY <1>1, <1>2, <1>3 DEF Ledger!Init

\* A row is inserted, while no claim changes.
LEMMA InsertIsSubmit ==
  ASSUME IInv, NEW j \in Jobs, status[j] = "none", InsertRow(j), UNCHANGED shared,
         \A w \in Workers, k \in Jobs \ {j} : Holds(w, k)' <=> Holds(w, k)
  PROVE  Ledger!Submit(j)
<1>1. attempts' = [attempts EXCEPT ![j] = attempts[j]]
  BY DEF IInv, TypeOK, InsertRow
<1>2. /\ phase' = [phase EXCEPT ![j] = "queued"]
      /\ strikes' = [strikes EXCEPT ![j] = attempts[j]]
  <2>1. status' = [status EXCEPT ![j] = "pending"]
    BY DEF InsertRow
  <2>2. /\ phase' = [phase EXCEPT ![j] = Phases["pending"]]
        /\ strikes' = [strikes EXCEPT ![j] = Strikes("pending", attempts[j])]
    BY <1>1, <2>1 DEF IInv, TypeOK, phase, strikes
  <2>3. QED
    BY <2>2, PhaseFacts, StrikesFacts
<1>3. phase[j] = "absent" /\ strikes[j] = attempts[j]
  BY PhaseFacts, StrikesFacts DEF phase, strikes
<1>4. \A w \in Workers : ~Holds(w, j) /\ ~Holds(w, j)'
  BY DEF Holds, Held, InsertRow, IInv, TypeOK
<1>5. holder' = holder
  <2>1. \A w \in Workers, k \in Jobs : Holds(w, k)' <=> Holds(w, k)
    BY <1>4
  <2>2. QED
    BY <2>1 DEF holder, Holds
<1>6. strikes' = strikes
  BY <1>2, <1>3 DEF strikes
<1>7. QED
  BY <1>2, <1>3, <1>5, <1>6 DEF Ledger!Submit

LEMMA EnqueueIsSubmit ==
  ASSUME IInv, NEW j \in Jobs, Enqueue(j) \/ CheckOnce(j) \/ EnqueueOnce(j)
  PROVE  Ledger!Submit(j) \/ UNCHANGED Ledger!ledger
<1>1. CASE Enqueue(j) \/ EnqueueOnce(j)
  <2>1. InsertRow(j) /\ UNCHANGED <<pc, job, claim, shared>> /\ status[j] = "none"
    BY <1>1 DEF Enqueue, EnqueueOnce, Fresh, workVars, IInv, FreeIds
  <2>2. \A w \in Workers, k \in Jobs \ {j} : Holds(w, k)' <=> Holds(w, k)
    BY <2>1 DEF Holds, Held, HasClaim, InsertRow, IInv, TypeOK
  <2>3. QED
    BY <2>1, <2>2, InsertIsSubmit
<1>2. CASE CheckOnce(j)
  BY <1>2, SameLedger DEF CheckOnce, rowVars, workVars, Holds, Held, HasClaim
<1>3. QED
  BY <1>1, <1>2

\* w moves outside its claims, or keeps its claim, or drops one that is lost.
LEMMA MoveIsQuiet ==
  ASSUME IInv, NEW w \in Workers, UNCHANGED <<status, attempts, shared>>,
         \A v \in Workers \ {w} :
            pc'[v] = pc[v] /\ job'[v] = job[v] /\ claim'[v] = claim[v],
         \/ ~Held(w) /\ ~HasClaim(w)'
         \/ HasClaim(w) /\ HasClaim(w)' /\ job'[w] = job[w] /\ claim'[w] = claim[w]
  PROVE  UNCHANGED Ledger!ledger
<1>1. ASSUME NEW v \in Workers \ {w}, NEW j \in Jobs PROVE Holds(v, j)' <=> Holds(v, j)
  BY <1>1 DEF Holds, Held, HasClaim
<1>2. ASSUME NEW j \in Jobs PROVE Holds(w, j)' <=> Holds(w, j)
  BY <1>2 DEF Holds, Held
<1>3. QED
  BY <1>1, <1>2, SameLedger

\* The worker steps that change no row.
LEMMA QuietIsQuiet ==
  ASSUME IInv, NEW w \in Workers,
         \/ StartPass(w) \/ Select(w) \/ EndBatch(w) \/ StartHandler(w)
         \/ EndHandler(w) \/ DeferHandler(w) \/ Signal(w)
  PROVE  UNCHANGED Ledger!ledger
<1> USE StageFacts, OutcomeFacts DEF IInv, TypeOK
<1>1. UNCHANGED <<status, attempts, shared>>
  BY DEF StartPass, Select, EndBatch, StartHandler, EndHandler, DeferHandler, Signal,
         rowVars
<1>2. \A v \in Workers \ {w} :
         pc'[v] = pc[v] /\ job'[v] = job[v] /\ claim'[v] = claim[v]
  BY DEF StartPass, Select, EndBatch, StartHandler, EndHandler, DeferHandler, Signal,
         Goto, LeavePass
<1>3. \/ ~HasClaim(w) /\ ~HasClaim(w)'
      \/ HasClaim(w) /\ HasClaim(w)' /\ job'[w] = job[w] /\ claim'[w] = claim[w]
  <2>1. CASE StartPass(w) \/ Select(w) \/ EndBatch(w)
    BY <2>1 DEF StartPass, Select, EndBatch, Goto, LeavePass, HasClaim
  <2>2. CASE StartHandler(w)
    BY <2>2 DEF StartHandler, Goto, HasClaim
  <2>3. CASE EndHandler(w)
    BY <2>3 DEF EndHandler, Goto, HasClaim
  <2>4. CASE DeferHandler(w)
    BY <2>4 DEF DeferHandler, Goto, HasClaim
  <2>5. CASE Signal(w)
    BY <2>5 DEF Signal, Goto, HasClaim
  <2>6. QED
    BY <2>1, <2>2, <2>3, <2>4, <2>5
<1>4. QED
  BY <1>1, <1>2, <1>3, MoveIsQuiet DEF Held

\* Time and the heartbeat.
LEMMA TimeIsQuiet ==
  ASSUME \/ \E w \in Workers : Renew(w)
         \/ \E j \in Jobs : BecomeDue(j) \/ GoStale(j)
  PROVE  UNCHANGED Ledger!ledger
<1>1. UNCHANGED <<status, attempts, shared, pc, job, claim>>
  BY DEF Renew, BecomeDue, GoStale, workVars
<1>2. QED
  BY <1>1, SameLedger DEF Holds, Held, HasClaim

\* A crash takes a holder of the job away, if the worker was one.
LEMMA CrashIsAbandon ==
  ASSUME IInv, NEW w \in Workers, Crash(w)
  PROVE  Ledger!Next \/ UNCHANGED Ledger!ledger
<1>1. /\ UNCHANGED <<status, attempts, shared>> /\ ~HasClaim(w)'
      /\ \A v \in Workers \ {w} :
            pc'[v] = pc[v] /\ job'[v] = job[v] /\ claim'[v] = claim[v]
  BY StageFacts DEF Crash, LeavePass, Goto, rowVars, HasClaim, IInv, TypeOK
<1>2. CASE ~Held(w)
  BY <1>1, <1>2, MoveIsQuiet
<1>3. CASE Held(w)
  <2>1. PICK j \in Jobs : j = job[w] /\ w \in holder[j]
    BY <1>3, HolderFacts
  <2>2. \A v \in Workers \ {w}, k \in Jobs : Holds(v, k)' <=> Holds(v, k)
    BY <1>1 DEF Holds, Held, HasClaim
  <2>3. \A k \in Jobs : ~Holds(w, k)'
    BY <1>1 DEF Holds, Held
  <2>4. \A k \in Jobs \ {j} : ~Holds(w, k)
    BY <2>1 DEF Holds
  <2>5. holder[j] \ {w} \in SUBSET Workers
        /\ \A v \in Workers : Holds(v, j)' <=> v \in holder[j] \ {w}
    BY <2>2, <2>3 DEF holder, Holds
  <2>6. holder' = [holder EXCEPT ![j] = holder[j] \ {w}]
    BY <2>2, <2>3, <2>4, <2>5, OneHold
  <2>7. phase' = phase /\ strikes' = strikes
    BY <1>1 DEF phase, strikes
  <2>8. phase[j] = "taken"
    BY <1>3, <2>1, PhaseFacts DEF phase, Held
  <2>9. Ledger!Abandon(j, w)
    BY <1>1, <2>1, <2>6, <2>7, <2>8 DEF Ledger!Abandon
  <2>10. QED
    BY <2>9 DEF Ledger!Next
<1>4. QED
  BY <1>2, <1>3

\* Whoever reads the token of a claim that runs, and not its own, joins the
\* job.
LEMMA ReadIsJoin ==
  ASSUME IInv, NEW w \in Workers, ReadClaim(w)
  PROVE  Ledger!Next \/ UNCHANGED Ledger!ledger
<1>1. PICK j \in Jobs : j = job[w]
  BY StageFacts DEF ReadClaim, IInv, Tokens, HasClaim
<1>2. /\ HasClaim(w) /\ UNCHANGED <<status, attempts>>
      /\ \A v \in Workers \ {w} :
            pc'[v] = pc[v] /\ job'[v] = job[v] /\ claim'[v] = claim[v]
  BY StageFacts DEF ReadClaim, LeavePass, Goto, HasClaim, rowVars, IInv, TypeOK
<1>3. CASE status[j] = "deleted"
  <2>1. ~Held(w) /\ ~HasClaim(w)' /\ UNCHANGED shared
    BY <1>1, <1>3, StageFacts DEF ReadClaim, LeavePass, Goto, Held, HasClaim, IInv, TypeOK
  <2>2. QED
    BY <1>2, <2>1, MoveIsQuiet
<1>4. CASE status[j] # "deleted"
  <2>1. /\ HasClaim(w)' /\ job' = job /\ claim'[w] = attempts[j]
        /\ shared' = IF status[j] = "running" /\ attempts[j] # claim[w]
                       THEN shared \union {j} ELSE shared
    BY <1>1, <1>4, StageFacts DEF ReadClaim, Goto, HasClaim, IInv, TypeOK
  <2>2. \A v \in Workers \ {w}, k \in Jobs : Holds(v, k)' <=> Holds(v, k)
    BY <1>2 DEF Holds, Held, HasClaim
  <2>3. \A k \in Jobs \ {j} : ~Holds(w, k) /\ ~Holds(w, k)'
    BY <1>1, <2>1 DEF Holds
  <2>4. CASE status[j] = "running" /\ attempts[j] # claim[w]
    <3>1. ~Holds(w, j) /\ Holds(w, j)'
      BY <1>1, <1>2, <2>1, <2>4 DEF Holds, Held
    <3>2. holder[j] \union {w} \in SUBSET Workers
          /\ \A v \in Workers : Holds(v, j)' <=> v \in holder[j] \union {w}
      BY <2>2, <3>1 DEF holder, Holds
    <3>3. holder' = [holder EXCEPT ![j] = holder[j] \union {w}]
      BY <2>2, <2>3, <3>2, OneHold
    <3>4. w \notin holder[j] /\ phase[j] = "taken"
      BY <2>4, <3>1, PhaseFacts DEF holder, Holds, phase
    <3>5. phase' = phase /\ strikes' = strikes
      BY <1>2 DEF phase, strikes
    <3>6. Ledger!Join(j, w)
      BY <2>1, <2>4, <3>3, <3>4, <3>5 DEF Ledger!Join
    <3>7. QED
      BY <3>6 DEF Ledger!Next
  <2>5. CASE ~(status[j] = "running" /\ attempts[j] # claim[w])
    <3>1. Holds(w, j)' <=> Holds(w, j)
      BY <1>1, <1>2, <2>1, <2>5 DEF Holds, Held
    <3>2. QED
      BY <1>2, <2>1, <2>2, <2>3, <2>5, <3>1, SameLedger
  <2>6. QED
    BY <2>4, <2>5
<1>5. QED
  BY <1>3, <1>4

\* A pass queues its notify job, or does not.
LEMMA AnnounceIsSubmit ==
  ASSUME IInv, NEW w \in Workers, Announce(w)
  PROVE  Ledger!Next \/ UNCHANGED Ledger!ledger
<1>1. /\ ~HasClaim(w) /\ ~HasClaim(w)' /\ UNCHANGED shared
      /\ \A v \in Workers \ {w} :
            pc'[v] = pc[v] /\ job'[v] = job[v] /\ claim'[v] = claim[v]
  BY StageFacts DEF Announce, LeavePass, Goto, HasClaim, IInv, TypeOK
<1>2. CASE UNCHANGED rowVars
  BY <1>1, <1>2, MoveIsQuiet DEF rowVars, Held
<1>3. ASSUME NEW j \in Jobs, Fresh(j), InsertRow(j)
      PROVE  Ledger!Next
  <2>1. \A v \in Workers, k \in Jobs \ {j} : Holds(v, k)' <=> Holds(v, k)
    BY <1>1, <1>3 DEF Holds, Held, HasClaim, InsertRow, IInv, TypeOK
  <2>2. Ledger!Submit(j)
    BY <1>1, <1>3, <2>1, InsertIsSubmit DEF Fresh
  <2>3. QED
    BY <1>3, <2>2 DEF Ledger!Next
<1>4. UNCHANGED rowVars \/ \E j \in Jobs : Fresh(j) /\ InsertRow(j)
  BY DEF Announce
<1>5. QED
  BY <1>2, <1>3, <1>4

\* Reaping gives up on every stale attempt at once.
LEMMA ReapIsGiveUp ==
  ASSUME IInv, ReapRows, UNCHANGED shared,
         \A w \in Workers : /\ HasClaim(w)' <=> HasClaim(w)
                            /\ job'[w] = job[w] /\ claim'[w] = claim[w]
  PROVE  Ledger!GiveUp(Stale)
<1> USE DEF IInv, TypeOK
<1>1. ASSUME NEW j \in Stale
      PROVE  /\ j \in Jobs /\ phase[j] = "taken" /\ strikes[j] = attempts[j] - 1
             /\ strikes[j] + 1 = attempts[j]
             /\ attempts'[j] = attempts[j]
             /\ status'[j] = IF attempts[j] = MaxAttempts(j) THEN "failed" ELSE "pending"
  <2>1. j \in Jobs /\ status[j] = "running"
    BY <1>1 DEF Stale
  <2>2. attempts[j] \in Nat /\ MaxAttempts(j) \in Nat /\ attempts[j] <= MaxAttempts(j)
    BY <2>1, BudgetIsPositive DEF RetryBudget
  <2>3. phase[j] = "taken" /\ strikes[j] = attempts[j] - 1
    BY <2>1, PhaseFacts, StrikesFacts DEF phase, strikes
  <2>4. attempts' = attempts
    BY DEF ReapRows
  <2>5. status'[j] = IF attempts[j] >= MaxAttempts(j) THEN "failed" ELSE "pending"
    BY <1>1, <2>1 DEF ReapRows
  <2>6. QED
    BY <2>1, <2>2, <2>3, <2>4, <2>5
<1>2. ASSUME NEW j \in Jobs \ Stale
      PROVE  status'[j] = status[j] /\ attempts'[j] = attempts[j]
  BY <1>2 DEF ReapRows
<1>3. phase' = [j \in Jobs |-> IF j \in Stale THEN Ledger!AfterStrike(j) ELSE phase[j]]
  <2>1. phase' = [j \in Jobs |-> Phases[status'[j]]]
    BY DEF phase
  <2>2. ASSUME NEW j \in Stale PROVE Phases[status'[j]] = Ledger!AfterStrike(j)
    BY <1>1, <2>2, PhaseFacts DEF Ledger!AfterStrike, Budget
  <2>3. ASSUME NEW j \in Jobs \ Stale PROVE Phases[status'[j]] = phase[j]
    BY <1>2, <2>3 DEF phase
  <2>4. QED
    BY <2>1, <2>2, <2>3
<1>4. strikes' = [j \in Jobs |-> IF j \in Stale THEN strikes[j] + 1 ELSE strikes[j]]
  <2>1. strikes' = [j \in Jobs |-> Strikes(status'[j], attempts'[j])]
    BY DEF strikes
  <2>2. ASSUME NEW j \in Stale PROVE Strikes(status'[j], attempts'[j]) = strikes[j] + 1
    <3>1. status'[j] \in {"failed", "pending"} /\ strikes[j] + 1 = attempts'[j]
      BY <1>1, <2>2
    <3>2. QED
      BY <3>1, StrikesFacts
  <2>3. ASSUME NEW j \in Jobs \ Stale PROVE Strikes(status'[j], attempts'[j]) = strikes[j]
    BY <1>2, <2>3 DEF strikes
  <2>4. QED
    BY <2>1, <2>2, <2>3
<1>5. holder' = [j \in Jobs |-> IF j \in Stale THEN {} ELSE holder[j]]
  <2>1. holder' = [j \in Jobs |-> {w \in Workers : Holds(w, j)'}]
    BY DEF holder, Holds
  <2>2. ASSUME NEW j \in Stale PROVE {w \in Workers : Holds(w, j)'} = {}
    <3>1. status'[j] # "running"
      BY <1>1, <2>2
    <3>2. QED
      BY <3>1 DEF Holds, Held
  <2>3. ASSUME NEW j \in Jobs \ Stale PROVE {w \in Workers : Holds(w, j)'} = holder[j]
    <3>1. \A w \in Workers : Holds(w, j)' <=> Holds(w, j)
      BY <1>2, <2>3 DEF Holds, Held
    <3>2. QED
      BY <2>3, <3>1 DEF holder, Holds
  <2>4. QED
    BY <2>1, <2>2, <2>3
<1>6. QED
  BY <1>1, <1>3, <1>4, <1>5 DEF Ledger!GiveUp

LEMMA ReapStepIsGiveUp ==
  ASSUME IInv, NEW w \in Workers, CleanUp(w) \/ Reap(w)
  PROVE  Ledger!Next
<1>1. /\ ReapRows /\ UNCHANGED shared
      /\ \A v \in Workers : /\ HasClaim(v)' <=> HasClaim(v)
                            /\ job'[v] = job[v] /\ claim'[v] = claim[v]
  BY StageFacts DEF CleanUp, Reap, Goto, HasClaim, IInv, TypeOK
<1>2. Ledger!GiveUp(Stale)
  BY <1>1, ReapIsGiveUp
<1>3. Stale \in SUBSET Jobs
  BY DEF Stale
<1>4. QED
  BY <1>2, <1>3 DEF Ledger!Next

\* Pruned rows are forgotten.
LEMMA PruneIsForget ==
  ASSUME IInv, NEW w \in Workers, Prune(w)
  PROVE  Ledger!Next
<1> USE DEF IInv, TypeOK
<1>1. PICK old \in SUBSET {j \in Jobs : status[j] \in {"completed", "failed"}} :
        status' = [j \in Jobs |-> IF j \in old THEN "deleted" ELSE status[j]]
  BY DEF Prune
<1>2. old \in SUBSET Jobs /\ \A j \in old : status[j] \in {"completed", "failed"}
  OBVIOUS
<1>3. \A v \in Workers : /\ HasClaim(v)' <=> HasClaim(v)
                         /\ job'[v] = job[v] /\ claim'[v] = claim[v]
  BY StageFacts DEF Prune, Goto, HasClaim
<1>4. attempts' = attempts /\ UNCHANGED shared
  BY DEF Prune
<1>5. \A j \in old : phase[j] \in Ledger!Finished
  BY <1>2, PhaseFacts DEF phase, Ledger!Finished
<1>6. phase' = [j \in Jobs |-> IF j \in old THEN "forgotten" ELSE phase[j]]
  BY <1>1, <1>2, PhaseFacts DEF phase
<1>7. strikes' = [j \in Jobs |-> IF j \in old THEN 0 ELSE strikes[j]]
  BY <1>1, <1>2, <1>4, StrikesFacts DEF strikes
<1>8. holder' = holder
  <2>1. \A v \in Workers, j \in Jobs : Holds(v, j)' <=> Holds(v, j)
    BY <1>1, <1>2, <1>3, <1>4 DEF Holds, Held
  <2>2. QED
    BY <2>1 DEF holder, Holds
<1>9. QED
  BY <1>2, <1>4, <1>5, <1>6, <1>7, <1>8 DEF Ledger!Next, Ledger!Forget

\* The claim commits: the job is taken, and by w alone, as its token is new;
\* if it is shared, an older claim may have the same token.
LEMMA ClaimIsTake ==
  ASSUME IInv, NEW w \in Workers, NEW j \in Jobs, job[w] = j, Claim(w)
  PROVE  Ledger!Next
<1> USE DEF IInv, TypeOK
<1>1. /\ pc[w] = "claiming" /\ j \in Jobs /\ status[j] = "pending"
      /\ attempts[j] \in Nat /\ attempts[j] < MaxAttempts(j)
  BY BudgetIsPositive DEF Claim, RowLocks, RetryBudget
<1>2. /\ status' = [status EXCEPT ![j] = "running"]
      /\ attempts' = [attempts EXCEPT ![j] = attempts[j] + 1]
      /\ claim' = [claim EXCEPT ![w] = attempts[j] + 1]
      /\ pc' = [pc EXCEPT ![w] = "committed"]
      /\ job' = job /\ shared' = shared
  BY DEF Claim, Goto
<1>3. phase[j] = "queued" /\ strikes[j] = attempts[j]
  BY <1>1, PhaseFacts, StrikesFacts DEF phase, strikes
<1>4. phase' = [phase EXCEPT ![j] = "taken"]
  <2>1. phase' = [phase EXCEPT ![j] = Phases["running"]]
    BY <1>1, <1>2 DEF phase
  <2>2. QED
    BY <2>1, PhaseFacts
<1>5. strikes' = strikes
  <2>1. ASSUME NEW k \in Jobs
        PROVE  Strikes(status'[k], attempts'[k]) = Strikes(status[k], attempts[k])
    <3>1. CASE k = j
      <4>1. /\ status'[k] = "running" /\ attempts'[k] = attempts[k] + 1
            /\ status[k] = "pending" /\ attempts[k] \in Nat
        BY <1>1, <1>2, <3>1
      <4>2. /\ Strikes("running", attempts[k] + 1) = attempts[k] + 1 - 1
            /\ Strikes("pending", attempts[k]) = attempts[k]
        BY StrikesFacts
      <4>3. attempts[k] + 1 - 1 = attempts[k]
        BY <4>1
      <4>4. QED
        BY <4>1, <4>2, <4>3
    <3>2. CASE k # j
      BY <1>1, <1>2, <3>2
    <3>3. QED
      BY <3>1, <3>2
  <2>2. QED
    BY <2>1 DEF strikes
<1> DEFINE H == {v \in Workers : Holds(v, j)'}
<1>6. holder' = [holder EXCEPT ![j] = H] /\ w \in H /\ (j \notin shared => H = {w})
  <2>1. ~HasClaim(w)
    BY <1>1, StageFacts DEF HasClaim
  <2>2. Holds(w, j)'
    BY <1>1, <1>2, StageFacts DEF Holds, Held, HasClaim
  <2>3. ASSUME NEW v \in Workers \ {w}, j \notin shared PROVE ~Holds(v, j)'
    <3>1. HasClaim(v) /\ job[v] = j => claim[v] <= attempts[j] /\ claim[v] \in Nat
      BY <1>1, <2>3 DEF Tokens
    <3>2. QED
      BY <1>1, <1>2, <2>3, <3>1 DEF Holds, Held, HasClaim
  <2>4. \A v \in Workers, k \in Jobs \ {j} : Holds(v, k)' <=> Holds(v, k)
    BY <1>1, <1>2, <2>1 DEF Holds, Held, HasClaim
  <2>5. H \in SUBSET Workers /\ \A v \in Workers : Holds(v, j)' <=> v \in H
    OBVIOUS
  <2> HIDE DEF H
  <2>6. holder' = [holder EXCEPT ![j] = H]
    BY <2>4, <2>5, OneHold
  <2>7. QED
    BY <2>2, <2>3, <2>5, <2>6
<1>7. Ledger!Take(j, w)
  BY <1>1, <1>2, <1>3, <1>4, <1>5, <1>6 DEF Ledger!Take, Budget
<1>8. QED
  BY <1>1, <1>7 DEF Ledger!Next

-----------------------------------------------------------------------------
(* The outcome is recorded. *)

\* A held job leaves its worker: what the ledger sees of it.
LEMMA RecordIsLeave ==
  ASSUME IInv, NEW w \in Workers, NEW j \in Jobs, job[w] = j, Held(w),
         status' = [status EXCEPT ![j] = status'[j]], status'[j] # "running",
         attempts' = [attempts EXCEPT ![j] = attempts'[j]],
         \A v \in Workers \ {w} :
            pc'[v] = pc[v] /\ job'[v] = job[v] /\ claim'[v] = claim[v],
         ~HasClaim(w)', UNCHANGED shared
  PROVE  /\ Ledger!Leave(j, w, Phases[status'[j]])
         /\ strikes' = [strikes EXCEPT ![j] = Strikes(status'[j], attempts'[j])]
<1>1. status[j] = "running"
  BY DEF Held
<1>2. /\ phase' = [phase EXCEPT ![j] = Phases[status'[j]]]
      /\ strikes' = [strikes EXCEPT ![j] = Strikes(status'[j], attempts'[j])]
  BY DEF IInv, TypeOK, phase, strikes
<1>3. phase[j] = "taken"
  BY <1>1, PhaseFacts DEF phase
<1>4. w \in holder[j]
  BY HolderFacts
<1>5. holder' = [holder EXCEPT ![j] = {}]
  <2>1. \A v \in Workers, k \in Jobs \ {j} : Holds(v, k)' <=> Holds(v, k)
    BY DEF Holds, Held, HasClaim, IInv, TypeOK
  <2>2. \A v \in Workers : ~Holds(v, j)'
    BY DEF Holds, Held
  <2>3. \A v \in Workers : Holds(v, j)' <=> v \in {}
    BY <2>2
  <2>4. QED
    BY <2>1, <2>3, OneHold
<1>6. QED
  BY <1>2, <1>3, <1>4, <1>5 DEF Ledger!Leave

\* What an outcome leaves in the row.
Left(j, s, n) ==
  /\ status' = [status EXCEPT ![j] = status'[j]] /\ status'[j] = s
  /\ attempts' = [attempts EXCEPT ![j] = attempts'[j]] /\ attempts'[j] = n

LEMMA OutcomesLeft ==
  ASSUME IInv, NEW w \in Workers, NEW j \in Jobs, NEW c \in Nat,
         job[w] = j, claim[w] = c, RecordOutcome(w)
  PROVE  \/ Left(j, "completed", c)
         \/ Left(j, "pending", c - 1)
         \/ c >= MaxAttempts(j) /\ Left(j, "failed", c)
         \/ ~(c >= MaxAttempts(j)) /\ Left(j, "pending", c)
<1> USE DEF IInv, TypeOK, FinishRow, Left, RecordOutcome
<1>1. CASE pc[w] = "completed"
  BY <1>1
<1>2. CASE pc[w] = "shutdown" \/ pc[w] = "deferred"
  BY <1>2
<1>3. CASE pc[w] = "error"
  BY <1>3
<1>4. QED
  BY <1>1, <1>2, <1>3

\* A held outcome is a completion, a hand-back or a strike.
LEMMA RecordIsConclusion ==
  ASSUME IInv, NEW w \in Workers, NEW j \in Jobs, NEW c \in Nat,
         job[w] = j, claim[w] = c, Held(w), RecordOutcome(w),
         \A v \in Workers \ {w} :
            pc'[v] = pc[v] /\ job'[v] = job[v] /\ claim'[v] = claim[v],
         ~HasClaim(w)', UNCHANGED shared
  PROVE  Ledger!Complete(j, w) \/ Ledger!HandBack(j, w) \/ Ledger!Strike(j, w)
<1>1. /\ c = attempts[j] /\ c <= MaxAttempts(j)
      /\ MaxAttempts(j) \in Nat
  BY BudgetIsPositive DEF Held, IInv, TypeOK, RetryBudget
<1>2. strikes[j] = c - 1 /\ strikes[j] + 1 = c
  <2>1. strikes[j] = attempts[j] - 1
    BY StrikesFacts DEF strikes, Held
  <2>2. QED
    BY <1>1, <2>1
<1>3. strikes = [strikes EXCEPT ![j] = strikes[j]]
  BY DEF strikes
<1>4. ASSUME status' = [status EXCEPT ![j] = status'[j]], status'[j] # "running",
             attempts' = [attempts EXCEPT ![j] = attempts'[j]]
      PROVE  /\ Ledger!Leave(j, w, Phases[status'[j]])
             /\ strikes' = [strikes EXCEPT ![j] = Strikes(status'[j], attempts'[j])]
  BY <1>4, RecordIsLeave
<1>5. CASE Left(j, "completed", c)
  <2>1. Ledger!Leave(j, w, "completed") /\ strikes' = [strikes EXCEPT ![j] = c - 1]
    BY <1>4, <1>5, PhaseFacts, StrikesFacts DEF Left
  <2>2. QED
    BY <1>2, <1>3, <2>1 DEF Ledger!Complete
<1>6. CASE Left(j, "pending", c - 1)
  <2>1. Ledger!Leave(j, w, "queued") /\ strikes' = [strikes EXCEPT ![j] = c - 1]
    BY <1>4, <1>6, PhaseFacts, StrikesFacts DEF Left
  <2>2. QED
    BY <1>2, <1>3, <2>1 DEF Ledger!HandBack
<1>7. CASE c >= MaxAttempts(j) /\ Left(j, "failed", c)
  <2>1. Ledger!Leave(j, w, "failed") /\ strikes' = [strikes EXCEPT ![j] = c]
    BY <1>4, <1>7, PhaseFacts, StrikesFacts DEF Left
  <2>2. Ledger!AfterStrike(j) = "failed"
    BY <1>1, <1>2, <1>7 DEF Ledger!AfterStrike, Budget
  <2>3. QED
    BY <1>2, <2>1, <2>2 DEF Ledger!Strike
<1>8. CASE ~(c >= MaxAttempts(j)) /\ Left(j, "pending", c)
  <2>1. Ledger!Leave(j, w, "queued") /\ strikes' = [strikes EXCEPT ![j] = c]
    BY <1>4, <1>8, PhaseFacts, StrikesFacts DEF Left
  <2>2. Ledger!AfterStrike(j) = "queued"
    BY <1>1, <1>2, <1>8 DEF Ledger!AfterStrike, Budget
  <2>3. QED
    BY <1>2, <2>1, <2>2 DEF Ledger!Strike
<1>9. QED
  BY <1>5, <1>6, <1>7, <1>8, OutcomesLeft

\* A result that is recorded concludes the job, one that is lost changes
\* nothing.
LEMMA FinishIsConclusion ==
  ASSUME IInv, NEW w \in Workers, Finish(w)
  PROVE  Ledger!Next \/ UNCHANGED Ledger!ledger
<1>1. /\ ~HasClaim(w)' /\ UNCHANGED shared
      /\ \A v \in Workers \ {w} :
            pc'[v] = pc[v] /\ job'[v] = job[v] /\ claim'[v] = claim[v]
  BY StageFacts DEF Finish, LeavePass, Goto, HasClaim, IInv, TypeOK
<1>2. CASE ~Held(w)
  <2>1. UNCHANGED <<status, attempts, shared>>
    BY <1>1, <1>2 DEF Finish, rowVars
  <2>2. QED
    BY <1>1, <1>2, <2>1, MoveIsQuiet
<1>3. CASE Held(w)
  <2>1. PICK j \in Jobs, c \in Nat : j = job[w] /\ c = claim[w]
    BY <1>3, HolderFacts DEF IInv, TypeOK
  <2>2. RecordOutcome(w)
    BY <1>3 DEF Finish
  <2>3. Ledger!Complete(j, w) \/ Ledger!HandBack(j, w) \/ Ledger!Strike(j, w)
    BY <1>1, <1>3, <2>1, <2>2, RecordIsConclusion
  <2>4. QED
    BY <2>3 DEF Ledger!Next
<1>4. QED
  BY <1>2, <1>3

-----------------------------------------------------------------------------
LEMMA StepLedger == IInv /\ [Next]_vars => [Ledger!Next]_(Ledger!ledger)
<1> SUFFICES ASSUME IInv, [Next]_vars
             PROVE  Ledger!Next \/ UNCHANGED Ledger!ledger
  OBVIOUS
<1>1. CASE UNCHANGED vars
  BY <1>1, SameLedger DEF vars, Holds, Held, HasClaim
<1>2. ASSUME NEW j \in Jobs, Enqueue(j) \/ CheckOnce(j) \/ EnqueueOnce(j)
      PROVE  Ledger!Next \/ UNCHANGED Ledger!ledger
  BY <1>2, EnqueueIsSubmit DEF Ledger!Next
<1>3. ASSUME NEW w \in Workers, Claim(w)
      PROVE  Ledger!Next
  <2>1. job[w] \in Jobs
    BY <1>3 DEF Claim, IInv, RowLocks
  <2>2. QED
    BY <1>3, <2>1, ClaimIsTake
<1>4. ASSUME NEW w \in Workers,
             StartPass(w) \/ Work(w) \/ Renew(w) \/ DeferHandler(w)
      PROVE  Ledger!Next \/ UNCHANGED Ledger!ledger
  BY <1>3, <1>4, QuietIsQuiet, ReapStepIsGiveUp, PruneIsForget, AnnounceIsSubmit,
     FinishIsConclusion, TimeIsQuiet, ReadIsJoin DEF Work
<1>5. ASSUME NEW w \in Workers, Signal(w) \/ Crash(w)
      PROVE  Ledger!Next \/ UNCHANGED Ledger!ledger
  BY <1>5, QuietIsQuiet, CrashIsAbandon
<1>6. ASSUME NEW j \in Jobs, BecomeDue(j) \/ GoStale(j)
      PROVE  UNCHANGED Ledger!ledger
  BY <1>6, TimeIsQuiet
<1>7. QED
  BY <1>1, <1>2, <1>4, <1>5, <1>6 DEF Next

\* The queue keeps the ledger's promise: one holder, unless a worker joined
\* it, only a holder concludes, and a failure exactly at the last strike
\* (jobs.run_due, _finish, reap_stale).
THEOREM LedgerImplemented == Spec => ImplementsLedger
<1>1. Init => Ledger!Init
  BY InitLedger
<1>2. IInv /\ [Next]_vars => [Ledger!Next]_(Ledger!ledger)
  BY StepLedger
<1>3. QED
  BY <1>1, <1>2, Invariance, PTL DEF Spec, ImplementsLedger, Ledger!Spec
=============================================================================
