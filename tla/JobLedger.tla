------------------------------ MODULE JobLedger ------------------------------
(***************************************************************************)
(* What the job queue promises, without leases, tokens or transactions.    *)
(*                                                                         *)
(* A job that is submitted is taken by one worker at a time, unless a      *)
(* worker that had lost it joins the one that has it: from then on the job *)
(* is shared.  Only a worker that holds it concludes it, and that ends the *)
(* hold of all.  A failed attempt and an attempt whose worker was given up *)
(* are strikes; handing the job back is none.  A job fails at its last     *)
(* strike and never before.                                                *)
(***************************************************************************)
EXTENDS Integers

CONSTANTS Jobs, Workers, Budget

VARIABLES
  phase,   \* where a job is in its life
  holder,  \* the workers that hold it
  strikes, \* attempts that failed or were given up
  shared   \* the jobs a second worker joined

ledger == <<phase, holder, strikes, shared>>

Finished == {"completed", "failed"}

Init ==
  /\ phase = [j \in Jobs |-> "absent"]
  /\ holder = [j \in Jobs |-> {}]
  /\ strikes = [j \in Jobs |-> 0]
  /\ shared = {}

Submit(j) ==
  /\ phase[j] = "absent"
  /\ phase' = [phase EXCEPT ![j] = "queued"]
  /\ UNCHANGED <<holder, strikes, shared>>

\* w takes a job, with those who held it before if it is shared.
Take(j, w) ==
  /\ phase[j] = "queued"
  /\ strikes[j] < Budget[j]
  /\ phase' = [phase EXCEPT ![j] = "taken"]
  /\ \E H \in SUBSET Workers :
       /\ w \in H
       /\ j \notin shared => H = {w}
       /\ holder' = [holder EXCEPT ![j] = H]
  /\ UNCHANGED <<strikes, shared>>

\* w, which does not hold the job, joins whoever holds it.
Join(j, w) ==
  /\ phase[j] = "taken"
  /\ w \notin holder[j]
  /\ holder' = [holder EXCEPT ![j] = holder[j] \union {w}]
  /\ shared' = shared \union {j}
  /\ UNCHANGED <<phase, strikes>>

\* A holder w concludes its job, or hands it back.
Leave(j, w, to) ==
  /\ phase[j] = "taken"
  /\ w \in holder[j]
  /\ phase' = [phase EXCEPT ![j] = to]
  /\ holder' = [holder EXCEPT ![j] = {}]
  /\ UNCHANGED shared

Complete(j, w) == Leave(j, w, "completed") /\ UNCHANGED strikes

HandBack(j, w) == Leave(j, w, "queued") /\ UNCHANGED strikes

AfterStrike(j) == IF strikes[j] + 1 = Budget[j] THEN "failed" ELSE "queued"

Strike(j, w) ==
  /\ Leave(j, w, AfterStrike(j))
  /\ strikes' = [strikes EXCEPT ![j] = strikes[j] + 1]

\* A holder dies; unless it was one of several, nobody can conclude the job
\* before it is given up.
Abandon(j, w) ==
  /\ phase[j] = "taken"
  /\ w \in holder[j]
  /\ holder' = [holder EXCEPT ![j] = holder[j] \ {w}]
  /\ UNCHANGED <<phase, strikes, shared>>

\* Attempts are given up on, whether their workers live or not.
GiveUp(S) ==
  /\ \A j \in S : phase[j] = "taken"
  /\ phase' = [j \in Jobs |-> IF j \in S THEN AfterStrike(j) ELSE phase[j]]
  /\ holder' = [j \in Jobs |-> IF j \in S THEN {} ELSE holder[j]]
  /\ strikes' = [j \in Jobs |-> IF j \in S THEN strikes[j] + 1 ELSE strikes[j]]
  /\ UNCHANGED shared

\* Finished jobs are forgotten, and their strikes with them.
Forget(S) ==
  /\ \A j \in S : phase[j] \in Finished
  /\ phase' = [j \in Jobs |-> IF j \in S THEN "forgotten" ELSE phase[j]]
  /\ strikes' = [j \in Jobs |-> IF j \in S THEN 0 ELSE strikes[j]]
  /\ UNCHANGED <<holder, shared>>

Next ==
  \/ \E j \in Jobs : Submit(j)
  \/ \E j \in Jobs, w \in Workers :
       \/ Take(j, w) \/ Join(j, w) \/ Abandon(j, w)
       \/ Complete(j, w) \/ HandBack(j, w) \/ Strike(j, w)
  \/ \E S \in SUBSET Jobs : GiveUp(S) \/ Forget(S)

Spec == Init /\ [][Next]_ledger
=============================================================================
