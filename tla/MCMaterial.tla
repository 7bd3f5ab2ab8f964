------------------------------ MODULE MCMaterial ------------------------------
(* Small instances of Material for TLC. *)
EXTENDS Material, TLC

CONSTANTS u1, u2, s1, s2

\* Two syncs of one user's row, or one of each user's.
OneRow == [s \in Syncs |-> u1]
TwoRows == [s \in Syncs |-> IF s = s1 THEN u1 ELSE u2]

Case(kind_, of_, edits_, deploys_, faults_) ==
  [kind |-> kind_, of |-> of_, edits |-> edits_, deploys |-> deploys_, faults |-> faults_]

\* Edits, a deployment and two failures of a page; an edit or a fault of a file;
\* copies from another user's row of either.
MCCases ==
  {Case("page", OneRow, 2, 0, 0), Case("page", OneRow, 1, 1, 0),
   Case("page", OneRow, 0, 0, 2), Case("page", TwoRows, 1, 0, 1),
   Case("file", OneRow, 1, 0, 0), Case("file", OneRow, 0, 0, 1),
   Case("file", TwoRows, 1, 0, 0)}

MCFileCase == {Case("file", OneRow, 1, 0, 0)}
=============================================================================
