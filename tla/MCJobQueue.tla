------------------------------ MODULE MCJobQueue ------------------------------
(* Small instances of JobQueue for TLC. *)
EXTENDS JobQueue, TLC

CONSTANTS s1, p1, p2, n1, n2, u1, w1, w2

MCType == [j \in Jobs |->
             CASE j = s1 -> "sync" [] j \in {p1, p2} -> "pipeline" [] OTHER -> Notify]
MCTarget == [j \in Jobs |-> u1]

Symmetry == Permutations(Workers)
=============================================================================
