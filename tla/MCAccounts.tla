------------------------------ MODULE MCAccounts ------------------------------
(* Browsers are alike, and so are the processes that sync. *)
EXTENDS Accounts, TLC

Symmetry == Permutations(Browsers) \union Permutations(Syncs)
=============================================================================
