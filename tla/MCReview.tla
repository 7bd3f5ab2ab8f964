------------------------------ MODULE MCReview ------------------------------
(* Review with a row that is older than the column for its first answer. *)
EXTENDS Review

MCOldRows ==
  {[state |-> [due |-> 2, first |-> -1, interval |-> 3, reps |-> 2, ease |-> 2500, lapses |-> 0],
    log |-> <<[day |-> 0, verdict |-> "correct", credit |-> -1]>>]}
=============================================================================
