------------------------------- MODULE MCChat -------------------------------
(* Chat on small instances: every guest was invited for one principal. *)
EXTENDS Chat, TLC

OnePrincipal == [g \in Guest |-> CHOOSE p \in Principal : TRUE]

Alike == Permutations(Guest) \cup Permutations(Job)
=============================================================================
