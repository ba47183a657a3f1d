--------------------------- MODULE MCMemberAccess ---------------------------
(* MemberAccess on small instances: every member was minted for one principal. *)
EXTENDS MemberAccess, TLC

OnePrincipal == [m \in Member |-> CHOOSE p \in Principal : TRUE]

Alike == Permutations(Member) \cup Permutations(Job) \cup Permutations(Source)
=============================================================================
