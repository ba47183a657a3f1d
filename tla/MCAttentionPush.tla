-------------------------- MODULE MCAttentionPush --------------------------
(* Mapped items on one shared card, for TLC. *)
EXTENDS AttentionPush, TLC

CONSTANT theCard

MCCardOf == [i \in Item |-> theCard]
MCRetryDelay == [n \in 1..(MaxAttempts - 1) |-> 1]
MCNoDelay == [n \in 1..(MaxAttempts - 1) |-> 0]
Symmetry == Permutations(Item) \cup Permutations(Job) \cup Permutations(FireClass)
=============================================================================
