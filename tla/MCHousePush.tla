---------------------------- MODULE MCHousePush ----------------------------
(* Pushes are interchangeable, and so are property ids. *)
EXTENDS HousePush, TLC

PushSymmetry == Permutations(Push) \cup Permutations(Id)
=============================================================================
