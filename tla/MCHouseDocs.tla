---------------------------- MODULE MCHouseDocs ----------------------------
(* Requests and call-list rows are interchangeable. *)
EXTENDS HouseDocs, TLC

DocsSymmetry == Permutations(Job) \cup Permutations(Contact)
=============================================================================
