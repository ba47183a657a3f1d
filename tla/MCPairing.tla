----------------------------- MODULE MCPairing -----------------------------
(* Minted tokens are interchangeable, and so are addresses and requests. *)
EXTENDS Pairing, TLC

PairingSymmetry ==
    Permutations(Token \ HandMade) \cup Permutations(Addr) \cup Permutations(Job)
=============================================================================
