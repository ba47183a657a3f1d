----------------------------- MODULE MCPqShield -----------------------------
EXTENDS PqShield, TLC

\* Requests are interchangeable.
ShieldSymmetry == Permutations(Job)
=============================================================================
