--------------------------- MODULE MCTheoryStore ---------------------------
(* Instances of TheoryStore small enough for TLC.                          *)
EXTENDS TheoryStoreInv, TLC

CONSTANTS c1, c2, c3, f1

OneFile == <<f1>>
ClientSymmetry == Permutations(Clients)
=============================================================================
