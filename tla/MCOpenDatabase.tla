--------------------------- MODULE MCOpenDatabase ---------------------------
(* OpenDatabase on small instances; the cfg files give the sets.           *)
EXTENDS OpenDatabase, TLC

MCSymmetry == Permutations(Objects) \cup Permutations(Names)
=============================================================================
