--------------------------- MODULE MCWebSqlSystem ---------------------------
(* WebSqlSystem on small instances; the cfg files give the sets.           *)
EXTENDS WebSqlSystem, TLC

MCSymmetry == Permutations(Conns)
=============================================================================
