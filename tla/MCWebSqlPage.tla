---------------------------- MODULE MCWebSqlPage ----------------------------
(* WebSqlPage on small instances; the cfg files give the sets.             *)
EXTENDS WebSqlPage, TLC

MCSymmetry == Permutations(Conns)
=============================================================================
