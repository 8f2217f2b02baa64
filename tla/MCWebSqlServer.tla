--------------------------- MODULE MCWebSqlServer ---------------------------
(* WebSqlServer on small instances; the cfg files give the sets.           *)
EXTENDS WebSqlServer, TLC

MCSymmetry == Permutations(Conns) \cup Permutations(Requests)
=============================================================================
