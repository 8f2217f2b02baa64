--------------------------- MODULE MCFileOperate ----------------------------
(* FileOperate with two pages.  Both overwrite the file, with one block and *)
(* with two, and append to it; the second one reads it.                     *)
EXTENDS FileOperate

MCRequests == {"w1", "a1", "w2", "a2", "r2"}
MCPage == [r \in MCRequests |-> IF r \in {"w1", "a1"} THEN "p1" ELSE "p2"]
MCOp == [r \in MCRequests |-> CASE r \in {"w1", "w2"} -> "write"
                                [] r \in {"a1", "a2"} -> "append"
                                [] r = "r2" -> "read"]
MCSize == [r \in MCRequests |-> IF r = "w1" THEN 1 ELSE 2]
=============================================================================
