------------------------- MODULE FileOperateProofs --------------------------
(***************************************************************************)
(* Theorems about FileOperate for any requests, pages, sizes and faults.   *)
(*                                                                         *)
(* The invariant says how far each handler is (StageInv), that one write   *)
(* call at a time has the file (WriterInv), whose blocks are in it         *)
(* (BlockInv), that nothing which is not spoiled has an overwriting write  *)
(* open beside it (AloneInv), and from there where the blocks of each      *)
(* change are (PieceInv) and what each read has got (ReadInv, OwnInv).     *)
(***************************************************************************)
EXTENDS FileOperate, SequenceTheorems, TLAPS

Blocks == Changes \X Nat
Ended == {"done", "failed"}

Shape ==
  /\ content \in Seq(Blocks)
  /\ writer \in Changes \cup {"none"}
  /\ call \in [Requests -> {"none", "waiting", "returned", "broken"}]
  /\ pc \in [Requests -> {"none", "sent", "opened", "done", "failed"}]
  /\ offset \in [Requests -> Nat]
  /\ answer \in [Requests -> Seq(Blocks)]
  /\ before \in [Requests -> SUBSET Requests]
  /\ spoiled \in SUBSET Requests
  /\ wiped \in SUBSET Requests

\* How far the handler and the call of r are.
Stage(r) ==
  /\ call[r] = "none" => pc[r] = "none"
  /\ pc[r] \in {"none", "sent"} => offset[r] = 0
  /\ pc[r] \in {"none", "sent", "failed"} => answer[r] = <<>>
  /\ r \in Changes => /\ pc[r] = "opened" => offset[r] < Size[r]
                      /\ pc[r] = "done" => offset[r] = Size[r]
                      /\ pc[r] = "opened" /\ offset[r] > 0 => writer = r
  /\ call[r] = "returned" => pc[r] \in Ended
  /\ \A q \in before[r] : pc[q] \in Ended

StageInv == \A r \in Requests : Stage(r)

WriterInv == writer # "none" => pc[writer] = "opened"

\* A block in the file was put there once, by a handler that has come that far
\* and had not ended before the last truncation.
BlockInv ==
  /\ \A j \in 1..Len(content) : /\ content[j][2] \in 1..offset[content[j][1]]
                                /\ content[j][1] \notin wiped
  /\ \A i, j \in 1..Len(content) : content[i] = content[j] => i = j
  /\ \A r \in wiped : pc[r] \in Ended

\* An overwriting write is open beside a request only if it spoils it.
AloneInv ==
  \A r \in Requests \ spoiled : \A q \in Requests \ {r} :
    pc[r] \in {"opened", "done"} /\ Op[q] = "write" => pc[q] # "opened"

\* The blocks that r has written so far begin behind place k.  An append that
\* is writing is at the end of the file, a write began at its beginning.
PieceAt(r, k) ==
  /\ k + offset[r] <= Len(content)
  /\ \A i \in 1..offset[r] : content[k + i] = <<r, i>>
  /\ Op[r] = "write" => k = 0
  /\ Op[r] = "append" /\ pc[r] = "opened" /\ offset[r] > 0 =>
       k + offset[r] = Len(content)

Piece(r) == \E k \in Nat : PieceAt(r, k)

PieceInv ==
  \A r \in Changes \ spoiled : pc[r] \in {"opened", "done"} => Piece(r)

\* A read has got the file up to where it is.
Got(r) ==
  /\ Len(answer[r]) = offset[r] /\ offset[r] <= Len(content)
  /\ \A i \in 1..offset[r] : answer[r][i] = content[i]

ReadInv ==
  \A r \in Requests \ (Changes \cup spoiled) :
    pc[r] \in {"opened", "done"} => Got(r)

\* All data of c are in the answer of r.
Has(r, c) ==
  \A i \in 1..Size[c] : \E j \in 1..Len(answer[r]) : answer[r][j] = <<c, i>>

OwnInv ==
  \A r \in Requests \ (Changes \cup spoiled) :
    pc[r] = "done" =>
      \A c \in (before[r] \cap Changes) \ spoiled : pc[c] = "failed" \/ Has(r, c)

Inv ==
  /\ Shape /\ StageInv /\ WriterInv /\ BlockInv /\ AloneInv
  /\ PieceInv /\ ReadInv /\ OwnInv

-----------------------------------------------------------------------------
\* What the code justifies of the constants.
LEMMA ChangeFacts ==
  ASSUME NEW r \in Changes
  PROVE  /\ r \in Requests /\ r # "none" /\ Op[r] \in {"write", "append"}
         /\ Size[r] \in Nat \ {0}
<1>1. r \in Requests /\ Op[r] # "read"
  BY DEF Changes
<1> QED
  BY <1>1, FileAssumption

LEMMA NotNone == "none" \notin Requests
  BY FileAssumption

\* The types at one request.
LEMMA RequestFacts ==
  ASSUME Inv, NEW r \in Requests
  PROVE  /\ offset[r] \in Nat /\ answer[r] \in Seq(Blocks)
         /\ pc[r] \in {"none", "sent", "opened", "done", "failed"}
         /\ call[r] \in {"none", "waiting", "returned", "broken"}
         /\ before[r] \subseteq Requests /\ Len(answer[r]) \in Nat
  BY LenProperties DEF Inv, Shape

LEMMA ContentFacts ==
  ASSUME Inv
  PROVE  /\ content \in Seq(Blocks) /\ Len(content) \in Nat
         /\ \A j \in 1..Len(content) :
              /\ content[j] \in Blocks /\ content[j][1] \in Changes
              /\ content[j][1] \in Requests
<1>1. content \in Seq(Blocks) /\ Len(content) \in Nat
  BY LenProperties DEF Inv, Shape
<1>2. \A j \in 1..Len(content) : content[j] \in Blocks
  BY <1>1, ElementOfSeq
<1> QED
  BY <1>1, <1>2 DEF Blocks, Changes

-----------------------------------------------------------------------------
(* Steps that leave the file alone                                         *)

\* A step of one request, which neither opens the file nor ends with it.
Aside(r) ==
  /\ UNCHANGED <<content, spoiled, wiped, offset>>
  /\ \A q \in Requests \ {r} :
       pc'[q] = pc[q] /\ before'[q] = before[q] /\ answer'[q] = answer[q]
  /\ \/ pc'[r] = pc[r] /\ before'[r] = before[r] /\ answer'[r] = answer[r]
     \/ pc[r] \notin Ended /\ pc'[r] \in {"sent", "failed"}

LEMMA AsideKeeps ==
  ASSUME Inv, NEW r \in Requests, Aside(r)
  PROVE  BlockInv' /\ AloneInv' /\ PieceInv' /\ ReadInv' /\ OwnInv'
<1> USE DEF Inv, Aside
<1>1. BlockInv'
  BY DEF BlockInv, Ended, Shape
<1>2. AloneInv'
  BY DEF AloneInv
<1>3. PieceInv'
  <2> SUFFICES ASSUME NEW q \in Changes \ spoiled', pc'[q] \in {"opened", "done"}
               PROVE  Piece(q)'
    BY DEF PieceInv
  <2>1. q \in Requests
    BY DEF Changes
  <2>2. pc[q] = pc'[q] /\ q \in Changes \ spoiled
    BY <2>1
  <2>3. PICK k \in Nat : PieceAt(q, k)
    BY <2>2 DEF PieceInv, Piece
  <2>4. PieceAt(q, k)'
    BY <2>2, <2>3 DEF PieceAt
  <2> QED
    BY <2>4 DEF Piece
<1>4. ReadInv'
  BY DEF ReadInv, Got
<1>5. OwnInv'
  <2> SUFFICES ASSUME NEW q \in Requests \ (Changes \cup spoiled), pc'[q] = "done",
                      NEW c \in (before'[q] \cap Changes) \ spoiled
               PROVE  pc'[c] = "failed" \/ Has(q, c)'
    BY DEF OwnInv
  <2>1. pc[q] = "done" /\ before'[q] = before[q] /\ answer'[q] = answer[q]
    OBVIOUS
  <2>2. pc[c] = "failed" \/ Has(q, c)
    BY <2>1 DEF OwnInv
  <2>3. c \in Requests /\ (pc[c] = "failed" => pc'[c] = "failed")
    BY DEF Changes, Ended
  <2> QED
    BY <2>1, <2>2, <2>3 DEF Has
<1> QED
  BY <1>1, <1>2, <1>3, <1>4, <1>5

LEMMA SendStep ==
  ASSUME Inv, NEW r \in Requests, Send(r) PROVE Inv'
<1> DEFINE back == {q \in Siblings(r) : call[q] = "returned"}
<1>1. /\ call[r] = "none" /\ call' = [call EXCEPT ![r] = "waiting"]
      /\ pc' = [pc EXCEPT ![r] = "sent"] /\ before' = [before EXCEPT ![r] = back]
      /\ UNCHANGED <<content, writer, offset, answer, spoiled, wiped>>
  BY DEF Send, Start
<1>2. StageInv /\ pc[r] = "none"
  BY <1>1 DEF Inv, StageInv, Stage
<1>3. back \subseteq Requests \ {r} /\ \A q \in back : call[q] = "returned"
  BY DEF Siblings
<1> HIDE DEF back
<1>4. Shape'
  BY <1>1, <1>3 DEF Inv, Shape
<1>5. /\ pc'[r] = "sent" /\ call'[r] = "waiting" /\ before'[r] = back
      /\ \A q \in Requests \ {r} :
           pc'[q] = pc[q] /\ call'[q] = call[q] /\ before'[q] = before[q]
  BY <1>1 DEF Inv, Shape
<1>6. Aside(r)
  BY <1>1, <1>2, <1>5 DEF Aside, Ended
<1>7. \A q \in back : pc'[q] \in Ended
  BY <1>2, <1>3, <1>5 DEF StageInv, Stage
<1>8. StageInv'
  <2>1. Stage(r)'
    BY <1>1, <1>2, <1>5, <1>7 DEF StageInv, Stage
  <2>2. ASSUME NEW q \in Requests \ {r} PROVE Stage(q)'
    <3>1. Stage(q) /\ before[q] \subseteq Requests
      BY <1>2, RequestFacts DEF StageInv
    <3>2. \A x \in before[q] : pc'[x] \in Ended
      BY <1>2, <1>5, <3>1 DEF Stage, Ended
    <3> QED
      BY <1>1, <1>5, <3>1, <3>2 DEF Stage
  <2> QED
    BY <2>1, <2>2 DEF StageInv
<1>9. WriterInv'
  BY <1>1, <1>2, <1>5, ChangeFacts DEF Inv, Shape, WriterInv
<1> QED
  BY <1>4, <1>6, <1>8, <1>9, AsideKeeps DEF Inv

\* Return and Break: the page's call ends, and the request may be lost.
LEMMA CallStep ==
  ASSUME Inv, NEW r \in Requests, Return(r) \/ Break(r) PROVE Inv'
<1>1. PICK how \in {"returned", "broken"} : call' = [call EXCEPT ![r] = how]
                                            /\ (how = "returned" => pc[r] \in Ended)
  BY DEF Return, Break, Ended
<1>2. /\ UNCHANGED <<content, writer, offset, answer, before, spoiled, wiped>>
      /\ pc' = pc \/ (pc[r] = "sent" /\ pc' = [pc EXCEPT ![r] = "failed"])
      /\ call[r] = "waiting"
  BY DEF Return, Break
<1>3. /\ Shape' /\ \A q \in Requests \ {r} : pc'[q] = pc[q] /\ call'[q] = call[q]
      /\ call'[r] = how
      /\ pc'[r] = pc[r] \/ (pc[r] = "sent" /\ pc'[r] = "failed")
  BY <1>1, <1>2 DEF Inv, Shape
<1>4. Aside(r)
  BY <1>2, <1>3 DEF Aside, Ended
<1>5. StageInv'
  <2> SUFFICES ASSUME NEW q \in Requests PROVE Stage(q)'
    BY DEF StageInv
  <2>1. Stage(q) /\ Stage(r) /\ before[q] \subseteq Requests
    BY RequestFacts DEF Inv, StageInv
  <2>2. \A x \in before[q] : pc'[x] \in Ended
    BY <1>3, <2>1 DEF Stage, Ended
  <2> QED
    BY <1>1, <1>2, <1>3, <2>1, <2>2 DEF Stage, Ended
<1>6. WriterInv'
  BY <1>2, <1>3, ChangeFacts DEF Inv, Shape, WriterInv
<1> QED
  BY <1>3, <1>4, <1>5, <1>6, AsideKeeps DEF Inv

LEMMA FailStep ==
  ASSUME Inv, NEW r \in Requests, Fail(r) PROVE Inv'
<1>1. /\ pc[r] \in {"sent", "opened"} /\ pc' = [pc EXCEPT ![r] = "failed"]
      /\ writer' = IF writer = r THEN "none" ELSE writer
      /\ answer' = [answer EXCEPT ![r] = <<>>]
      /\ UNCHANGED <<content, call, offset, before, spoiled, wiped>>
  BY DEF Fail
<1>2. /\ Shape' /\ pc'[r] = "failed" /\ answer'[r] = <<>>
      /\ \A q \in Requests \ {r} : pc'[q] = pc[q] /\ answer'[q] = answer[q]
  BY <1>1, EmptySeq DEF Inv, Shape
<1>3. Aside(r)
  BY <1>1, <1>2 DEF Aside, Ended
<1>4. StageInv'
  <2> SUFFICES ASSUME NEW q \in Requests PROVE Stage(q)'
    BY DEF StageInv
  <2>1. Stage(q) /\ Stage(r) /\ before[q] \subseteq Requests
    BY RequestFacts DEF Inv, StageInv
  <2>2. \A x \in before[q] : pc'[x] \in Ended
    BY <1>2, <2>1 DEF Stage, Ended
  <2> QED
    BY <1>1, <1>2, <2>1, <2>2 DEF Stage, Ended
<1>5. WriterInv'
  BY <1>1, <1>2, ChangeFacts DEF Inv, Shape, WriterInv
<1> QED
  BY <1>2, <1>3, <1>4, <1>5, AsideKeeps DEF Inv

-----------------------------------------------------------------------------
(* OpenFile                                                                *)

LEMMA OpenStep ==
  ASSUME Inv, NEW r \in Requests, OpenFile(r) PROVE Inv'
<1> DEFINE opened == {q \in Requests : pc[q] = "opened"}
           ended == {q \in Requests : pc[q] \in {"done", "failed"}}
<1>1. /\ pc[r] = "sent" /\ pc' = [pc EXCEPT ![r] = "opened"]
      /\ \/ Op[r] = "write" /\ writer = "none" /\ content' = <<>>
         \/ Op[r] # "write" /\ content' = content
      /\ UNCHANGED <<writer, call, offset, answer, before>>
  BY DEF OpenFile
<1>2. /\ spoiled' = spoiled
             \cup (IF Op[r] = "write" THEN opened \cup ended ELSE {})
             \cup {q \in {r} : \E o \in opened : Op[o] = "write"}
      /\ wiped' = IF Op[r] = "write" THEN wiped \cup ended ELSE wiped
  BY DEF OpenFile, Opens
<1>3. /\ spoiled \subseteq spoiled'
      /\ Op[r] = "write" =>
           \A q \in Requests : pc[q] \in {"opened", "done", "failed"} => q \in spoiled'
      /\ r \notin spoiled' => \A q \in Requests : Op[q] = "write" => pc[q] # "opened"
      /\ spoiled' \subseteq Requests
  BY <1>2 DEF Inv, Shape
<1>4. /\ wiped' \subseteq Requests
      /\ \A q \in wiped' : q \in wiped \/ pc[q] \in Ended
      /\ Op[r] # "write" => wiped' = wiped
  BY <1>2 DEF Inv, Shape, Ended
<1> HIDE DEF opened, ended
<1>5. pc'[r] = "opened" /\ \A q \in Requests \ {r} : pc'[q] = pc[q]
  BY <1>1 DEF Inv, Shape
<1>6. Shape'
  BY <1>1, <1>3, <1>4, EmptySeq DEF Inv, Shape
<1>7. offset[r] = 0 /\ answer[r] = <<>> /\ call[r] # "none"
  BY <1>1 DEF Inv, StageInv, Stage
<1>8. StageInv'
  <2> SUFFICES ASSUME NEW q \in Requests PROVE Stage(q)'
    BY DEF StageInv
  <2>1. Stage(q) /\ Stage(r) /\ before[q] \subseteq Requests
    BY RequestFacts DEF Inv, StageInv
  <2>2. \A x \in before[q] : pc'[x] \in Ended
    BY <1>1, <1>5, <2>1 DEF Stage, Ended
  <2>3. r \in Changes => offset[r] < Size[r]
    BY <1>7, ChangeFacts
  <2> QED
    BY <1>1, <1>5, <1>7, <2>1, <2>2, <2>3 DEF Stage, Ended
<1>9. WriterInv'
  BY <1>1, <1>5, ChangeFacts DEF Inv, Shape, WriterInv
<1>10. BlockInv'
  <2>1. \A q \in wiped' : pc'[q] \in Ended
    BY <1>1, <1>4, <1>5 DEF Inv, Shape, BlockInv, Ended
  <2>2. CASE Op[r] = "write"
    <3>1. content' = <<>> /\ Len(content') = 0
      BY <1>1, <2>2, EmptySeq
    <3> QED
      BY <2>1, <3>1 DEF BlockInv
  <2>3. CASE Op[r] # "write"
    <3>1. content' = content /\ wiped' = wiped /\ offset' = offset
      BY <1>1, <1>4, <2>3
    <3> QED
      BY <2>1, <3>1 DEF Inv, BlockInv
  <2> QED
    BY <2>2, <2>3
<1>11. AloneInv'
  <2> SUFFICES ASSUME NEW x \in Requests \ spoiled', NEW q \in Requests \ {x},
                      pc'[x] \in {"opened", "done"}, Op[q] = "write"
               PROVE  pc'[q] # "opened"
    BY DEF AloneInv
  <2>1. CASE x = r
    BY <1>3, <1>5, <2>1
  <2>2. CASE x # r
    <3>1. pc[x] \in {"opened", "done"} /\ x \notin spoiled
      BY <1>3, <1>5, <2>2
    <3>2. pc[q] # "opened" /\ Op[r] # "write"
      BY <1>3, <3>1 DEF Inv, AloneInv
    <3> QED
      BY <1>5, <3>2
  <2> QED
    BY <2>1, <2>2
<1>12. PieceInv'
  <2> SUFFICES ASSUME NEW q \in Changes \ spoiled', pc'[q] \in {"opened", "done"}
               PROVE  Piece(q)'
    BY DEF PieceInv
  <2>1. q \in Requests
    BY DEF Changes
  <2>2. CASE q = r
    <3>1. Len(content') \in Nat
      BY <1>6, LenProperties DEF Shape
    <3>2. PieceAt(q, 0)'
      BY <1>1, <1>7, <2>2, <3>1 DEF PieceAt
    <3> QED
      BY <3>2 DEF Piece
  <2>3. CASE q # r
    <3>1. pc[q] = pc'[q] /\ q \notin spoiled
      BY <1>3, <1>5, <2>1, <2>3
    <3>2. Op[r] # "write"
      BY <1>3, <2>1, <3>1
    <3>3. content' = content /\ writer' = writer /\ offset' = offset
      BY <1>1, <3>2
    <3>4. PICK k \in Nat : PieceAt(q, k)
      BY <3>1 DEF Inv, PieceInv, Piece
    <3>5. PieceAt(q, k)'
      BY <3>1, <3>3, <3>4 DEF PieceAt
    <3> QED
      BY <3>5 DEF Piece
  <2> QED
    BY <2>2, <2>3
<1>13. ReadInv'
  <2> SUFFICES ASSUME NEW q \in Requests \ (Changes \cup spoiled'),
                      pc'[q] \in {"opened", "done"}
               PROVE  Got(q)'
    BY DEF ReadInv
  <2>1. CASE q = r
    <3>1. Len(content') \in Nat
      BY <1>6, LenProperties DEF Shape
    <3> QED
      BY <1>1, <1>7, <2>1, <3>1, EmptySeq DEF Got
  <2>2. CASE q # r
    <3>1. pc[q] = pc'[q] /\ q \notin spoiled
      BY <1>3, <1>5, <2>2
    <3>2. Op[r] # "write"
      BY <1>3, <3>1
    <3> QED
      BY <1>1, <3>1, <3>2 DEF Inv, ReadInv, Got
  <2> QED
    BY <2>1, <2>2
<1>14. OwnInv'
  <2> SUFFICES ASSUME NEW q \in Requests \ (Changes \cup spoiled'), pc'[q] = "done",
                      NEW c \in (before'[q] \cap Changes) \ spoiled'
               PROVE  pc'[c] = "failed" \/ Has(q, c)'
    BY DEF OwnInv
  <2>1. pc[q] = "done" /\ q \notin spoiled /\ c \notin spoiled /\ before' = before
    BY <1>1, <1>3, <1>5
  <2>2. pc[c] = "failed" \/ Has(q, c)
    BY <2>1 DEF Inv, OwnInv
  <2>3. c \in Requests /\ (pc[c] = "failed" => pc'[c] = "failed")
    BY <1>1, <1>5 DEF Changes
  <2> QED
    BY <1>1, <2>2, <2>3 DEF Has
<1> QED
  BY <1>6, <1>8, <1>9, <1>10, <1>11, <1>12, <1>13, <1>14 DEF Inv

-----------------------------------------------------------------------------
(* Read                                                                    *)

LEMMA ReadStep ==
  ASSUME Inv, NEW r \in Requests, Read(r) PROVE Inv'
<1>1. /\ Op[r] = "read" /\ pc[r] = "opened"
      /\ UNCHANGED <<content, writer, call, before, spoiled, wiped>>
  BY DEF Read
<1>2. r \notin Changes
  BY <1>1 DEF Changes
<1>3. PICK n \in Nat : n = Len(content)
  BY ContentFacts
<1>4. PICK o \in Nat : o = offset[r]
  BY RequestFacts
<1>5. \A q \in Requests \ {r} :
        pc'[q] = pc[q] /\ offset'[q] = offset[q] /\ answer'[q] = answer[q]
  BY DEF Read, Inv, Shape
<1>6. CASE AtEnd(r)
  <2>1. /\ pc' = [pc EXCEPT ![r] = "done"] /\ UNCHANGED <<offset, answer>>
        /\ n <= o
    BY <1>3, <1>4, <1>6 DEF Read, AtEnd
  <2>2. pc'[r] = "done" /\ Shape'
    BY <1>1, <2>1 DEF Inv, Shape
  <2>3. StageInv'
    <3> SUFFICES ASSUME NEW q \in Requests PROVE Stage(q)'
      BY DEF StageInv
    <3>1. Stage(q) /\ Stage(r) /\ before[q] \subseteq Requests
      BY RequestFacts DEF Inv, StageInv
    <3>2. \A x \in before[q] : pc'[x] \in Ended
      BY <1>5, <2>2, <3>1 DEF Stage, Ended
    <3> QED
      BY <1>1, <1>2, <1>5, <2>1, <2>2, <3>1, <3>2 DEF Stage, Ended
  <2>4. WriterInv' /\ BlockInv'
    <3>1. WriterInv'
      BY <1>1, <1>2, <1>5, <2>2, ChangeFacts DEF Inv, Shape, WriterInv
    <3>2. \A q \in wiped : pc'[q] \in Ended
      BY <1>5, <2>2 DEF Inv, Shape, BlockInv, Ended
    <3> QED
      BY <1>1, <2>1, <3>1, <3>2 DEF Inv, BlockInv
  <2>5. AloneInv'
    BY <1>1, <1>5, <2>2 DEF Inv, AloneInv
  <2>6. PieceInv'
    BY <1>1, <1>2, <1>5, <2>1 DEF Inv, PieceInv, Piece, PieceAt, Changes
  <2>7. ReadInv'
    BY <1>1, <1>5, <2>1, <2>2 DEF Inv, ReadInv, Got
  <2>8. OwnInv'
    <3>5. \A q \in Requests, c \in Changes : Has(q, c)' <=> Has(q, c)
      BY <2>1 DEF Has
    <3> SUFFICES ASSUME NEW q \in Requests \ (Changes \cup spoiled), pc'[q] = "done",
                        NEW c \in (before[q] \cap Changes) \ spoiled
                 PROVE  pc'[c] = "failed" \/ Has(q, c)
      BY <1>1, <3>5 DEF OwnInv
    <3>1. c \in Requests /\ c # r /\ pc'[c] = pc[c]
      BY <1>2, <1>5 DEF Changes
    <3>2. CASE q # r
      BY <1>5, <3>1, <3>2 DEF Inv, OwnInv
    <3>3. CASE q = r
      <4>1. Got(r)
        BY <1>1, <3>3 DEF Inv, ReadInv
      <4>2. Len(answer[r]) = n /\ \A i \in 1..n : answer[r][i] = content[i]
        <5>1. o <= n /\ o = n
          BY <1>3, <1>4, <2>1, <4>1 DEF Got
        <5> QED
          BY <1>4, <4>1, <5>1 DEF Got
      <4>3. pc[c] \in Ended
        BY <3>3 DEF Inv, StageInv, Stage
      <4>4. CASE pc[c] = "done"
        <5>1. PICK k \in Nat : PieceAt(c, k)
          BY <4>4 DEF Inv, PieceInv, Piece
        <5>2. PICK m \in Nat : m = Size[c] /\ m = offset[c]
          BY <3>1, <4>4, ChangeFacts DEF Inv, StageInv, Stage
        <5>3. k + m <= n /\ \A i \in 1..m : content[k + i] = <<c, i>>
          BY <1>3, <5>1, <5>2 DEF PieceAt
        <5>4. \A i \in 1..m : k + i \in 1..n /\ answer[r][k + i] = <<c, i>>
          BY <4>2, <5>3
        <5> QED
          BY <3>3, <4>2, <5>2, <5>4 DEF Has
      <4> QED
        BY <3>1, <4>3, <4>4 DEF Ended
    <3> QED
      BY <3>2, <3>3
  <2> QED
    BY <2>2, <2>3, <2>4, <2>5, <2>6, <2>7, <2>8 DEF Inv
<1>7. CASE ~AtEnd(r)
  <2>1. /\ offset' = [offset EXCEPT ![r] = o + 1] /\ pc' = pc
        /\ answer' = [answer EXCEPT ![r] = Append(answer[r], content[o + 1])]
        /\ o < n
    BY <1>3, <1>4, <1>7 DEF Read, AtEnd
  <2>2. content[o + 1] \in Blocks /\ answer[r] \in Seq(Blocks)
    BY <1>3, <1>4, <2>1, ContentFacts, RequestFacts
  <2>3. PICK more \in Seq(Blocks) : more = Append(answer[r], content[o + 1])
    BY <2>2, AppendProperties
  <2>4. /\ Shape' /\ offset'[r] = o + 1 /\ answer'[r] = more
    BY <1>1, <1>4, <2>1, <2>3 DEF Inv, Shape
  <2>5. StageInv'
    <3> SUFFICES ASSUME NEW q \in Requests PROVE Stage(q)'
      BY DEF StageInv
    <3>1. Stage(q)
      BY DEF Inv, StageInv
    <3> QED
      BY <1>1, <1>2, <1>5, <2>1, <3>1 DEF Stage
  <2>6. WriterInv' /\ AloneInv'
    BY <1>1, <2>1 DEF Inv, WriterInv, AloneInv
  <2>7. BlockInv'
    <3>1. \A j \in 1..Len(content) : offset'[content[j][1]] = offset[content[j][1]]
      BY <1>2, <1>5, ContentFacts
    <3> QED
      BY <1>1, <2>1, <3>1 DEF Inv, BlockInv
  <2>8. PieceInv'
    <3> SUFFICES ASSUME NEW q \in Changes \ spoiled, pc[q] \in {"opened", "done"}
                 PROVE  Piece(q)'
      BY <1>1, <2>1 DEF PieceInv
    <3>1. offset'[q] = offset[q] /\ PieceInv
      BY <1>2, <1>5 DEF Changes, Inv
    <3>2. PICK k \in Nat : PieceAt(q, k)
      BY <3>1 DEF PieceInv, Piece
    <3>3. PieceAt(q, k)'
      BY <1>1, <2>1, <3>1, <3>2 DEF PieceAt
    <3> QED
      BY <3>3 DEF Piece
  <2>9. ReadInv'
    <3> SUFFICES ASSUME NEW q \in Requests \ (Changes \cup spoiled),
                        pc[q] \in {"opened", "done"}
                 PROVE  Got(q)'
      BY <1>1, <2>1 DEF ReadInv
    <3>1. Got(q)
      BY DEF Inv, ReadInv
    <3>2. CASE q # r
      BY <1>1, <1>5, <3>1, <3>2 DEF Got
    <3>3. CASE q = r
      <4>1. /\ Len(answer[r]) = o /\ o <= n
            /\ \A i \in 1..o : answer[r][i] = content[i]
        BY <1>3, <1>4, <3>1, <3>3 DEF Got
      <4>2. /\ Len(more) = o + 1 /\ more[o + 1] = content[o + 1]
            /\ \A i \in 1..o : more[i] = answer[r][i]
        BY <2>2, <2>3, <4>1, AppendProperties
      <4>3. \A i \in 1..(o + 1) : more[i] = content[i]
        BY <4>1, <4>2
      <4>4. Len(content') = n /\ o + 1 <= n
        BY <1>1, <1>3, <2>1
      <4> QED
        BY <1>1, <2>4, <3>3, <4>2, <4>3, <4>4 DEF Got
    <3> QED
      BY <3>2, <3>3
  <2>10. OwnInv'
    <3> SUFFICES ASSUME NEW q \in Requests \ (Changes \cup spoiled), pc[q] = "done",
                        NEW c \in (before[q] \cap Changes) \ spoiled
                 PROVE  pc[c] = "failed" \/ Has(q, c)'
      BY <1>1, <2>1 DEF OwnInv
    <3>1. answer'[q] = answer[q] /\ (pc[c] = "failed" \/ Has(q, c))
      BY <1>1, <1>5 DEF Inv, OwnInv
    <3> QED
      BY <3>1 DEF Has
  <2> QED
    BY <2>4, <2>5, <2>6, <2>7, <2>8, <2>9, <2>10 DEF Inv
<1> QED
  BY <1>6, <1>7

-----------------------------------------------------------------------------
(* Write                                                                   *)

\* Block b is put at place p, at the end of the file or over another block.
PutAt(p, b) ==
  /\ p \in 1..Len(content') /\ content'[p] = b
  /\ \A j \in 1..Len(content') :
       j # p => j \in 1..Len(content) /\ content'[j] = content[j]
  /\ \/ p = Len(content) + 1 /\ Len(content') = Len(content) + 1
     \/ p <= Len(content) /\ Len(content') = Len(content)

LEMMA AppendPuts ==
  ASSUME Inv, NEW b \in Blocks, content' = Append(content, b)
  PROVE  content' \in Seq(Blocks) /\ PutAt(Len(content) + 1, b)
<1>1. PICK n \in Nat : n = Len(content)
  BY ContentFacts
<1>2. /\ content' \in Seq(Blocks) /\ Len(content') = n + 1
      /\ content'[n + 1] = b /\ \A j \in 1..n : content'[j] = content[j]
  BY <1>1, ContentFacts, AppendProperties
<1>3. \A j \in 1..(n + 1) : j # n + 1 => j \in 1..n
  OBVIOUS
<1>4. PutAt(n + 1, b)
  BY <1>1, <1>2, <1>3 DEF PutAt
<1> QED
  BY <1>1, <1>2, <1>4

LEMMA OverlayPuts ==
  ASSUME Inv, NEW b \in Blocks, NEW p \in 1..Len(content),
         content' = [content EXCEPT ![p] = b]
  PROVE  content' \in Seq(Blocks) /\ PutAt(p, b)
<1>1. /\ content' \in Seq(Blocks) /\ Len(content') = Len(content)
      /\ \A j \in 1..Len(content) : content'[j] = IF j = p THEN b ELSE content[j]
  BY ContentFacts, ExceptSeq
<1>2. p <= Len(content)
  BY ContentFacts
<1> QED
  BY <1>1, <1>2 DEF PutAt

\* Where a write or an append puts its next block.
LEMMA PlaceResult ==
  ASSUME Inv, NEW r \in Changes, NEW b \in Blocks, b = <<r, offset[r] + 1>>,
         content' = Place(r)
  PROVE  /\ content' \in Seq(Blocks)
         /\ \E p \in Nat : /\ PutAt(p, b)
                           /\ Op[r] = "append" => p = Len(content) + 1
                           /\ Op[r] = "write" =>
                                \/ p = offset[r] + 1
                                \/ p = Len(content) + 1 /\ p < offset[r] + 1
<1>1. PICK n \in Nat : n = Len(content)
  BY ContentFacts
<1>2. PICK o \in Nat : o = offset[r]
  BY ChangeFacts, RequestFacts
<1>3. CASE Op[r] = "append"
  <2>1. content' = Append(content, b)
    BY <1>3 DEF Place
  <2>2. content' \in Seq(Blocks) /\ PutAt(n + 1, b)
    BY <1>1, <2>1, AppendPuts
  <2> QED
    BY <1>1, <1>3, <2>2
<1>4. CASE Op[r] = "write" /\ o + 1 <= n
  <2>1. content' = [content EXCEPT ![o + 1] = b]
    BY <1>1, <1>2, <1>4 DEF Place, Overlay
  <2>2. o + 1 \in 1..Len(content)
    BY <1>1, <1>4
  <2>3. content' \in Seq(Blocks) /\ PutAt(o + 1, b)
    BY <2>1, <2>2, OverlayPuts
  <2> QED
    BY <1>2, <1>4, <2>3
<1>5. CASE Op[r] = "write" /\ ~(o + 1 <= n)
  <2>1. content' = Append(content, b)
    BY <1>1, <1>2, <1>5 DEF Place, Overlay
  <2>2. content' \in Seq(Blocks) /\ PutAt(n + 1, b)
    BY <1>1, <2>1, AppendPuts
  <2>3. n + 1 = o + 1 \/ n + 1 < o + 1
    BY <1>5
  <2> QED
    BY <1>1, <1>2, <1>5, <2>2, <2>3
<1> QED
  BY <1>3, <1>4, <1>5, ChangeFacts

LEMMA WriteStep ==
  ASSUME Inv, NEW r \in Requests, Write(r) PROVE Inv'
<1> DEFINE last == offset[r] + 1 = Size[r]
<1>1. /\ r \in Changes /\ pc[r] = "opened" /\ writer \in {"none", r}
      /\ content' = Place(r)
      /\ UNCHANGED <<call, answer, before, spoiled, wiped>>
  BY DEF Write, Changes
<1>2. PICK n \in Nat : n = Len(content)
  BY ContentFacts
<1>3. PICK o \in Nat : o = offset[r]
  BY RequestFacts
<1>4. PICK size \in Nat : size = Size[r] /\ o < size
  BY <1>1, <1>3, ChangeFacts DEF Inv, StageInv, Stage
<1>5. PICK b \in Blocks : b = <<r, o + 1>>
  <2>1. <<r, o + 1>> \in Blocks
    BY <1>1 DEF Blocks
  <2> QED
    BY <2>1
<1>6. /\ content' \in Seq(Blocks)
      /\ \E p \in Nat : /\ PutAt(p, b)
                        /\ Op[r] = "append" => p = n + 1
                        /\ Op[r] = "write" =>
                             p = o + 1 \/ (p = n + 1 /\ p < o + 1)
  BY <1>1, <1>2, <1>3, <1>5, PlaceResult
<1>7. PICK p \in Nat : /\ PutAt(p, b)
                       /\ Op[r] = "append" => p = n + 1
                       /\ Op[r] = "write" =>
                            p = o + 1 \/ (p = n + 1 /\ p < o + 1)
  BY <1>6
<1>8. /\ offset' = [offset EXCEPT ![r] = o + 1]
      /\ writer' = IF last THEN "none" ELSE r
      /\ pc' = IF last THEN [pc EXCEPT ![r] = "done"] ELSE pc
      /\ last <=> o + 1 = size
  BY <1>3, <1>4 DEF Write
<1> HIDE DEF last
<1>9. /\ offset'[r] = o + 1 /\ pc'[r] = IF last THEN "done" ELSE "opened"
      /\ \A q \in Requests \ {r} : offset'[q] = offset[q] /\ pc'[q] = pc[q]
  BY <1>1, <1>8 DEF Inv, Shape
<1>10. Shape'
  <2>1. offset' \in [Requests -> Nat] /\ writer' \in Changes \cup {"none"}
    BY <1>1, <1>8 DEF Inv, Shape
  <2>2. pc' \in [Requests -> {"none", "sent", "opened", "done", "failed"}]
    BY <1>8 DEF Inv, Shape
  <2> QED
    BY <1>1, <1>6, <2>1, <2>2 DEF Inv, Shape
<1>11. \A q \in Changes \ {r} : ~(pc[q] = "opened" /\ offset[q] > 0)
  BY <1>1, ChangeFacts DEF Inv, StageInv, Stage
<1>12. StageInv'
  <2> SUFFICES ASSUME NEW q \in Requests PROVE Stage(q)'
    BY DEF StageInv
  <2>1. Stage(q) /\ Stage(r) /\ before[q] \subseteq Requests
    BY RequestFacts DEF Inv, StageInv
  <2>2. \A x \in before[q] : pc'[x] \in Ended
    BY <1>1, <1>9, <2>1 DEF Stage, Ended
  <2>3. CASE q # r
    BY <1>1, <1>9, <1>11, <2>1, <2>2, <2>3 DEF Stage, Ended
  <2>4. CASE q = r
    BY <1>1, <1>3, <1>4, <1>8, <1>9, <2>1, <2>2, <2>4 DEF Stage, Ended
  <2> QED
    BY <2>3, <2>4
<1>13. WriterInv'
  BY <1>1, <1>8, <1>9, ChangeFacts DEF WriterInv
<1>14. \A q \in Requests \ spoiled :
         q # r /\ pc[q] \in {"opened", "done"} => Op[r] = "append"
  BY <1>1, ChangeFacts DEF Inv, AloneInv
<1>15. r \notin wiped /\ b[1] = r /\ b[2] = o + 1
  BY <1>1, <1>5 DEF Inv, BlockInv, Ended
<1>16. BlockInv'
  <2>1. \A q \in wiped : pc'[q] \in Ended
    BY <1>1, <1>9, <1>15 DEF Inv, Shape, BlockInv
  <2>2. ASSUME NEW j \in 1..Len(content')
        PROVE  content'[j][2] \in 1..offset'[content'[j][1]]
               /\ content'[j][1] \notin wiped
    <3>1. CASE j = p
      BY <1>7, <1>9, <1>15, <3>1 DEF PutAt
    <3>2. CASE j # p
      <4>1. j \in 1..Len(content) /\ content'[j] = content[j]
        BY <1>7, <3>2 DEF PutAt
      <4>2. content[j][1] \in Requests /\ content[j][2] \in 1..offset[content[j][1]]
            /\ content[j][1] \notin wiped
        BY <4>1, ContentFacts DEF Inv, BlockInv
      <4>3. CASE content[j][1] = r
        BY <1>3, <1>9, <4>1, <4>2, <4>3
      <4>4. CASE content[j][1] # r
        BY <1>9, <4>1, <4>2, <4>4
      <4> QED
        BY <4>3, <4>4
    <3> QED
      BY <3>1, <3>2
  <2>3. \A j \in 1..Len(content) : content[j] # b
    <3>1. ASSUME NEW j \in 1..Len(content), content[j] = b PROVE FALSE
      <4>1. b[2] \in 1..offset[b[1]]
        BY <3>1 DEF Inv, BlockInv
      <4> QED
        BY <1>3, <1>15, <4>1
    <3> QED
      BY <3>1
  <2>4. ASSUME NEW i \in 1..Len(content'), NEW j \in 1..Len(content'),
               content'[i] = content'[j]
        PROVE  i = j
    <3>1. /\ i # p => i \in 1..Len(content) /\ content'[i] = content[i]
          /\ j # p => j \in 1..Len(content) /\ content'[j] = content[j]
          /\ content'[p] = b
      BY <1>7 DEF PutAt
    <3>2. i # p /\ j # p => i = j
      BY <2>4, <3>1 DEF Inv, BlockInv
    <3> QED
      BY <2>3, <2>4, <3>1, <3>2
  <2> QED
    BY <1>1, <2>1, <2>2, <2>4 DEF BlockInv
<1>17. AloneInv'
  <2> SUFFICES ASSUME NEW x \in Requests \ spoiled, NEW q \in Requests \ {x},
                      pc'[x] \in {"opened", "done"}, Op[q] = "write"
               PROVE  pc'[q] # "opened"
    BY <1>1 DEF AloneInv
  <2>1. pc[x] \in {"opened", "done"}
    BY <1>1, <1>9
  <2>2. pc[q] # "opened"
    BY <2>1 DEF Inv, AloneInv
  <2> QED
    BY <1>1, <1>9, <2>2
<1>18. PICK m \in Nat : m = Len(content') /\ n <= m /\ p \in 1..m
                        /\ ((p = n + 1 /\ m = n + 1) \/ (p <= n /\ m = n))
  <2>1. Len(content') \in Nat
    BY <1>6, LenProperties
  <2> QED
    BY <1>2, <1>7, <2>1 DEF PutAt
<1>19. \A j \in 1..n : j # p => content'[j] = content[j]
  BY <1>2, <1>7, <1>18 DEF PutAt
<1>20. PieceInv'
  <2> SUFFICES ASSUME NEW q \in Changes \ spoiled, pc'[q] \in {"opened", "done"}
               PROVE  Piece(q)'
    BY <1>1 DEF PieceInv
  <2>1. q \in Requests /\ pc[q] \in {"opened", "done"}
    BY <1>1, <1>9 DEF Changes
  <2>2. PICK k \in Nat : PieceAt(q, k)
    BY <2>1 DEF Inv, PieceInv, Piece
  <2>3. PICK l \in Nat : l = offset[q]
    BY <2>1, RequestFacts
  <2>4. k + l <= n /\ \A i \in 1..l : content[k + i] = <<q, i>>
    BY <1>2, <2>2, <2>3 DEF PieceAt
  <2>5. CASE q # r
    <3>1. p = n + 1 /\ offset'[q] = l /\ pc'[q] = pc[q]
      BY <1>7, <1>9, <1>14, <2>1, <2>3, <2>5
    <3>2. \A i \in 1..l : content'[k + i] = <<q, i>>
      <4>1. \A i \in 1..l : k + i \in 1..n /\ k + i # n + 1
        BY <2>4
      <4> QED
        BY <1>19, <2>4, <3>1, <4>1
    <3>3. k + l <= m
      BY <1>18, <2>4
    <3>4. PieceAt(q, k)'
      BY <1>11, <1>18, <2>2, <2>3, <2>5, <3>1, <3>2, <3>3 DEF PieceAt
    <3> QED
      BY <3>4 DEF Piece
  <2>6. CASE q = r /\ Op[r] = "append"
    <3>1. p = n + 1 /\ m = n + 1 /\ l = o
      BY <1>3, <1>7, <1>18, <2>3, <2>6
    <3>2. PICK s \in Nat : s + o = n /\ \A i \in 1..o : content[s + i] = <<r, i>>
      <4>1. CASE o = 0
        BY <4>1
      <4>2. CASE o > 0
        <5>1. k + o = n
          BY <1>1, <1>2, <1>3, <2>2, <2>6, <4>2 DEF PieceAt
        <5> QED
          BY <2>4, <2>6, <3>1, <5>1
      <4> QED
        BY <4>1, <4>2
    <3>3. \A i \in 1..(o + 1) : content'[s + i] = <<r, i>>
      <4> SUFFICES ASSUME NEW i \in 1..(o + 1) PROVE content'[s + i] = <<r, i>>
        OBVIOUS
      <4>1. CASE i = o + 1
        <5>1. s + i = p
          BY <3>1, <3>2, <4>1
        <5> QED
          BY <1>5, <1>7, <4>1, <5>1 DEF PutAt
      <4>2. CASE i \in 1..o
        <5>1. s + i \in 1..n /\ s + i # p
          BY <3>1, <3>2, <4>2
        <5> QED
          BY <1>19, <3>2, <4>2, <5>1
      <4> QED
        BY <4>1, <4>2
    <3>4. s + (o + 1) = m
      BY <3>1, <3>2
    <3>5. /\ s + offset'[r] = Len(content') /\ s + offset'[r] <= Len(content')
          /\ \A i \in 1..offset'[r] : content'[s + i] = <<r, i>>
          /\ Op[r] # "write"
      BY <1>9, <1>18, <2>6, <3>3, <3>4
    <3>6. PieceAt(r, s)'
      BY <3>5 DEF PieceAt
    <3> QED
      BY <2>6, <3>6 DEF Piece
  <2>7. CASE q = r /\ Op[r] = "write"
    <3>1. k = 0 /\ l = o /\ o <= n /\ \A i \in 1..o : content[i] = <<r, i>>
      BY <1>3, <2>2, <2>3, <2>4, <2>7 DEF PieceAt
    <3>2. p = o + 1
      BY <1>7, <2>7, <3>1
    <3>3. \A i \in 1..(o + 1) : content'[i] = <<r, i>>
      <4> SUFFICES ASSUME NEW i \in 1..(o + 1) PROVE content'[i] = <<r, i>>
        OBVIOUS
      <4>1. CASE i = o + 1
        BY <1>5, <1>7, <3>2, <4>1 DEF PutAt
      <4>2. CASE i \in 1..o
        BY <1>19, <3>1, <3>2, <4>2
      <4> QED
        BY <4>1, <4>2
    <3>4. o + 1 <= m
      BY <1>18, <3>2
    <3>5. PieceAt(r, 0)'
      BY <1>9, <1>18, <2>7, <3>3, <3>4 DEF PieceAt
    <3> QED
      BY <2>7, <3>5 DEF Piece
  <2> QED
    BY <1>1, <2>5, <2>6, <2>7, ChangeFacts
<1>21. ReadInv'
  <2> SUFFICES ASSUME NEW q \in Requests \ (Changes \cup spoiled),
                      pc'[q] \in {"opened", "done"}
               PROVE  Got(q)'
    BY <1>1 DEF ReadInv
  <2>1. q # r /\ pc[q] \in {"opened", "done"} /\ offset'[q] = offset[q]
    BY <1>1, <1>9
  <2>2. Got(q) /\ p = n + 1
    BY <1>7, <1>14, <2>1 DEF Inv, ReadInv
  <2>3. PICK l \in Nat : l = offset[q]
    BY RequestFacts
  <2>4. /\ Len(answer[q]) = l /\ l <= n
        /\ \A i \in 1..l : answer[q][i] = content[i]
    BY <1>2, <2>2, <2>3 DEF Got
  <2>5. l <= m /\ \A i \in 1..l : answer[q][i] = content'[i]
    BY <1>18, <1>19, <2>2, <2>4
  <2> QED
    BY <1>1, <1>18, <2>1, <2>3, <2>4, <2>5 DEF Got
<1>22. OwnInv'
  <2> SUFFICES ASSUME NEW q \in Requests \ (Changes \cup spoiled), pc'[q] = "done",
                      NEW c \in (before[q] \cap Changes) \ spoiled
               PROVE  pc'[c] = "failed" \/ Has(q, c)'
    BY <1>1 DEF OwnInv
  <2>1. pc[q] = "done" /\ c \in Requests
    BY <1>1, <1>9 DEF Changes
  <2>2. pc[c] = "failed" \/ Has(q, c)
    BY <2>1 DEF Inv, OwnInv
  <2> QED
    BY <1>1, <1>9, <2>1, <2>2 DEF Has
<1> QED
  BY <1>10, <1>12, <1>13, <1>16, <1>17, <1>20, <1>21, <1>22 DEF Inv

-----------------------------------------------------------------------------
LEMMA InvInit ==
  ASSUME Init PROVE Inv
<1>1. <<>> \in Seq(Blocks) /\ Len(<<>>) = 0
  BY EmptySeq
<1>2. Shape
  BY <1>1 DEF Init, Shape
<1>3. StageInv /\ WriterInv
  BY DEF Init, StageInv, Stage, WriterInv
<1>4. BlockInv
  BY <1>1 DEF Init, BlockInv
<1>5. AloneInv /\ PieceInv /\ ReadInv /\ OwnInv
  BY DEF Init, AloneInv, PieceInv, ReadInv, OwnInv, Changes
<1> QED
  BY <1>2, <1>3, <1>4, <1>5 DEF Inv

LEMMA InvStep ==
  ASSUME Inv, [Next]_vars PROVE Inv'
<1>1. CASE UNCHANGED vars
  <2> USE <1>1 DEF vars, Inv
  <2>1. Shape' /\ StageInv' /\ WriterInv' /\ BlockInv' /\ AloneInv'
    BY DEF Shape, StageInv, Stage, WriterInv, BlockInv, AloneInv
  <2>2. PieceInv'
    <3>1. \A r, k : PieceAt(r, k)' <=> PieceAt(r, k)
      BY DEF PieceAt
    <3>2. \A r : Piece(r)' <=> Piece(r)
      BY <3>1 DEF Piece
    <3> QED
      BY <3>2 DEF PieceInv
  <2>3. ReadInv'
    BY DEF ReadInv, Got
  <2>4. OwnInv'
    <3>1. \A r, c : Has(r, c)' <=> Has(r, c)
      BY DEF Has
    <3> QED
      BY <3>1 DEF OwnInv
  <2> QED
    BY <2>1, <2>2, <2>3, <2>4
<1>2. ASSUME NEW r \in Requests,
             \/ Send(r) \/ Return(r) \/ Break(r)
             \/ OpenFile(r) \/ Write(r) \/ Read(r) \/ Fail(r)
      PROVE  Inv'
  BY <1>2, SendStep, CallStep, OpenStep, WriteStep, ReadStep, FailStep
<1> QED
  BY <1>1, <1>2 DEF Next

LEMMA Invariance == Spec => []Inv
<1>1. Init => Inv
  BY InvInit
<1>2. Inv /\ [Next]_vars => Inv'
  BY InvStep
<1> QED
  BY <1>1, <1>2, PTL DEF Spec

-----------------------------------------------------------------------------
(* What the invariant says                                                 *)

LEMMA InvTypeOK ==
  ASSUME Inv PROVE TypeOK
<1> DEFINE put == UNION {{<<r, i>> : i \in 1..offset[r]} : r \in Changes}
<1>1. PICK n \in Nat : n = Len(content)
  BY ContentFacts
<1>2. ASSUME NEW j \in 1..n PROVE content[j] \in put
  <2>1. /\ content[j] \in Blocks /\ content[j][1] \in Changes
        /\ content[j][2] \in 1..offset[content[j][1]]
    BY <1>1, <1>2, ContentFacts DEF Inv, BlockInv
  <2>2. content[j] = <<content[j][1], content[j][2]>>
    BY <2>1 DEF Blocks
  <2> QED
    BY <2>1, <2>2
<1> HIDE DEF put
<1>3. content \in Seq(put)
  <2>1. content \in [1..n -> Blocks]
    BY <1>1, ContentFacts, LenProperties
  <2>2. content \in [1..n -> put]
    BY <1>2, <2>1
  <2> QED
    BY <2>2
<1>4. IsInjective(content)
  <2>1. DOMAIN content = 1..Len(content)
    BY ContentFacts, LenProperties
  <2> QED
    BY <2>1 DEF Inv, BlockInv, IsInjective
<1> QED
  BY <1>3, <1>4 DEF Inv, Shape, TypeOK, Blocks, put

LEMMA InvKeptWhole ==
  ASSUME Inv PROVE KeptWhole
<1>1. PICK n \in Nat : n = Len(content)
  BY ContentFacts
<1>2. ASSUME NEW r \in Changes \ spoiled, pc[r] = "done"
      PROVE  \E k \in 0..Len(content) :
               /\ k + Size[r] <= Len(content)
               /\ SubSeq(content, k + 1, k + Size[r]) = Data(r)
               /\ Op[r] = "write" => k = 0
  <2>1. PICK k \in Nat : PieceAt(r, k)
    BY <1>2 DEF Inv, PieceInv, Piece
  <2>2. PICK m \in Nat \ {0} : m = Size[r] /\ m = offset[r]
    BY <1>2, ChangeFacts DEF Inv, StageInv, Stage
  <2>3. /\ k + m <= n /\ \A i \in 1..m : content[k + i] = <<r, i>>
        /\ Op[r] = "write" => k = 0
    BY <1>1, <2>1, <2>2 DEF PieceAt
  <2>4. PICK s : s = SubSeq(content, k + 1, k + m)
    OBVIOUS
  <2>5. /\ s \in Seq(Blocks) /\ Len(s) = m
        /\ \A i \in 1..m : s[i] = content[k + i]
    <3>1. \A j \in (k + 1)..(k + m) : content[j] \in Blocks
      <4>1. \A j \in (k + 1)..(k + m) : j \in 1..n
        BY <2>3
      <4> QED
        BY <1>1, <4>1, ContentFacts
    <3>2. k + 1 \in Int /\ k + m \in Int /\ k + 1 <= k + m
          /\ (k + m) - (k + 1) + 1 = m
      OBVIOUS
    <3>3. s \in Seq(Blocks) /\ Len(s) = m
      BY <2>4, <3>1, <3>2, SubSeqProperties
    <3>4. \A i \in 1..m : s[i] = content[(k + 1) + i - 1]
      BY <2>4, <3>1, <3>2, SubSeqProperties
    <3>5. \A i \in 1..m : (k + 1) + i - 1 = k + i
      OBVIOUS
    <3> QED
      BY <3>3, <3>4, <3>5
  <2>6. s = Data(r)
    <3>1. s = [i \in 1..m |-> s[i]]
      BY <2>5
    <3>2. \A i \in 1..m : s[i] = <<r, i>>
      BY <2>3, <2>5
    <3> QED
      BY <2>2, <3>1, <3>2 DEF Data
  <2>7. k \in 0..Len(content) /\ k + Size[r] <= Len(content)
    BY <1>1, <2>2, <2>3
  <2> QED
    BY <2>2, <2>3, <2>4, <2>6, <2>7
<1>3. \A i \in DOMAIN content : content[i][1] \notin wiped
  BY ContentFacts, LenProperties DEF Inv, BlockInv
<1> QED
  BY <1>2, <1>3 DEF KeptWhole

LEMMA InvReadsBeginning ==
  ASSUME Inv PROVE ReadsBeginning
<1> SUFFICES ASSUME NEW r \in Requests \ (Changes \cup spoiled)
             PROVE  IsPrefix(answer[r], content)
  BY DEF ReadsBeginning
<1>1. PICK a \in Seq(Blocks) : a = answer[r]
  BY RequestFacts
<1>2. PICK n \in Nat : n = Len(content)
  BY ContentFacts
<1>3. PICK l \in Nat : l = Len(a)
  BY <1>1, LenProperties
<1>4. l <= n /\ \A i \in 1..l : a[i] = content[i]
  <2>1. CASE pc[r] \in {"opened", "done"}
    BY <1>1, <1>2, <1>3, <2>1 DEF Inv, ReadInv, Got
  <2>2. CASE pc[r] \notin {"opened", "done"}
    <3>1. a = <<>>
      BY <1>1, <2>2, RequestFacts DEF Inv, StageInv, Stage
    <3>2. l = 0
      BY <1>3, <3>1, EmptySeq
    <3> QED
      BY <3>2
  <2> QED
    BY <2>1, <2>2
<1>5. SubSeq(a, 1, l) = a
  BY <1>1, <1>3, SubSeqFull
<1>6. SubSeq(content, 1, l) = a
  <2>1. PICK s : s = SubSeq(content, 1, l)
    OBVIOUS
  <2>2. \A j \in 1..l : content[j] \in Blocks
    BY <1>2, <1>4, ContentFacts
  <2>3. s \in Seq(Blocks) /\ Len(s) = l
    BY <2>1, <2>2, SubSeqProperties
  <2>4. \A i \in 1..l : s[i] = content[i]
    <3>1. \A i \in 1..(l - 1 + 1) : s[i] = content[1 + i - 1]
      BY <2>1, <2>2, SubSeqProperties
    <3> QED
      BY <3>1
  <2>5. s = a
    BY <1>3, <1>4, <2>3, <2>4, SeqEqual
  <2> QED
    BY <2>1, <2>5
<1> QED
  BY <1>1, <1>2, <1>3, <1>4, <1>5, <1>6 DEF IsPrefix

LEMMA InvReadsOwnWrites ==
  ASSUME Inv PROVE ReadsOwnWrites
<1> SUFFICES ASSUME NEW r \in Requests \ (Changes \cup spoiled), pc[r] = "done",
                    NEW c \in (before[r] \cap Changes) \ spoiled, pc[c] # "failed"
             PROVE  ToSet(Data(c)) \subseteq ToSet(answer[r])
  BY DEF ReadsOwnWrites
<1>1. Has(r, c)
  BY DEF Inv, OwnInv
<1>2. DOMAIN answer[r] = 1..Len(answer[r])
  BY RequestFacts, LenProperties
<1> QED
  BY <1>1, <1>2 DEF ToSet, Data, Has

-----------------------------------------------------------------------------
(* The variables keep their types; every block in the file was written by  *)
(* a handler of a write or an append, and is there once.                   *)
THEOREM TypeCorrect == Spec => []TypeOK
<1>1. Inv => TypeOK
  BY InvTypeOK
<1> QED
  BY <1>1, Invariance, PTL

(* writeFileHandler's flags: what a write or an append has written is in   *)
(* the file in one piece when it has ended, unless an overwriting write    *)
(* was open beside it or came later; and such a write leaves nothing of    *)
(* what had ended before.                                                  *)
THEOREM WholeKept == Spec => []KeptWhole
<1>1. Inv => KeptWhole
  BY InvKeptWhole
<1> QED
  BY <1>1, Invariance, PTL

(* readFileHandler: a read that no overwriting write spoils has got a      *)
(* beginning of the file as it still is.                                   *)
THEOREM BeginningRead == Spec => []ReadsBeginning
<1>1. Inv => ReadsBeginning
  BY InvReadsBeginning
<1> QED
  BY <1>1, Invariance, PTL

(* profileoperate.js: a page reads what its own calls had written before,  *)
(* as far as they did not fail and are not spoiled.                        *)
THEOREM OwnWritesRead == Spec => []ReadsOwnWrites
<1>1. Inv => ReadsOwnWrites
  BY InvReadsOwnWrites
<1> QED
  BY <1>1, Invariance, PTL
=============================================================================
