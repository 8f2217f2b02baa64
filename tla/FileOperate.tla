---------------------------- MODULE FileOperate -----------------------------
(***************************************************************************)
(* The content files of prooperate/profileoperate.go and of                *)
(* pjf/profileoperate.js: pages overwrite a file, append to it and read it *)
(* with synchronous requests; the handlers run at the same time and take   *)
(* no lock.                                                                *)
(*                                                                         *)
(* All requests name one file; another one shares nothing with it, and a   *)
(* missing one reads like an empty one.  Its data are blocks: <<r, i>> is  *)
(* the i-th block of request r.  The file system is external: an open, and *)
(* the read of one block, are one step; the blocks of a write become       *)
(* visible one by one, and writes and truncations exclude each other.      *)
(***************************************************************************)
EXTENDS Naturals, Sequences, FiniteSets, SequencesExt

CONSTANTS
  Requests,  (* the calls of write and read                                *)
  Page,      (* the page that makes each                                   *)
  Op,        (* what it is: a write, one with isAppend, or a read          *)
  Size,      (* how many blocks of data a write or an append has           *)
  MaxFaults  (* bound on the calls that break and the handlers that fail   *)

ASSUME FileAssumption ==
  /\ Op \in [Requests -> {"write", "append", "read"}]
  /\ Size \in [Requests -> Nat \ {0}]
  /\ DOMAIN Page = Requests
  /\ "none" \notin Requests
  /\ MaxFaults \in Nat

VARIABLES
  content,  (* the blocks of the file                                      *)
  writer,   (* the request whose write call has the file; "none"           *)
  call,     (* how each call stands at its page                            *)
  pc,       (* where the handler of each request is                        *)
  offset,   (* how far it has read or written                              *)
  answer,   (* what a read has got                                         *)
  before,   (* history: the calls of its page that had returned at its start *)
  spoiled,  (* history: the requests that others may have interfered with  *)
  wiped     (* history: the changes that ended before a truncation         *)

vars == <<content, writer, call, pc, offset, answer, before, spoiled, wiped>>

Changes == {r \in Requests : Op[r] # "read"}

Init ==
  /\ content = <<>>
  /\ writer = "none"
  /\ call = [r \in Requests |-> "none"]
  /\ pc = [r \in Requests |-> "none"]
  /\ offset = [r \in Requests |-> 0]
  /\ answer = [r \in Requests |-> <<>>]
  /\ before = [r \in Requests |-> {}]
  /\ spoiled = {}
  /\ wiped = {}

-----------------------------------------------------------------------------
(* The page                                                                *)

Siblings(r) == {q \in Requests \ {r} : Page[q] = Page[r]}

Start(r) ==
  /\ call[r] = "none"
  /\ pc' = [pc EXCEPT ![r] = "sent"]
  /\ before' = [before EXCEPT ![r] = {q \in Siblings(r) : call[q] = "returned"}]
  /\ UNCHANGED <<content, writer, offset, answer, spoiled, wiped>>

\* Slip: the request is asynchronous.
SendAsync(r) == Start(r) /\ call' = [call EXCEPT ![r] = "returned"]

\* The page is blocked until the call returns.
Send(r) ==
  /\ \A q \in Siblings(r) : call[q] # "waiting"
  /\ Start(r)
  /\ call' = [call EXCEPT ![r] = "waiting"]

\* write returns 0 whatever has happened.
Return(r) ==
  /\ call[r] = "waiting"
  /\ pc[r] \in {"done", "failed"}
  /\ call' = [call EXCEPT ![r] = "returned"]
  /\ UNCHANGED <<content, writer, pc, offset, answer, before, spoiled, wiped>>

Faults == {<<r, "call">> : r \in {q \in Requests : call[q] = "broken"}}
          \cup {<<r, "pc">> : r \in {q \in Requests : pc[q] = "failed"}}

\* The connection breaks and the call throws; the handler, if it has the
\* request, goes on.
Break(r) ==
  /\ call[r] = "waiting"
  /\ Cardinality(Faults) < MaxFaults
  /\ call' = [call EXCEPT ![r] = "broken"]
  /\ \/ UNCHANGED pc
     \/ pc[r] = "sent" /\ pc' = [pc EXCEPT ![r] = "failed"]
  /\ UNCHANGED <<content, writer, offset, answer, before, spoiled, wiped>>

-----------------------------------------------------------------------------
(* The handlers                                                            *)

\* The history of r's open.  An overwriting write spoils what is open at the
\* same time, and what has ended.
Opens(r) ==
  LET opened == {q \in Requests : pc[q] = "opened"}
      ended == {q \in Requests : pc[q] \in {"done", "failed"}}
  IN /\ spoiled' = spoiled
                   \cup (IF Op[r] = "write" THEN opened \cup ended ELSE {})
                   \cup {q \in {r} : \E o \in opened : Op[o] = "write"}
     /\ wiped' = IF Op[r] = "write" THEN wiped \cup ended ELSE wiped

\* Slip: without O_TRUNC.
OpenUntruncated(r) ==
  /\ pc[r] = "sent"
  /\ pc' = [pc EXCEPT ![r] = "opened"]
  /\ Opens(r)
  /\ UNCHANGED <<content, writer, call, offset, answer, before>>

\* The flags of OpenFile; the open of a write truncates the file.
OpenFile(r) ==
  /\ pc[r] = "sent"
  /\ pc' = [pc EXCEPT ![r] = "opened"]
  /\ \/ Op[r] = "write" /\ writer = "none" /\ content' = <<>>
     \/ Op[r] # "write" /\ UNCHANGED content
  /\ Opens(r)
  /\ UNCHANGED <<writer, call, offset, answer, before>>

\* Slip: the blocks are counted from 0.
OverlayFromZero(r) ==
  LET i == offset[r]
  IN IF i \in DOMAIN content THEN [content EXCEPT ![i] = <<r, i>>]
     ELSE Append(content, <<r, i>>)

\* A block of a write goes to the handler's offset, over what is there.
Overlay(r) ==
  LET i == offset[r] + 1
  IN IF i <= Len(content) THEN [content EXCEPT ![i] = <<r, i>>]
     ELSE Append(content, <<r, i>>)

\* Slip: without O_APPEND.
PlaceAtOffset(r) == Overlay(r)

\* A block of an append goes to the end of the file, wherever that is.
Place(r) ==
  IF Op[r] = "append" THEN Append(content, <<r, offset[r] + 1>>)
  ELSE Overlay(r)

\* WriteString, block by block.
Write(r) ==
  LET last == offset[r] + 1 = Size[r]
  IN /\ Op[r] # "read"
     /\ pc[r] = "opened"
     /\ writer \in {"none", r}
     /\ content' = Place(r)
     /\ offset' = [offset EXCEPT ![r] = @ + 1]
     /\ writer' = IF last THEN "none" ELSE r
     /\ pc' = IF last THEN [pc EXCEPT ![r] = "done"] ELSE pc
     /\ UNCHANGED <<call, answer, before, spoiled, wiped>>

\* Slip: one call of Read instead of ReadAll.
AtEndOfBuffer(r) == offset[r] >= 1 \/ offset[r] >= Len(content)

AtEnd(r) == offset[r] >= Len(content)

\* ReadAll reads until it meets the end of the file, wherever that is by then.
Read(r) ==
  /\ Op[r] = "read"
  /\ pc[r] = "opened"
  /\ IF AtEnd(r) THEN /\ pc' = [pc EXCEPT ![r] = "done"]
                      /\ UNCHANGED <<offset, answer>>
     ELSE /\ offset' = [offset EXCEPT ![r] = @ + 1]
          /\ answer' = [answer EXCEPT ![r] = Append(@, content[offset[r] + 1])]
          /\ UNCHANGED pc
  /\ UNCHANGED <<content, writer, call, before, spoiled, wiped>>

\* An early return: the request does not parse, the file does not open or
\* read; or the write is cut short.  None is told to the page.
Fail(r) ==
  /\ pc[r] \in {"sent", "opened"}
  /\ Cardinality(Faults) < MaxFaults
  /\ pc' = [pc EXCEPT ![r] = "failed"]
  /\ writer' = IF writer = r THEN "none" ELSE writer
  /\ answer' = [answer EXCEPT ![r] = <<>>]
  /\ UNCHANGED <<content, call, offset, before, spoiled, wiped>>

Next ==
  \E r \in Requests :
    \/ Send(r) \/ Return(r) \/ Break(r)
    \/ OpenFile(r) \/ Write(r) \/ Read(r) \/ Fail(r)

Spec == Init /\ [][Next]_vars

-----------------------------------------------------------------------------
Data(r) == [i \in 1..Size[r] |-> <<r, i>>]

\* The types of the variables; a block is put in the file at most once, and
\* only by a handler that has come that far.
TypeOK ==
  /\ content \in Seq(UNION {{<<r, i>> : i \in 1..offset[r]} : r \in Changes})
  /\ IsInjective(content)
  /\ writer \in Changes \cup {"none"}
  /\ call \in [Requests -> {"none", "waiting", "returned", "broken"}]
  /\ pc \in [Requests -> {"none", "sent", "opened", "done", "failed"}]
  /\ answer \in [Requests -> Seq(Changes \X Nat)]
  /\ before \in [Requests -> SUBSET Requests]
  /\ spoiled \in SUBSET Requests
  /\ wiped \in SUBSET Requests

(***************************************************************************)
(* The data of an append, or of a write, are in the file in one piece once *)
(* it has ended without an error, however many appends run beside it,      *)
(* unless an overwriting write was open beside it or opened since; and     *)
(* such a write leaves nothing of what ended before it opened              *)
(* (writeFileHandler's flags: no lock makes this so).                      *)
(***************************************************************************)
KeptWhole ==
  /\ \A r \in Changes \ spoiled :
       pc[r] = "done" =>
         \E k \in 0..Len(content) :
           /\ k + Size[r] <= Len(content)
           /\ SubSeq(content, k + 1, k + Size[r]) = Data(r)
           /\ Op[r] = "write" => k = 0
  /\ \A i \in DOMAIN content : content[i][1] \notin wiped

(***************************************************************************)
(* A read beside which no overwriting write was open, nor since, got a     *)
(* beginning of the file as it still is: appends under way may be cut off  *)
(* in it, but it has no gap and no data twice (readFileHandler's ReadAll   *)
(* against the appends of other handlers).                                 *)
(***************************************************************************)
ReadsBeginning ==
  \A r \in Requests \ (Changes \cup spoiled) : IsPrefix(answer[r], content)

(***************************************************************************)
(* A page reads what it wrote: the answer of a read has all the data of    *)
(* every write and append of this page whose call had returned, if neither *)
(* failed silently nor was spoiled by another page's write, or by a write  *)
(* of its own whose call broke (profileoperate.js's synchronous requests   *)
(* with the handlers).                                                     *)
(***************************************************************************)
ReadsOwnWrites ==
  \A r \in Requests \ (Changes \cup spoiled) :
    pc[r] = "done" =>
      \A c \in (before[r] \cap Changes) \ spoiled :
        pc[c] = "failed" \/ ToSet(Data(c)) \subseteq ToSet(answer[r])
=============================================================================
