-------------------------- MODULE FileStreamProofs --------------------------
(***************************************************************************)
(* Proofs about FileStream: for every entry, source and chunk size, the    *)
(* report of a copy counts what the sink was given, no byte outside the    *)
(* source is asked for, and the sink is given the bytes of the file in     *)
(* order: the copy implements BoundedCopy.                                 *)
(***************************************************************************)
EXTENDS FileStream, SequenceTheorems, WellFoundedInduction, TLAPS

(***************************************************************************)
(* The inductive invariant.                                                *)
(***************************************************************************)
\* What the current extent has delivered is part of what the file has, and never
\* more than the extent's share of the file.
InExtent ==
    /\ extent_completed <= completed
    /\ current <= Len(entry.extents) => extent_completed <= Logical

\* A chunk that waits to be written belongs to that share, too.
BlockFits ==
    phase = "write" =>
        /\ current <= Len(entry.extents)
        /\ extent_completed + Len(block) <= Logical

\* Nothing is streamed or reported of an entry that is refused.
Accepted ==
    (phase \in {"stream", "write"} \/ result \in {"ok", "cancelled"}) => ~Refused

\* Until the call fails, what is counted is what the sink holds.
Counted == (phase # "returned" \/ result # "error") => completed = Len(sink)

Inv ==
    /\ TypeOK
    /\ InExtent
    /\ BlockFits
    /\ Accepted
    /\ Counted
    /\ ReadsInsideSource

\* A call's parts, from the assumption about Calls.
LEMMA CallType ==
    ASSUME TypeOK
    PROVE  /\ entry.length \in Nat
           /\ entry.extents \in Seq(Piece)
           /\ entry.format \in {"iso", "udf"}
           /\ call.source_bytes \in Nat
           /\ call.max_output_bytes \in Nat
           /\ entry.format = "iso" =>
                  /\ Len(entry.extents) = 1
                  /\ entry.extents[1].length = entry.length
                  /\ entry.extents[1].recorded
BY CallsAssumption DEF TypeOK, entry, Call, FileEntry

\* The current extent, its share of the file, and the chunk wanted next.
LEMMA ExtentType ==
    ASSUME TypeOK, InExtent, current <= Len(entry.extents)
    PROVE  /\ Extent \in Piece
           /\ Logical \in Nat
           /\ Logical <= Extent.length
           /\ completed + (Logical - extent_completed) <= entry.length
           /\ Wanted \in Nat
           /\ Wanted <= ChunkBytes
           /\ extent_completed + Wanted <= Logical
           /\ Offset \in Nat
<1>1. /\ entry.length \in Nat
      /\ entry.extents \in Seq(Piece)
  BY CallType
<1>2. Extent \in Piece
  BY <1>1 DEF TypeOK, Extent
<1>3. /\ Extent.length \in Nat
      /\ Extent.offset \in Nat
  BY <1>2 DEF Piece
<1>4. /\ Logical \in Nat
      /\ Logical <= Extent.length
      /\ completed + (Logical - extent_completed) <= entry.length
  <2> DEFINE left == entry.length - (completed - extent_completed)
  <2>1. /\ extent_completed \in Nat
        /\ completed \in Nat
        /\ extent_completed <= completed
        /\ completed <= entry.length
    BY <1>1 DEF TypeOK, InExtent
  <2>2. left \in Nat
    BY <1>1, <2>1
  <2>3. Logical = IF left <= Extent.length THEN left ELSE Extent.length
    BY DEF Logical, Least
  <2> HIDE DEF left
  <2>4. /\ Logical \in Nat
        /\ Logical <= Extent.length
        /\ Logical <= left
    BY <1>3, <2>2, <2>3
  <2> QED
    BY <1>1, <2>1, <2>4 DEF left
<1>5. /\ Wanted \in Nat
      /\ Wanted <= ChunkBytes
      /\ extent_completed + Wanted <= Logical
  BY <1>4, ChunkAssumption DEF TypeOK, InExtent, Wanted, Least
<1> QED
  BY <1>2, <1>3, <1>4, <1>5 DEF TypeOK, Offset

-----------------------------------------------------------------------------
(* The invariant holds at first and is kept by every action.                *)

LEMMA InitInv == Init => Inv
<1> SUFFICES ASSUME Init PROVE Inv
  OBVIOUS
<1>1. TypeOK
  BY CallsAssumption, ChunkAssumption DEF Init, TypeOK, entry, Call, FileEntry
<1>2. extent_completed <= completed
  BY DEF Init
<1>3. current <= Len(entry.extents) => extent_completed <= Logical
  <2> SUFFICES ASSUME current <= Len(entry.extents) PROVE extent_completed <= Logical
    OBVIOUS
  <2>1. entry.length \in Nat /\ entry.extents \in Seq(Piece)
    BY <1>1, CallType
  <2>2. Extent \in Piece
    BY <1>1, <2>1 DEF TypeOK, Extent
  <2>3. Extent.length \in Nat
    BY <2>2 DEF Piece
  <2> QED
    BY <2>1, <2>3 DEF Init, Logical, Least
<1>4. call.source_bytes \in Nat
  BY <1>1, CallType
<1> QED
  BY <1>1, <1>2, <1>3, <1>4
  DEF Inv, InExtent, BlockFits, Accepted, Counted, ReadsInsideSource, Init

\* A step that moves no byte and stays in the extent keeps everything that is said
\* of the extent.
LEMMA SameExtent ==
    ASSUME InExtent, UNCHANGED <<call, current, extent_completed, completed>>
    PROVE  /\ InExtent'
           /\ Logical' = Logical
           /\ (Refused)' = Refused
           /\ entry' = entry
BY DEF InExtent, Logical, Least, Extent, entry, Refused

\* A step that only lets the call return, or opens it.
LEMMA ReturnInv ==
    ASSUME Inv,
           \/ Refuse \/ Open \/ Cancel \/ ChunkOutsideSource \/ Finish
           \/ Returned \/ UNCHANGED vars
    PROVE  Inv'
<1>1. UNCHANGED <<call, current, extent_completed, completed, block, sink, asked>>
  BY DEF Refuse, Open, Cancel, ChunkOutsideSource, Finish, Returned, vars
<1>2. /\ InExtent' /\ Logical' = Logical
      /\ (Refused)' = Refused /\ entry' = entry
  BY <1>1, SameExtent DEF Inv
<1>3. /\ phase' \in {"stream", "returned", phase}
      /\ result' \in {"ok", "cancelled", "error", result}
  BY DEF Refuse, Open, Cancel, ChunkOutsideSource, Finish, Returned, vars, Return
<1>4. /\ phase' = "stream" => ~Refused
      /\ phase' = "write" => phase = "write"
      /\ result' \in {"ok", "cancelled"} => ~Refused
      /\ phase' # "returned" \/ result' # "error" => phase # "returned" \/ result # "error"
  BY DEF Inv, Accepted, Refuse, Open, Cancel, ChunkOutsideSource, Finish, Returned, vars,
         Return, Polling, Streaming
<1>5. TypeOK'
  BY <1>1, <1>2, <1>3 DEF Inv, TypeOK
<1>6. BlockFits' /\ Counted' /\ ReadsInsideSource'
  BY <1>1, <1>2, <1>4 DEF Inv, BlockFits, Counted, ReadsInsideSource
<1>7. Accepted'
  BY <1>2, <1>4 DEF Inv, Accepted
<1> QED
  BY <1>2, <1>5, <1>6, <1>7 DEF Inv

LEMMA NextExtentInv == ASSUME Inv, NextExtent PROVE Inv'
<1>1. /\ UNCHANGED <<call, phase, completed, block, sink, result, asked>>
      /\ current' = current + 1
      /\ extent_completed' = 0
      /\ phase = "stream"
      /\ current <= Len(entry.extents)
  BY DEF NextExtent, Streaming
<1>2. entry' = entry /\ (Refused)' = Refused
  BY <1>1 DEF entry, Refused
<1>3. entry.extents \in Seq(Piece) /\ entry.length \in Nat
  BY CallType DEF Inv
<1>4. TypeOK'
  BY <1>1, <1>2, <1>3 DEF Inv, TypeOK
<1>5. InExtent'
  <2>1. extent_completed' <= completed'
    BY <1>1 DEF Inv, TypeOK
  <2>2. ASSUME current' <= Len(entry.extents')
        PROVE  extent_completed' <= Logical'
    <3>1. Extent' \in Piece
      BY <1>2, <1>3, <1>4, <2>2 DEF TypeOK, Extent
    <3>2. Extent'.length \in Nat
      BY <3>1 DEF Piece
    <3> QED
      BY <1>1, <1>2, <1>3, <3>2 DEF Inv, TypeOK, Logical, Least
  <2> QED
    BY <2>1, <2>2 DEF InExtent
<1> QED
  BY <1>1, <1>2, <1>4, <1>5
  DEF Inv, BlockFits, Accepted, Counted, ReadsInsideSource

\* What is asked of the caller lies inside the source: an ISO file's range was
\* checked when it was opened, a UDF chunk's just now.
LEMMA ChunkInside ==
    ASSUME Inv, Polling, InSource
    PROVE  Offset + Wanted <= call.source_bytes
<1>1. current <= Len(entry.extents) /\ phase = "stream"
  BY DEF Polling, Streaming
<1>2. CASE entry.format = "udf"
  BY <1>2 DEF InSource
<1>3. CASE entry.format = "iso"
  <2>1. /\ Len(entry.extents) = 1
        /\ entry.extents[1].length = entry.length
    BY <1>3, CallType DEF Inv
  <2>2. current = 1
    BY <1>1, <2>1 DEF Inv, TypeOK
  <2>3. ~Refused
    BY <1>1 DEF Inv, Accepted
  <2>4. ~(entry.extents[1].offset + entry.length > call.source_bytes)
    BY <1>3, <2>3 DEF Refused
  <2>5. /\ Extent \in Piece /\ Logical \in Nat /\ Wanted \in Nat
        /\ Logical <= Extent.length /\ extent_completed + Wanted <= Logical
    BY <1>1, ExtentType DEF Inv
  <2>6. Extent = entry.extents[1]
    BY <2>2 DEF Extent
  <2>7. Extent.offset \in Nat /\ Extent.length \in Nat /\ extent_completed \in Nat
    BY <2>5 DEF Inv, TypeOK, Piece
  <2>8. call.source_bytes \in Nat
    BY CallType DEF Inv
  <2> QED
    BY <2>1, <2>4, <2>5, <2>6, <2>7, <2>8 DEF Offset
<1> QED
  BY <1>2, <1>3, CallType DEF Inv

\* A chunk is taken up: read from the source, or made of zeros.
LEMMA ChunkInv == ASSUME Inv, ReadChunk \/ ZeroChunk PROVE Inv'
<1>1. /\ UNCHANGED <<call, current, extent_completed, completed, sink>>
      /\ Polling
  BY DEF ReadChunk, ZeroChunk
<1>2. /\ InExtent' /\ Logical' = Logical
      /\ (Refused)' = Refused /\ entry' = entry
  BY <1>1, SameExtent DEF Inv
<1>3. current <= Len(entry.extents) /\ phase = "stream"
  BY <1>1 DEF Polling, Streaming
<1>4. /\ Wanted \in Nat /\ Wanted <= ChunkBytes
      /\ extent_completed + Wanted <= Logical
      /\ Offset \in Nat
  BY <1>3, ExtentType DEF Inv
<1>5. /\ block' \in Seq(Nat) /\ Len(block') <= ChunkBytes
      /\ phase' \in {"write", "returned"}
      /\ phase' = "write" => Len(block') = Wanted
      /\ result' \in {result, "error"}
      /\ phase' = "returned" => result' = "error"
  <2>1. CASE ReadChunk
    <3>1. CASE /\ block' = [i \in 1..Wanted |-> Offset + i]
               /\ phase' = "write" /\ UNCHANGED result
      <4>1. \A i \in 1..Wanted : Offset + i \in Nat
        BY <1>4
      <4>2. block' \in Seq(Nat) /\ Len(block') = Wanted
        BY <1>4, <3>1, <4>1
      <4> QED
        BY <1>4, <3>1, <4>2
    <3>2. CASE Return("error") /\ UNCHANGED block
      BY <3>2 DEF Return, Inv, TypeOK
    <3> QED
      BY <2>1, <3>1, <3>2 DEF ReadChunk
  <2>2. CASE ZeroChunk
    <3>1. block' = [i \in 1..Wanted |-> 0] /\ phase' = "write" /\ result' = result
      BY <2>2 DEF ZeroChunk
    <3>2. block' \in Seq(Nat) /\ Len(block') = Wanted
      BY <1>4, <3>1
    <3> QED
      BY <1>4, <3>1, <3>2
  <2> QED
    BY <2>1, <2>2
<1>6. /\ asked' \in [offset : Nat, length : Nat]
      /\ asked'.offset + asked'.length <= call.source_bytes
  <2>1. CASE ReadChunk
    <3>1. asked' = [offset |-> Offset, length |-> Wanted] /\ InSource
      BY <2>1 DEF ReadChunk
    <3>2. Offset + Wanted <= call.source_bytes
      BY <1>1, <3>1, ChunkInside
    <3> QED
      BY <1>4, <3>1, <3>2
  <2>2. CASE ZeroChunk
    BY <2>2 DEF ZeroChunk, Inv, TypeOK, ReadsInsideSource
  <2> QED
    BY <2>1, <2>2
<1>7. TypeOK'
  BY <1>1, <1>2, <1>5, <1>6 DEF Inv, TypeOK
<1>8. BlockFits'
  BY <1>1, <1>2, <1>3, <1>4, <1>5 DEF BlockFits
<1>9. Accepted'
  BY <1>2, <1>3, <1>5 DEF Inv, Accepted
<1>10. Counted'
  BY <1>1, <1>3, <1>5 DEF Inv, Counted
<1>11. ReadsInsideSource'
  BY <1>1, <1>6 DEF ReadsInsideSource
<1> QED
  BY <1>2, <1>7, <1>8, <1>9, <1>10, <1>11 DEF Inv

LEMMA WriteChunkInv == ASSUME Inv, WriteChunk PROVE Inv'
<1>1. /\ phase = "write" /\ phase' = "stream"
      /\ sink' = sink \o block /\ block' = <<>>
      /\ extent_completed' = extent_completed + Len(block)
      /\ completed' = completed + Len(block)
      /\ UNCHANGED <<call, current, result, asked>>
  BY DEF WriteChunk, Advance
<1>2. entry' = entry /\ (Refused)' = Refused /\ Extent' = Extent
  BY <1>1 DEF entry, Refused, Extent
<1>3. current <= Len(entry.extents) /\ extent_completed + Len(block) <= Logical
  BY <1>1 DEF Inv, BlockFits
<1>4. /\ extent_completed \in Nat /\ completed \in Nat
      /\ block \in Seq(Nat) /\ Len(block) \in Nat /\ sink \in Seq(Nat)
      /\ extent_completed <= completed
  BY DEF Inv, TypeOK, InExtent
<1>5. /\ Logical \in Nat /\ entry.length \in Nat
      /\ completed + (Logical - extent_completed) <= entry.length
  BY <1>3, ExtentType, CallType DEF Inv
<1>6. completed' - extent_completed' = completed - extent_completed
  BY <1>1, <1>4
<1>7. Logical' = Logical
  BY <1>2, <1>6 DEF Logical
<1>8. sink' \in Seq(Nat) /\ Len(sink') = Len(sink) + Len(block)
  BY <1>1, <1>4
<1>9. completed' \in 0..entry.length
  BY <1>1, <1>3, <1>4, <1>5
<1>10. TypeOK'
  BY <1>1, <1>2, <1>4, <1>8, <1>9, ChunkAssumption DEF Inv, TypeOK
<1>11. InExtent'
  BY <1>1, <1>2, <1>3, <1>4, <1>7 DEF InExtent
<1>12. Counted'
  BY <1>1, <1>4, <1>8 DEF Inv, Counted
<1> QED
  BY <1>1, <1>2, <1>10, <1>11, <1>12
  DEF Inv, BlockFits, Accepted, ReadsInsideSource

LEMMA WriteFailsInv == ASSUME Inv, WriteFails PROVE Inv'
<1>1. /\ UNCHANGED <<call, current, extent_completed, completed, block, asked>>
      /\ phase' = "returned" /\ result' = "error"
  BY DEF WriteFails, Return
<1>2. /\ InExtent' /\ (Refused)' = Refused /\ entry' = entry
  BY <1>1, SameExtent DEF Inv
<1>3. sink' \in Seq(Nat)
  <2>1. PICK taken \in 0..Len(block) : sink' = sink \o SubSeq(block, 1, taken)
    BY DEF WriteFails
  <2>2. block \in Seq(Nat) /\ sink \in Seq(Nat)
    BY DEF Inv, TypeOK
  <2>3. SubSeq(block, 1, taken) \in Seq(Nat)
    BY <2>2
  <2> QED
    BY <2>1, <2>2, <2>3
<1>4. TypeOK'
  BY <1>1, <1>2, <1>3 DEF Inv, TypeOK
<1> QED
  BY <1>1, <1>2, <1>4 DEF Inv, BlockFits, Accepted, Counted, ReadsInsideSource

-----------------------------------------------------------------------------
LEMMA InvStep == ASSUME Inv, [Next]_vars PROVE Inv'
BY ReturnInv, NextExtentInv, ChunkInv, WriteChunkInv, WriteFailsInv DEF Next

\* Every behaviour of the copy keeps the invariant.
THEOREM Invariance == Spec => []Inv
<1>1. Inv /\ [Next]_vars => Inv'
  BY InvStep
<1> QED
  BY InitInv, <1>1, PTL DEF Spec

\* read_iso_file and read_udf_file keep their types, for every entry: never more
\* bytes are counted than the file has, nor more buffered than a chunk.
THEOREM TypeCorrect == Spec => []TypeOK
<1>1. Inv => TypeOK
  BY DEF Inv
<1> QED
  BY Invariance, <1>1, PTL

\* A report of read_iso_file or read_udf_file claims exactly the bytes the caller's
\* writer took, and stays under max_output_bytes, however many extents the entry
\* lists and wherever the copy was cancelled.
THEOREM ReportsMatch == Spec => []ReportMatchesSink
<1>1. Inv => ReportMatchesSink
  <2> SUFFICES ASSUME Inv, result \in {"ok", "cancelled"}
               PROVE  completed = Len(sink) /\ completed <= call.max_output_bytes
    BY DEF ReportMatchesSink
  <2>1. ~Refused
    BY DEF Inv, Accepted
  <2>2. /\ entry.length \in Nat /\ call.max_output_bytes \in Nat
        /\ completed \in 0..entry.length
    BY CallType DEF Inv, TypeOK
  <2> QED
    BY <2>1, <2>2 DEF Inv, Counted, Refused
<1> QED
  BY Invariance, <1>1, PTL

\* The extents of an entry are what the image says; no read they lead to leaves the
\* source.
THEOREM ReadsStayInside == Spec => []ReadsInsideSource
<1>1. Inv => ReadsInsideSource
  BY DEF Inv
<1> QED
  BY Invariance, <1>1, PTL

\* Both: a call keeps to its source and reports what it delivered.
THEOREM CopiesAreHonest == Spec => []CopyIsHonest
<1>1. ReadsInsideSource /\ ReportMatchesSink => CopyIsHonest
  BY DEF CopyIsHonest
<1> QED
  BY ReportsMatch, ReadsStayInside, <1>1, PTL

-----------------------------------------------------------------------------
(***************************************************************************)
(* Where the bytes of the file are.  That Held satisfies its own           *)
(* definition, and what follows for every piece, is shown by the least     *)
(* number of pieces that would be an exception.                            *)
(***************************************************************************)
LEMMA LeastElement ==
    ASSUME NEW T \in SUBSET Nat, T # {}
    PROVE  \E n \in T : \A m \in T : n <= m
  <1> DEFINE R == OpToRel(<, Nat)
  <1>1. IsWellFoundedOn(R, Nat)
    BY NatLessThanWellFounded, Zenon
  <1>2. \A m, n \in Nat : m < n => <<m, n>> \in R
    BY Zenon DEF OpToRel
  <1> HIDE DEF R
  <1>3. PICK n \in T : \A m \in T : ~(<<m, n>> \in R)
    BY <1>1, WFMin
  <1>4. \A m \in T : n <= m
    <2> TAKE m \in T
    <2>1. m \in Nat /\ n \in Nat  OBVIOUS
    <2>2. ~(m < n)  BY <1>2, <1>3, <2>1
    <2> QED BY <2>1, <2>2
  <1> QED BY <1>4

LEMMA HeldUnfold ==
    ASSUME NEW pieces, Len(pieces) \in Nat
    PROVE  /\ Held(pieces)[0] = 0
           /\ \A n \in 1..Len(pieces) : Held(pieces)[n] = Held(pieces)[n - 1] + pieces[n].length
  <1> DEFINE Unfolds(f, k) ==
        f = [n \in 0..k |-> IF n = 0 THEN 0 ELSE f[n - 1] + pieces[n].length]
  <1>1. \A k \in Nat : \E f : Unfolds(f, k)
    <2> DEFINE T == {k \in Nat : ~\E f : Unfolds(f, k)}
    <2> SUFFICES ASSUME T # {} PROVE FALSE
      OBVIOUS
    <2>1. PICK k \in T : \A m \in T : k <= m
      <3> HIDE DEF Unfolds
      <3> QED BY LeastElement
    <2>2. CASE k = 0
      <3> DEFINE g == [n \in 0..0 |-> 0]
      <3>1. \A n \in 0..0 : g[n] = IF n = 0 THEN 0 ELSE g[n - 1] + pieces[n].length
        OBVIOUS
      <3>2. Unfolds(g, k)
        BY <2>2, <3>1
      <3> HIDE DEF Unfolds
      <3> QED BY <3>2
    <2>3. CASE k # 0
      <3>1. k - 1 \in Nat /\ k - 1 \notin T
        <4> HIDE DEF Unfolds
        <4>1. k \in Nat /\ k - 1 \in Nat
          BY <2>3
        <4>2. ~(k <= k - 1)
          BY <4>1
        <4> QED BY <2>1, <4>1, <4>2
      <3>2. PICK f : Unfolds(f, k - 1)
        <4> HIDE DEF Unfolds
        <4> QED BY <3>1
      <3> DEFINE g == [n \in 0..k |-> IF n = k THEN f[k - 1] + pieces[k].length ELSE f[n]]
      <3>3. \A n \in 0..k - 1 : g[n] = f[n]
        BY <3>1
      <3>4. \A n \in 0..k : g[n] = IF n = 0 THEN 0 ELSE g[n - 1] + pieces[n].length
        <4> TAKE n \in 0..k
        <4>1. CASE n = k
          <5>1. g[k - 1] = f[k - 1]
            BY <3>1, <3>3
          <5> QED BY <2>3, <4>1, <5>1
        <4>2. CASE n # k /\ n # 0
          <5>1. n \in 0..k - 1 /\ n - 1 \in 0..k - 1
            BY <4>2
          <5>2. f[n] = f[n - 1] + pieces[n].length
            BY <3>2, <4>2, <5>1
          <5> QED BY <3>3, <4>2, <5>1, <5>2
        <4>3. CASE n = 0 /\ n # k
          BY <3>1, <3>2, <3>3, <4>3
        <4> QED BY <4>1, <4>2, <4>3
      <3>5. Unfolds(g, k)
        BY <3>4
      <3> HIDE DEF Unfolds
      <3> QED BY <3>5
    <2> QED BY <2>2, <2>3
  <1>2. PICK f : Unfolds(f, Len(pieces))
    BY <1>1
  <1>3. Unfolds(Held(pieces), Len(pieces))
    <2>1. Held(pieces) = CHOOSE g : Unfolds(g, Len(pieces))
      BY DEF Held
    <2> HIDE DEF Unfolds
    <2> QED BY <1>2, <2>1
  <1> DEFINE F == Held(pieces)
  <1>4. \A n \in 0..Len(pieces) : F[n] = IF n = 0 THEN 0 ELSE F[n - 1] + pieces[n].length
    <2> HIDE DEF F
    <2>1. Unfolds(F, Len(pieces))
      BY <1>3 DEF F
    <2> QED BY <2>1
  <1>5. F[0] = 0 /\ \A n \in 1..Len(pieces) : F[n] = F[n - 1] + pieces[n].length
    BY <1>4
  <1> QED BY <1>5

LEMMA HeldOrder ==
    ASSUME NEW pieces \in Seq(Piece)
    PROVE  /\ \A n \in 0..Len(pieces) : Held(pieces)[n] \in Nat
           /\ \A n \in 0..Len(pieces) : \A m \in 0..n : Held(pieces)[m] <= Held(pieces)[n]
  <1> DEFINE H == Held(pieces)
  <1>1. /\ H[0] = 0 /\ Len(pieces) \in Nat
        /\ \A n \in 1..Len(pieces) : H[n] = H[n - 1] + pieces[n].length
    BY HeldUnfold
  <1>2. \A n \in 1..Len(pieces) : pieces[n].length \in Nat
    <2> TAKE n \in 1..Len(pieces)
    <2>1. pieces[n] \in Piece
      OBVIOUS
    <2> QED BY <2>1 DEF Piece
  <1> HIDE DEF H
  <1>3. \A n \in 0..Len(pieces) : H[n] \in Nat
    <2> DEFINE T == {n \in 0..Len(pieces) : H[n] \notin Nat}
    <2> SUFFICES ASSUME T # {} PROVE FALSE
      OBVIOUS
    <2>1. PICK n \in T : \A m \in T : n <= m
      <3>1. T \in SUBSET Nat
        OBVIOUS
      <3> QED BY <3>1, LeastElement
    <2>2. n \in 1..Len(pieces) /\ n - 1 \in 0..Len(pieces) /\ ~(n <= n - 1)
      BY <1>1
    <2>3. H[n - 1] \in Nat
      BY <2>1, <2>2
    <2>4. H[n] = H[n - 1] + pieces[n].length /\ pieces[n].length \in Nat
      BY <1>1, <1>2, <2>2
    <2>5. H[n] \in Nat
      BY <2>3, <2>4
    <2> QED BY <2>5
  <1>4. \A n \in 0..Len(pieces) : \A m \in 0..n : H[m] <= H[n]
    <2> DEFINE T == {n \in 0..Len(pieces) : \E m \in 0..n : ~(H[m] <= H[n])}
    <2> SUFFICES ASSUME T # {} PROVE FALSE
      OBVIOUS
    <2>1. PICK n \in T : \A k \in T : n <= k
      <3>1. T \in SUBSET Nat
        OBVIOUS
      <3> QED BY <3>1, LeastElement
    <2>2. PICK m \in 0..n : ~(H[m] <= H[n])
      OBVIOUS
    <2>3. n \in 0..Len(pieces) /\ m # n /\ m \in 0..n - 1 /\ n \in 1..Len(pieces)
      <3>1. n \in 0..Len(pieces) /\ H[n] \in Nat
        BY <1>3
      <3>2. m # n
        BY <2>2, <3>1
      <3> QED BY <3>1, <3>2
    <2>4. n - 1 \in 0..Len(pieces) /\ ~(n <= n - 1)
      BY <2>3
    <2>5. H[m] <= H[n - 1]
      BY <2>1, <2>3, <2>4
    <2>6. H[m] \in Nat /\ H[n - 1] \in Nat /\ H[n] = H[n - 1] + pieces[n].length
      BY <1>1, <1>3, <2>3, <2>4
    <2> QED BY <1>2, <2>2, <2>3, <2>5, <2>6
  <1> QED BY <1>3, <1>4 DEF H

\* A byte has one holder at most, so it does not matter which is chosen.
LEMMA HeldBy ==
    ASSUME NEW pieces \in Seq(Piece), NEW k \in 1..Len(pieces), NEW i \in Nat,
           Held(pieces)[k - 1] < i, i <= Held(pieces)[k]
    PROVE  ByteAt(pieces, i)
               = IF pieces[k].recorded THEN pieces[k].offset + (i - Held(pieces)[k - 1])
                 ELSE 0
  <1>1. k \in Holders(pieces, i)
    BY DEF Holders
  <1>2. \A j \in Holders(pieces, i) : j = k
    <2> SUFFICES ASSUME NEW j \in Holders(pieces, i) PROVE j = k
      OBVIOUS
    <2>1. /\ j \in 1..Len(pieces) /\ Held(pieces)[j - 1] < i /\ i <= Held(pieces)[j]
      BY DEF Holders
    <2>2. Len(pieces) \in Nat
      OBVIOUS
    <2>3. ASSUME NEW a \in 1..Len(pieces), NEW b \in 1..Len(pieces), a < b,
                 i <= Held(pieces)[a], Held(pieces)[b - 1] < i
          PROVE  FALSE
      <3>1. b - 1 \in 0..Len(pieces) /\ a \in 0..b - 1 /\ a \in 0..Len(pieces)
        BY <2>2, <2>3
      <3>2. Held(pieces)[a] <= Held(pieces)[b - 1]
        BY <3>1, HeldOrder
      <3>3. Held(pieces)[a] \in Nat /\ Held(pieces)[b - 1] \in Nat
        BY <3>1, HeldOrder
      <3> QED BY <2>3, <3>2, <3>3
    <2> QED BY <2>1, <2>2, <2>3
  <1>3. (CHOOSE h \in Holders(pieces, i) : TRUE) = k
    BY <1>1, <1>2
  <1> QED BY <1>1, <1>3 DEF ByteAt

LEMMA ByteType ==
    ASSUME NEW pieces \in Seq(Piece), NEW i \in Nat
    PROVE  ByteAt(pieces, i) \in Int
  <1>1. CASE Holders(pieces, i) = {}
    BY <1>1 DEF ByteAt, Missing
  <1>2. CASE Holders(pieces, i) # {}
    <2>1. PICK k \in Holders(pieces, i) : TRUE
      BY <1>2
    <2>2. k \in 1..Len(pieces) /\ Held(pieces)[k - 1] < i /\ i <= Held(pieces)[k]
      BY DEF Holders
    <2>3. pieces[k] \in Piece /\ k - 1 \in 0..Len(pieces)
      BY <2>2
    <2>4. pieces[k].offset \in Nat /\ Held(pieces)[k - 1] \in Nat
      BY <2>3, HeldOrder DEF Piece
    <2> QED BY <2>2, <2>4, HeldBy
  <1> QED BY <1>1, <1>2

LEMMA ContentType ==
    ASSUME TypeOK
    PROVE  /\ FileContent \in Seq(Int) /\ Len(FileContent) = entry.length
           /\ \A i \in 1..entry.length : FileContent[i] = ByteAt(entry.extents, i)
  <1>1. entry.length \in Nat /\ entry.extents \in Seq(Piece)
    BY CallType
  <1>2. \A i \in 1..entry.length : ByteAt(entry.extents, i) \in Int
    BY <1>1, ByteType
  <1> QED BY <1>1, <1>2 DEF FileContent

-----------------------------------------------------------------------------
(***************************************************************************)
(* The refinement of BoundedCopy.  Placed: the counters say where the next *)
(* byte is, or the file has ended before the current extent.  Waiting: a   *)
(* chunk that waits to be written is the file's from there on.  Delivered: *)
(* the sink holds the file's first bytes.                                  *)
(***************************************************************************)
Placed ==
    current <= Len(entry.extents) =>
        \/ completed = Held(entry.extents)[current - 1] + extent_completed
        \/ completed = entry.length /\ extent_completed = 0

Waiting ==
    phase = "write" =>
        \A i \in 1..Len(block) :
            completed + i <= entry.length /\ block[i] = FileContent[completed + i]

Delivered ==
    /\ Len(sink) <= entry.length
    /\ \A i \in 1..Len(sink) : sink[i] = FileContent[i]

Copied == Placed /\ Waiting /\ Delivered

\* A call that has not returned has no result.
Ended == phase # "returned" => result = "none"

\* A copy reported as done has counted the whole file.
Whole == result = "ok" => completed = entry.length

LEMMA CallFixed ==
    ASSUME [Next]_vars
    PROVE  call' = call /\ entry' = entry /\ FileContent' = FileContent
  <1>1. call' = call
    BY DEF Next, vars, Refuse, Open, NextExtent, Cancel, ChunkOutsideSource, ReadChunk,
           ZeroChunk, WriteChunk, WriteFails, Finish, Returned
  <1> QED BY <1>1 DEF entry, FileContent

LEMMA InitCopied == Init => Copied /\ Copy!Init
  <1> SUFFICES ASSUME Init PROVE Copied /\ Copy!Init
    OBVIOUS
  <1>1. TypeOK /\ entry.length \in Nat /\ entry.extents \in Seq(Piece)
    BY InitInv, CallType DEF Inv
  <1>2. Held(entry.extents)[0] = 0
    BY <1>1, HeldUnfold
  <1>3. Placed /\ Waiting /\ Delivered
    BY <1>1, <1>2 DEF Init, Placed, Waiting, Delivered
  <1>4. Copy!Init
    BY <1>1, ContentType DEF Init, Copy!Init, Outcome
  <1> QED BY <1>3, <1>4 DEF Copied

\* The extent that is done ends where the next begins, or the file ends in it.
LEMMA NextExtentPlaced == ASSUME Inv, Placed, NextExtent PROVE Placed'
  <1>1. /\ current' = current + 1 /\ extent_completed' = 0 /\ completed' = completed
        /\ entry' = entry /\ current <= Len(entry.extents) /\ ExtentDone
    BY DEF NextExtent, Streaming, entry
  <1>2. entry.length \in Nat /\ entry.extents \in Seq(Piece) /\ current \in Nat \ {0}
    BY CallType DEF Inv, TypeOK
  <1>3. Extent \in Piece /\ Logical \in Nat /\ extent_completed <= Logical
    BY <1>1, ExtentType DEF Inv, InExtent
  <1>4. extent_completed = Logical /\ extent_completed \in Nat /\ completed \in Nat
    BY <1>1, <1>3 DEF ExtentDone, Inv, TypeOK
  <1>5. CASE extent_completed = Extent.length
    <2>1. CASE completed = Held(entry.extents)[current - 1] + extent_completed
      <3>1. Held(entry.extents)[current] = Held(entry.extents)[current - 1] + Extent.length
        BY <1>1, <1>2, HeldUnfold DEF Extent
      <3> QED BY <1>1, <1>2, <1>4, <1>5, <2>1, <3>1 DEF Placed
    <2>2. CASE completed = entry.length /\ extent_completed = 0
      BY <1>1, <2>2 DEF Placed
    <2> QED BY <1>1, <2>1, <2>2 DEF Placed
  <1>6. CASE extent_completed # Extent.length
    <2>1. extent_completed = entry.length - (completed - extent_completed)
      BY <1>4, <1>6 DEF Logical, Least
    <2>2. completed = entry.length
      BY <1>2, <1>4, <2>1
    <2> QED BY <1>1, <2>2 DEF Placed
  <1> QED BY <1>5, <1>6

\* The chunk that is taken up is the file's, where the counters say.
LEMMA ChunkIsContent ==
    ASSUME Inv, Placed, Polling, NEW i \in 1..Wanted
    PROVE  /\ completed + i \in 1..entry.length
           /\ FileContent[completed + i] = IF Extent.recorded THEN Offset + i ELSE 0
  <1>1. /\ current <= Len(entry.extents) /\ extent_completed < Logical
        /\ current \in 1..Len(entry.extents) /\ extent_completed \in Nat /\ completed \in Nat
        /\ entry.length \in Nat /\ entry.extents \in Seq(Piece)
    <2>1. current <= Len(entry.extents) /\ ~(extent_completed >= Logical)
      BY DEF Polling, Streaming, ExtentDone
    <2>2. entry.length \in Nat /\ entry.extents \in Seq(Piece)
      BY CallType DEF Inv
    <2>3. Logical \in Nat /\ extent_completed \in Nat /\ completed \in Nat
      BY <2>1, <2>2, ExtentType DEF Inv, TypeOK
    <2> QED BY <2>1, <2>2, <2>3 DEF Inv, TypeOK
  <1>2. /\ Logical \in Nat /\ Logical <= Extent.length /\ Wanted \in Nat
        /\ extent_completed + Wanted <= Logical /\ Extent \in Piece
        /\ completed + (Logical - extent_completed) <= entry.length
    BY <1>1, ExtentType DEF Inv
  <1>3. i \in Nat /\ 0 < i /\ i <= Wanted /\ Extent.length \in Nat
    BY <1>2 DEF Piece
  <1>4. completed + i \in 1..entry.length
    BY <1>1, <1>2, <1>3
  <1>5. completed = Held(entry.extents)[current - 1] + extent_completed
    <2>1. ~(completed = entry.length /\ extent_completed = 0)
      BY <1>1, <1>2, <1>3
    <2> QED BY <1>1, <2>1 DEF Placed
  <1>6. /\ Held(entry.extents)[current - 1] \in Nat
        /\ Held(entry.extents)[current] = Held(entry.extents)[current - 1] + Extent.length
    <2>1. current - 1 \in 0..Len(entry.extents) /\ Len(entry.extents) \in Nat
      BY <1>1
    <2>2. Held(entry.extents)[current - 1] \in Nat
      BY <1>1, <2>1, HeldOrder
    <2>3. Held(entry.extents)[current] = Held(entry.extents)[current - 1] + Extent.length
      BY <1>1, <2>1, HeldUnfold DEF Extent
    <2> QED BY <2>2, <2>3
  <1>7. /\ Held(entry.extents)[current - 1] < completed + i
        /\ completed + i <= Held(entry.extents)[current]
        /\ (completed + i) - Held(entry.extents)[current - 1] = extent_completed + i
    <2>1. PICK h : h = Held(entry.extents)[current - 1]
      OBVIOUS
    <2>2. PICK e : e = Held(entry.extents)[current]
      OBVIOUS
    <2>3. PICK l : l = Extent.length
      OBVIOUS
    <2>4. /\ h \in Nat /\ l \in Nat /\ e = h + l /\ completed = h + extent_completed
          /\ extent_completed \in Nat /\ i \in Nat /\ 0 < i
      BY <1>1, <1>3, <1>5, <1>6, <2>1, <2>2, <2>3
    <2>5. extent_completed + i <= l
      BY <1>1, <1>2, <1>3, <2>3, <2>4
    <2>6. h < completed + i /\ completed + i <= e /\ (completed + i) - h = extent_completed + i
      BY <2>4, <2>5
    <2> QED BY <2>1, <2>2, <2>6
  <1>8. ByteAt(entry.extents, completed + i)
            = IF Extent.recorded THEN Extent.offset + (extent_completed + i) ELSE 0
    BY <1>1, <1>4, <1>7, HeldBy DEF Extent
  <1>9. Extent.offset + (extent_completed + i) = Offset + i
    BY <1>1, <1>2, <1>3 DEF Offset, Piece
  <1> QED BY <1>4, <1>8, <1>9, ContentType DEF Inv

LEMMA Joined ==
    ASSUME NEW s \in Seq(Nat), NEW b \in Seq(Nat)
    PROVE  /\ Len(s \o b) = Len(s) + Len(b)
           /\ \A i \in 1..Len(s) : (s \o b)[i] = s[i]
           /\ \A i \in 1..Len(b) : (s \o b)[Len(s) + i] = b[i]
  OBVIOUS

\* A chunk, or its first bytes, goes to the sink behind what is there.
LEMMA SinkGrows ==
    ASSUME Inv, Copied, phase = "write", NEW n \in 0..Len(block),
           sink' = sink \o SubSeq(block, 1, n)
    PROVE  /\ Len(sink') = Len(sink) + n
           /\ Len(sink') <= entry.length
           /\ \A i \in 1..Len(sink') : sink'[i] = FileContent[i]
           /\ \A i \in 1..Len(sink) : sink'[i] = sink[i]
  <1>1. /\ sink \in Seq(Nat) /\ block \in Seq(Nat) /\ Len(sink) = completed
        /\ entry.length \in Nat /\ completed \in 0..entry.length
    BY CallType DEF Inv, TypeOK, Counted
  <1>2. PICK b : b = SubSeq(block, 1, n)
    OBVIOUS
  <1>3. b \in Seq(Nat) /\ Len(b) = n /\ \A i \in 1..n : b[i] = block[i]
    BY <1>1, <1>2
  <1>4. /\ sink' = sink \o b /\ Len(sink') = Len(sink) + n
        /\ \A i \in 1..Len(sink) : sink'[i] = sink[i]
        /\ \A i \in 1..n : sink'[Len(sink) + i] = b[i]
    <2>1. PICK s : s = sink
      OBVIOUS
    <2>2. sink' = s \o b /\ s \in Seq(Nat)
      BY <1>1, <1>2, <2>1
    <2>3. /\ Len(s \o b) = Len(s) + Len(b)
          /\ \A i \in 1..Len(s) : (s \o b)[i] = s[i]
          /\ \A i \in 1..Len(b) : (s \o b)[Len(s) + i] = b[i]
      BY <1>3, <2>2, Joined
    <2> QED BY <1>3, <2>1, <2>2, <2>3
  <1>5. Len(sink') <= entry.length
    <2>1. CASE n = 0
      BY <1>1, <1>4, <2>1
    <2>2. CASE n # 0
      <3>1. n \in 1..Len(block)
        BY <2>2
      <3>2. completed + n <= entry.length
        BY <3>1 DEF Copied, Waiting
      <3> QED BY <1>1, <1>4, <3>2
    <2> QED BY <2>1, <2>2
  <1>6. ASSUME NEW i \in 1..Len(sink') PROVE sink'[i] = FileContent[i]
    <2>1. CASE i \in 1..Len(sink)
      BY <1>4, <2>1 DEF Copied, Delivered
    <2>2. CASE i \notin 1..Len(sink)
      <3>1. PICK k \in 1..n : i = Len(sink) + k
        <4>1. i - Len(sink) \in 1..n /\ i = Len(sink) + (i - Len(sink))
          BY <1>1, <1>4, <2>2
        <4> QED BY <4>1
      <3>2. k \in 1..Len(block)
        BY <1>1
      <3>3. block[k] = FileContent[completed + k]
        BY <3>2 DEF Copied, Waiting
      <3> QED BY <1>1, <1>3, <1>4, <3>1, <3>3
    <2> QED BY <2>1, <2>2
  <1> QED BY <1>4, <1>5, <1>6

LEMMA CopiedStep == ASSUME Inv, Inv', Copied, [Next]_vars PROVE Copied'
  <1>0. call' = call /\ entry' = entry /\ FileContent' = FileContent
    BY CallFixed
  <1>1. CASE \/ Refuse \/ Open \/ Cancel \/ ChunkOutsideSource \/ Finish
             \/ Returned \/ UNCHANGED vars
    <2>1. UNCHANGED <<current, extent_completed, completed, block, sink>>
      BY <1>1 DEF Refuse, Open, Cancel, ChunkOutsideSource, Finish, Returned, vars
    <2>2. phase' = "write" => phase = "write"
      BY <1>1 DEF Refuse, Open, Cancel, ChunkOutsideSource, Finish, Returned, vars, Return
    <2> QED BY <1>0, <2>1, <2>2 DEF Copied, Placed, Waiting, Delivered
  <1>2. CASE NextExtent
    <2>1. UNCHANGED <<sink, phase>> /\ phase = "stream"
      BY <1>2 DEF NextExtent, Streaming
    <2> QED BY <1>0, <1>2, <2>1, NextExtentPlaced DEF Copied, Waiting, Delivered
  <1>3. CASE ReadChunk \/ ZeroChunk
    <2>1. UNCHANGED <<current, extent_completed, completed, sink>> /\ Polling
      BY <1>3 DEF ReadChunk, ZeroChunk
    <2>2. Placed' /\ Delivered'
      BY <1>0, <2>1 DEF Copied, Placed, Delivered
    <2>3. current <= Len(entry.extents)
      BY <2>1 DEF Polling, Streaming
    <2>4. Wanted \in Nat
      BY <2>3, ExtentType DEF Inv
    <2>5. \/ phase' # "write"
          \/ Extent.recorded /\ block' = [i \in 1..Wanted |-> Offset + i]
          \/ ~Extent.recorded /\ block' = [i \in 1..Wanted |-> 0]
      BY <1>3 DEF ReadChunk, ZeroChunk, Return
    <2>6. phase' = "write" =>
             \A i \in 1..Wanted :
                completed + i <= entry.length /\ block'[i] = FileContent[completed + i]
      <3> SUFFICES ASSUME phase' = "write", NEW i \in 1..Wanted
                   PROVE  completed + i <= entry.length /\ block'[i] = FileContent[completed + i]
        OBVIOUS
      <3>1. /\ completed + i \in 1..entry.length
            /\ FileContent[completed + i] = IF Extent.recorded THEN Offset + i ELSE 0
        BY <2>1, ChunkIsContent DEF Copied
      <3>2. block'[i] = IF Extent.recorded THEN Offset + i ELSE 0
        BY <2>5
      <3>3. entry.length \in Nat
        BY CallType DEF Inv
      <3> QED BY <3>1, <3>2, <3>3
    <2>7. phase' = "write" => Len(block') = Wanted
      BY <2>4, <2>5
    <2>8. Waiting'
      BY <1>0, <2>1, <2>6, <2>7 DEF Waiting
    <2> QED BY <2>2, <2>8 DEF Copied
  <1>4. CASE WriteChunk
    <2>1. /\ phase = "write" /\ phase' = "stream" /\ sink' = sink \o block
          /\ extent_completed' = extent_completed + Len(block)
          /\ completed' = completed + Len(block) /\ current' = current
      BY <1>4 DEF WriteChunk, Advance
    <2>2. block \in Seq(Nat) /\ Len(block) \in Nat /\ SubSeq(block, 1, Len(block)) = block
      BY DEF Inv, TypeOK
    <2>3. Delivered'
      <3>1. Len(block) \in 0..Len(block) /\ sink' = sink \o SubSeq(block, 1, Len(block))
        BY <2>1, <2>2
      <3>2. Len(sink') <= entry.length /\ \A i \in 1..Len(sink') : sink'[i] = FileContent[i]
        BY <2>1, <3>1, SinkGrows
      <3> QED BY <1>0, <3>2 DEF Delivered
    <2>4. Placed'
      <3> SUFFICES ASSUME current' <= Len(entry'.extents)
                   PROVE  \/ completed' = Held(entry'.extents)[current' - 1] + extent_completed'
                          \/ completed' = entry'.length /\ extent_completed' = 0
        BY DEF Placed
      <3>1. current \in 1..Len(entry.extents) /\ entry.extents \in Seq(Piece)
            /\ entry.length \in Nat /\ completed \in Nat /\ extent_completed \in Nat
        BY <1>0, <2>1, CallType DEF Inv, TypeOK
      <3>2. CASE completed = Held(entry.extents)[current - 1] + extent_completed
        <4>1. Held(entry.extents)[current - 1] \in Nat
          BY <3>1, HeldOrder
        <4> QED BY <1>0, <2>1, <2>2, <3>1, <3>2, <4>1
      <3>3. CASE completed = entry.length /\ extent_completed = 0
        <4>1. Len(block) = 0
          <5>1. Len(block) # 0 => completed + Len(block) <= entry.length
            BY <2>1, <2>2 DEF Copied, Waiting
          <5> QED BY <2>2, <3>1, <3>3, <5>1
        <4> QED BY <1>0, <2>1, <3>1, <3>3, <4>1
      <3> QED BY <1>0, <2>1, <3>2, <3>3 DEF Copied, Placed
    <2>5. Waiting'
      BY <2>1 DEF Waiting
    <2> QED BY <2>3, <2>4, <2>5 DEF Copied
  <1>5. CASE WriteFails
    <2>1. /\ phase = "write" /\ phase' = "returned"
          /\ UNCHANGED <<current, extent_completed, completed>>
      BY <1>5 DEF WriteFails, Return
    <2>2. PICK n \in 0..Len(block) : sink' = sink \o SubSeq(block, 1, n)
      BY <1>5 DEF WriteFails
    <2>3. Delivered'
      BY <1>0, <2>1, <2>2, SinkGrows DEF Delivered
    <2> QED BY <1>0, <2>1, <2>3 DEF Copied, Placed, Waiting
  <1> QED BY <1>1, <1>2, <1>3, <1>4, <1>5 DEF Next

-----------------------------------------------------------------------------
\* A returned call takes no step that is not a stutter, so an outcome is final.
LEMMA StillRunning ==
    ASSUME Inv, Ended, [Next]_vars, ~(UNCHANGED <<sink, result>>)
    PROVE  result = "none"
  BY DEF Ended, Next, vars, Refuse, Open, NextExtent, Cancel, ChunkOutsideSource, ReadChunk,
         ZeroChunk, WriteChunk, WriteFails, Finish, Returned, Polling, Streaming

LEMMA EndedStep == ASSUME Ended, [Next]_vars PROVE Ended'
  BY DEF Ended, Next, vars, Refuse, Open, NextExtent, Cancel, ChunkOutsideSource, ReadChunk,
         ZeroChunk, WriteChunk, WriteFails, Finish, Returned, Polling, Streaming, Return

LEMMA WholeStep == ASSUME Ended, Whole, [Next]_vars PROVE Whole'
  <1> SUFFICES ASSUME result' = "ok" PROVE completed' = entry'.length
    BY DEF Whole
  <1>1. entry' = entry
    BY CallFixed
  <1>2. CASE phase = "returned"
    <2>1. UNCHANGED <<result, completed>>
      BY <1>2 DEF Next, vars, Refuse, Open, NextExtent, Cancel, ChunkOutsideSource, ReadChunk,
         ZeroChunk, WriteChunk, WriteFails, Finish, Returned, Polling, Streaming
    <2> QED BY <1>1, <2>1 DEF Whole
  <1>3. CASE phase # "returned"
    <2>1. result = "none"
      BY <1>3 DEF Ended
    <2>2. Finish
      BY <2>1 DEF Next, vars, Refuse, Open, NextExtent, Cancel, ChunkOutsideSource, ReadChunk,
         ZeroChunk, WriteChunk, WriteFails, Finish, Returned, Return
    <2> QED BY <1>1, <2>2 DEF Finish, Return, Covered
  <1> QED BY <1>2, <1>3

LEMMA StepRefines ==
    ASSUME Inv, Inv', Ended, Copied, Copied', [Next]_vars
    PROVE  [Copy!Next]_(Copy!vars)
  <1>0. entry' = entry /\ FileContent' = FileContent
    BY CallFixed
  <1>1. /\ FileContent \in Seq(Int) /\ Len(FileContent) = entry.length
        /\ sink \in Seq(Nat) /\ sink' \in Seq(Nat)
    BY ContentType DEF Inv, TypeOK
  <1>2. Copy!Prefix(sink', FileContent) /\ Copy!Prefix(sink, FileContent)
    BY <1>0, <1>1 DEF Copied, Delivered, Copy!Prefix
  <1>3. CASE \/ Refuse \/ Open \/ NextExtent \/ Cancel \/ ChunkOutsideSource
             \/ ReadChunk \/ ZeroChunk \/ Returned \/ UNCHANGED vars
    <2>1. sink' = sink
      BY <1>3 DEF Refuse, Open, NextExtent, Cancel, ChunkOutsideSource, ReadChunk, ZeroChunk,
                  Returned, vars
    <2>2. CASE result' = result
      BY <1>0, <2>1, <2>2 DEF Copy!vars, Outcome
    <2>3. CASE result' # result
      <3>1. result = "none" /\ result' \in {"cancelled", "error"}
        <4>1. result = "none"
          BY <2>3, StillRunning
        <4>2. result' \in {"cancelled", "error"}
          BY <1>3, <2>3 DEF Refuse, Open, NextExtent, Cancel, ChunkOutsideSource, ReadChunk,
                  ZeroChunk, Returned, vars, Return
        <4> QED BY <4>1, <4>2
      <3>2. Outcome = "running" /\ Outcome' \in {"cancelled", "failed"}
        BY <3>1 DEF Outcome
      <3>3. Copy!Prefix(sink, sink')
        BY <1>1, <2>1 DEF Copy!Prefix
      <3>4. Copy!Stop
        BY <1>0, <1>2, <3>2, <3>3 DEF Copy!Stop, Copy!Extends, Copy!Prefix
      <3> QED BY <3>4 DEF Copy!Next
    <2> QED BY <2>2, <2>3
  <1>4. CASE WriteChunk \/ WriteFails
    <2>1. phase = "write"
      BY <1>4 DEF WriteChunk, WriteFails
    <2>2. PICK n \in 0..Len(block) : sink' = sink \o SubSeq(block, 1, n)
      <3>1. CASE WriteChunk
        <4>1. block \in Seq(Nat)
          BY DEF Inv, TypeOK
        <4>2. Len(block) \in 0..Len(block) /\ SubSeq(block, 1, Len(block)) = block
          BY <4>1
        <4>3. sink' = sink \o SubSeq(block, 1, Len(block))
          BY <3>1, <4>2 DEF WriteChunk
        <4> QED BY <4>2, <4>3
      <3>2. CASE WriteFails
        BY <3>2 DEF WriteFails
      <3> QED BY <1>4, <3>1, <3>2
    <2>3. Copy!Prefix(sink, sink')
      <3>1. Len(sink') = Len(sink) + n /\ \A i \in 1..Len(sink) : sink'[i] = sink[i]
        BY <2>1, <2>2, SinkGrows
      <3>2. n \in Nat /\ Len(sink) \in Nat
        BY <1>1
      <3> QED BY <3>1, <3>2 DEF Copy!Prefix
    <2>4. result = "none"
      BY <2>1 DEF Ended
    <2>5. Outcome = "running"
      BY <2>4 DEF Outcome
    <2>6. CASE WriteChunk
      <3>1. Outcome' = Outcome
        BY <2>6 DEF WriteChunk, Outcome
      <3>2. Copy!Deliver
        BY <1>0, <1>2, <2>3, <2>5, <3>1 DEF Copy!Deliver, Copy!Extends, Copy!Prefix
      <3> QED BY <3>2 DEF Copy!Next
    <2>7. CASE WriteFails
      <3>1. Outcome' = "failed"
        BY <2>7 DEF WriteFails, Return, Outcome
      <3>2. Copy!Stop
        BY <1>0, <1>2, <2>3, <2>5, <3>1 DEF Copy!Stop, Copy!Extends, Copy!Prefix
      <3> QED BY <3>2 DEF Copy!Next
    <2> QED BY <1>4, <2>6, <2>7
  <1>5. CASE Finish
    <2>1. sink' = sink /\ phase = "stream" /\ result' = IF Covered THEN "ok" ELSE "error"
      BY <1>5 DEF Finish, Return
    <2>2. result = "none"
      BY <2>1 DEF Ended
    <2>3. Outcome = "running"
      BY <2>2 DEF Outcome
    <2>4. CASE Covered
      <3>1. Len(sink) = entry.length
        BY <2>1, <2>4 DEF Inv, Counted, Covered
      <3>2. \A i \in 1..Len(sink) : sink[i] = FileContent[i]
        BY DEF Copied, Delivered
      <3>3. sink \in Seq(Int) /\ Len(sink) = Len(FileContent)
        BY <1>1, <3>1
      <3>4. sink = FileContent
        BY <1>1, <3>2, <3>3, SeqEqual, Zenon
      <3>5. Outcome' = "complete"
        BY <2>1, <2>4 DEF Outcome
      <3>6. Copy!Complete
        BY <1>0, <2>1, <2>3, <3>4, <3>5 DEF Copy!Complete
      <3> QED BY <3>6 DEF Copy!Next
    <2>5. CASE ~Covered
      <3>1. Outcome' = "failed"
        BY <2>1, <2>5 DEF Outcome
      <3>2. Copy!Prefix(sink, sink')
        BY <1>1, <2>1 DEF Copy!Prefix
      <3>3. Copy!Stop
        BY <1>0, <1>2, <2>3, <3>1, <3>2 DEF Copy!Stop, Copy!Extends, Copy!Prefix
      <3> QED BY <3>3 DEF Copy!Next
    <2> QED BY <2>4, <2>5
  <1> QED BY <1>3, <1>4, <1>5 DEF Next

\* However the reads, the writes and the cancellations fall, the sink is only ever
\* extended, by the next bytes of the file; and a call that reports the copy as done has
\* given the sink every byte of it.
THEOREM CopyImplementsBoundedCopy == Spec => ImplementsBoundedCopy
<1>1. Init => Copied /\ Copy!Init /\ Ended
  BY InitCopied DEF Init, Ended
<1>2. Inv /\ Inv' /\ Copied /\ [Next]_vars => Copied'
  BY CopiedStep
<1>3. Ended /\ [Next]_vars => Ended'
  BY EndedStep
<1>4. Inv /\ Inv' /\ Ended /\ Copied /\ Copied' /\ [Next]_vars => [Copy!Next]_(Copy!vars)
  BY StepRefines
<1> QED
  BY Invariance, <1>1, <1>2, <1>3, <1>4, PTL DEF Spec, Copy!Spec, ImplementsBoundedCopy
=============================================================================
