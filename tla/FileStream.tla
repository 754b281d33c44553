----------------------------- MODULE FileStream -----------------------------
(***************************************************************************)
(* read_iso_file of boot_media/iso_parser.rs and read_udf_file of          *)
(* boot_media/udf_parser.rs: a catalogued file is streamed, chunk by       *)
(* chunk, to a sink the caller owns.  The two loops are one: an ISO file   *)
(* is a single recorded extent whose range is checked up front, a UDF file *)
(* a list of extents, each chunk checked as it is read, with unrecorded    *)
(* extents written as zeros.                                               *)
(*                                                                         *)
(* A read or a write of the caller may fail at any chunk; a writer that    *)
(* fails may have taken part of the chunk.  Data is told apart by where it *)
(* comes from: byte p of the source is p + 1, and 0 is a zero byte.        *)
(***************************************************************************)
EXTENDS Integers, Sequences

CONSTANTS
    Calls,           \* the arguments a caller may pass
    ChunkBytes       \* FILE_READ_BYTES, 1 MiB in the code

Piece == [offset : Nat, length : Nat, recorded : BOOLEAN]

FileEntry ==
    [format : {"iso", "udf"}, directory : BOOLEAN, multi_extent : BOOLEAN,
     length : Nat, extents : Seq(Piece)]

Call == [entry : FileEntry, source_bytes : Nat, max_output_bytes : Nat]

ASSUME ChunkAssumption == ChunkBytes \in Nat \ {0}

\* An IsoEntry has one extent, recorded and as long as the file.
ASSUME CallsAssumption ==
    \A c \in Calls :
        /\ c \in Call
        /\ c.entry.format = "iso" =>
               /\ Len(c.entry.extents) = 1
               /\ c.entry.extents[1].length = c.entry.length
               /\ c.entry.extents[1].recorded

VARIABLES
    call,              \* the arguments, fixed
    phase,             \* "open", "stream", "write", "returned"
    current,           \* which extent is being read
    extent_completed,  \* the bytes of it delivered
    completed,         \* the bytes of the file delivered
    block,             \* the chunk read and not yet written
    sink,              \* the bytes the writer has taken
    result,            \* "none", "ok", "cancelled", "error"
    asked              \* the latest read asked of the caller

vars == <<call, phase, current, extent_completed, completed, block, sink, result, asked>>

entry == call.entry

Least(a, b) == IF a <= b THEN a ELSE b

TypeOK ==
    /\ call \in Calls
    /\ phase \in {"open", "stream", "write", "returned"}
    /\ current \in 1..Len(entry.extents) + 1
    /\ extent_completed \in Nat
    /\ completed \in 0..entry.length
    /\ block \in Seq(Nat) /\ Len(block) <= ChunkBytes
    /\ sink \in Seq(Nat)
    /\ result \in {"none", "ok", "cancelled", "error"}
    /\ asked \in [offset : Nat, length : Nat]

Init ==
    /\ call \in Calls
    /\ phase = "open"
    /\ current = 1
    /\ extent_completed = 0
    /\ completed = 0
    /\ block = <<>>
    /\ sink = <<>>
    /\ result = "none"
    /\ asked = [offset |-> 0, length |-> 0]

\* The call returns; a report carries completed as its bytes_read.
Return(r) == phase' = "returned" /\ result' = r

\* What is refused before anything is read.  (An extent whose end overflows
\* u64 lies past any source.)
Refused ==
    \/ entry.directory
    \/ entry.length > call.max_output_bytes
    \/ /\ entry.format = "iso"
       /\ \/ entry.multi_extent
          \/ entry.extents[1].offset + entry.length > call.source_bytes

Refuse ==
    /\ phase = "open"
    /\ Refused
    /\ Return("error")
    /\ UNCHANGED <<call, current, extent_completed, completed, block, sink, asked>>

Open ==
    /\ phase = "open"
    /\ ~Refused
    /\ phase' = "stream"
    /\ UNCHANGED <<call, current, extent_completed, completed, block, sink, result, asked>>

Extent == entry.extents[current]

\* The part of the current extent that belongs to the file.
Logical == Least(entry.length - (completed - extent_completed), Extent.length)

Streaming == phase = "stream" /\ current <= Len(entry.extents)

ExtentDone == extent_completed >= Logical

NextExtent ==
    /\ Streaming
    /\ ExtentDone
    /\ current' = current + 1
    /\ extent_completed' = 0
    /\ UNCHANGED <<call, phase, completed, block, sink, result, asked>>

\* Each chunk starts with a cancellation poll.
Polling == Streaming /\ ~ExtentDone

Cancel ==
    /\ Polling
    /\ Return("cancelled")
    /\ UNCHANGED <<call, current, extent_completed, completed, block, sink, asked>>

Wanted == Least(Logical - extent_completed, ChunkBytes)
Offset == Extent.offset + extent_completed

\* Slip: only the start of the chunk is checked.
StartInSource == Offset <= call.source_bytes

\* checked_range, for every recorded chunk of a UDF file.
InSource == entry.format = "udf" => Offset + Wanted <= call.source_bytes

ChunkOutsideSource ==
    /\ Polling
    /\ Extent.recorded
    /\ ~InSource
    /\ Return("error")
    /\ UNCHANGED <<call, current, extent_completed, completed, block, sink, asked>>

\* The chunk is read; a callback error or a buffer of another length fails
\* the call.
ReadChunk ==
    /\ Polling
    /\ Extent.recorded
    /\ InSource
    /\ asked' = [offset |-> Offset, length |-> Wanted]
    /\ \/ /\ block' = [i \in 1..Wanted |-> Offset + i]
          /\ phase' = "write"
          /\ UNCHANGED result
       \/ /\ Return("error")
          /\ UNCHANGED block
    /\ UNCHANGED <<call, current, extent_completed, completed, sink>>

ZeroChunk ==
    /\ Polling
    /\ ~Extent.recorded
    /\ block' = [i \in 1..Wanted |-> 0]
    /\ phase' = "write"
    /\ UNCHANGED <<call, current, extent_completed, completed, sink, result, asked>>

\* Slip: the chunk is counted within the extent only.
AdvanceExtent ==
    /\ extent_completed' = extent_completed + Len(block)
    /\ completed' = completed

Advance ==
    /\ extent_completed' = extent_completed + Len(block)
    /\ completed' = completed + Len(block)

WriteChunk ==
    /\ phase = "write"
    /\ sink' = sink \o block
    /\ Advance
    /\ block' = <<>>
    /\ phase' = "stream"
    /\ UNCHANGED <<call, current, result, asked>>

WriteFails ==
    /\ phase = "write"
    /\ \E taken \in 0..Len(block) : sink' = sink \o SubSeq(block, 1, taken)
    /\ Return("error")
    /\ UNCHANGED <<call, current, extent_completed, completed, block, asked>>

\* Slip: running out of extents is taken for the end of the file.
AlwaysCovered == TRUE

\* The extents held the whole file.
Covered == completed = entry.length

Finish ==
    /\ phase = "stream"
    /\ current > Len(entry.extents)
    /\ Return(IF Covered THEN "ok" ELSE "error")
    /\ UNCHANGED <<call, current, extent_completed, completed, block, sink, asked>>

Returned == phase = "returned" /\ UNCHANGED vars

Next ==
    \/ Refuse \/ Open \/ NextExtent \/ Cancel \/ ChunkOutsideSource \/ ReadChunk
    \/ ZeroChunk \/ WriteChunk \/ WriteFails \/ Finish \/ Returned

Spec == Init /\ [][Next]_vars

-----------------------------------------------------------------------------
(* Properties.                                                             *)

\* The bytes of the file in order: its extents one after the other, cut at its
\* length; a byte no extent holds has no value the sink could hold.
Missing == -1

\* How many bytes the first n pieces hold.
Held(pieces) ==
    LET held[n \in 0..Len(pieces)] == IF n = 0 THEN 0 ELSE held[n - 1] + pieces[n].length
    IN  held

\* The pieces that hold byte i when they follow one another.
Holders(pieces, i) ==
    {k \in 1..Len(pieces) : Held(pieces)[k - 1] < i /\ i <= Held(pieces)[k]}

ByteAt(pieces, i) ==
    IF Holders(pieces, i) = {} THEN Missing
    ELSE LET k == CHOOSE k \in Holders(pieces, i) : TRUE
         IN  IF pieces[k].recorded THEN pieces[k].offset + (i - Held(pieces)[k - 1]) ELSE 0

FileContent == [i \in 1..entry.length |-> ByteAt(entry.extents, i)]

Outcome ==
    CASE result = "none" -> "running"
      [] result = "ok" -> "complete"
      [] result = "cancelled" -> "cancelled"
      [] result = "error" -> "failed"

Copy == INSTANCE BoundedCopy WITH Byte <- Int, content <- FileContent, outcome <- Outcome

\* The sink holds a prefix of the file however the call ends, and an
\* uncancelled report stands for the whole file.
ImplementsBoundedCopy == Copy!Spec

\* The bytes a report claims are the bytes the sink was given, within the
\* caller's output limit.
ReportMatchesSink ==
    result \in {"ok", "cancelled"} =>
        /\ completed = Len(sink)
        /\ completed <= call.max_output_bytes

\* Only bytes of the source are asked for, whatever extents the entry lists.
ReadsInsideSource ==
    asked.offset + asked.length <= call.source_bytes

\* A call keeps to its source and tells its caller no more than it did: both hold on
\* every exit, wherever a read or a write failed and wherever it was cancelled.
CopyIsHonest == ReadsInsideSource /\ ReportMatchesSink
=============================================================================
