------------------------------- MODULE UdfFile -------------------------------
(***************************************************************************)
(* A catalogued UDF file from its allocation descriptors to the caller's   *)
(* writer: UdfBody turns the descriptors into source extents, catalog_udf  *)
(* keeps them in a UdfEntry, and read_udf_file (FileStream) streams them   *)
(* later, against the length the source has by then.                       *)
(***************************************************************************)
EXTENDS UdfBody

CONSTANTS
    ChunkBytes,      \* FILE_READ_BYTES, 1 MiB in the code
    LaterBytes       \* by how much the source may have shrunk since

ASSUME LaterAssumption == ChunkBytes \in Nat \ {0} /\ LaterBytes \subseteq Nat

VARIABLES
    call, stage, current, extent_completed, completed, block, sink,
    outcome,    \* the streaming call's result
    wanted      \* the read it asked for last

stream == <<call, stage, current, extent_completed, completed, block, sink, outcome,
            wanted>>

allVars == <<vars, stream>>

\* The calls a caller can make for a listed UDF file.
FileCalls ==
    [entry : [format : {"udf"}, directory : {FALSE}, multi_extent : {FALSE}, length : Nat,
              extents : Seq([offset : Nat, length : Nat, recorded : BOOLEAN])],
     source_bytes : Nat, max_output_bytes : Nat]

\* The one of them that is made by Open has the entry translated here.
File ==
    INSTANCE FileStream WITH
        Calls <- FileCalls, phase <- stage, result <- outcome, asked <- wanted

\* The UdfEntry of the catalog; a piece keeps its place, its length and whether it
\* is recorded.
\* Slip: the pieces of no recorded bytes are dropped as holes of the file.
RecordedOnly == SelectSeq(extents, LAMBDA piece : piece.recorded)

Catalogued == extents

UdfEntry ==
    [format |-> "udf", directory |-> FALSE, multi_extent |-> FALSE,
     length |-> input.entry.information_length, extents |-> Catalogued]

-----------------------------------------------------------------------------
FileInit ==
    /\ Init
    /\ call = [entry |-> [format |-> "none", extents |-> <<>>], source_bytes |-> 0,
               max_output_bytes |-> 0]
    /\ stage = "uncatalogued"
    /\ current = 1
    /\ extent_completed = 0
    /\ completed = 0
    /\ block = <<>>
    /\ sink = <<>>
    /\ outcome = "none"
    /\ wanted = [offset |-> 0, length |-> 0]

Body == Next /\ UNCHANGED stream

\* The entry is a file: its body is not read, its extents are kept, and the caller
\* opens it later.
Open ==
    /\ phase = "body"
    /\ next = 1 /\ bytes = <<>>
    /\ stage = "uncatalogued"
    /\ \E fewer \in LaterBytes :
          /\ fewer <= input.total_bytes
          /\ call' = [entry |-> UdfEntry,
                      source_bytes |-> input.total_bytes - fewer,
                      max_output_bytes |-> input.entry.information_length]
    /\ stage' = "open"
    /\ Refuse("a file")
    /\ UNCHANGED <<input, spaces, extents, next, bytes, asked>>
    /\ UNCHANGED <<current, extent_completed, completed, block, sink, outcome, wanted>>

Stream == stage # "uncatalogued" /\ File!Next /\ UNCHANGED vars

FileNext == Body \/ Open \/ Stream

FileSpec == FileInit /\ [][FileNext]_allVars

-----------------------------------------------------------------------------
\* What the caller's writer is given is a prefix of the bytes the file's allocation
\* descriptors name, however they were split into pieces, wherever the stream was
\* cancelled or failed and however much shorter the source has become, and all of
\* them when the stream reports success; no read leaves what is left of the source.
StreamIsTheFile ==
    stage # "uncatalogued" =>
        /\ Len(sink) <= input.entry.information_length
        /\ \A k \in 1..Len(sink) : sink[k] = ByteOf(input.entry, k - 1)
        /\ outcome = "ok" => Len(sink) = input.entry.information_length
        /\ wanted.offset + wanted.length <= call.source_bytes
=============================================================================
