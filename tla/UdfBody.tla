------------------------------ MODULE UdfBody ------------------------------
(***************************************************************************)
(* Where the bytes of a UDF directory or file come from: read_file_entry,  *)
(* translate_extent, validate_metadata_backing, read_body and              *)
(* body_logical_block of boot_media/udf_parser.rs.                         *)
(*                                                                         *)
(* A file entry lists allocation descriptors, each a run of bytes of a     *)
(* partition.  A physical partition is a range of sectors of the source; a *)
(* metadata partition is a file of the physical one, so an address in it   *)
(* goes through that file's own extents.  The parser turns the descriptors *)
(* into source extents, then reads the directory's bytes through them, and *)
(* later asks which block of the partition a byte of the directory came    *)
(* from, to compare it with the location in that record's tag.             *)
(*                                                                         *)
(* Byte p of the source is p + 1 and a byte that is not recorded is 0.     *)
(***************************************************************************)
EXTENDS Integers, Sequences

CONSTANTS
    Inputs,          \* the file entries to read, with the volume they are in
    SectorBytes      \* SECTOR_BYTES, 2048 in the code

ASSUME SectorAssumption == SectorBytes \in Nat \ {0}

\* An allocation descriptor: the partition map it uses, the byte of that
\* partition it starts at (its location times SECTOR_BYTES), its length in bytes,
\* and the type in the top bits of the length (0 recorded, 1 allocated only, 2 not
\* allocated, 3 a continuation).  A short descriptor uses the entry's own
\* partition; data embedded in the entry is one recorded run inside its block.
Descriptor == [reference : Nat, offset : Nat, length : Nat, type : 0..3]

FileEntry == [descriptors : Seq(Descriptor), information_length : Nat]

\* The metadata partition map: its two files and their allocation rules, and whether
\* both file entries are "bare": without links, unique ID and extended attributes, and
\* with short allocation descriptors.
MetadataMap ==
    [main : FileEntry, mirror : FileEntry, bare : BOOLEAN, allocation_blocks : Nat \ {0},
     alignment_blocks : Nat \ {0}, duplicate : BOOLEAN]

ASSUME InputsAssumption ==
    \A i \in Inputs :
        /\ i.start_sector \in Nat /\ i.sectors \in Nat /\ i.total_bytes \in Nat
        /\ i.maps \in Seq(MetadataMap) /\ Len(i.maps) <= 1
        /\ i.entry \in FileEntry
        \* catalog_udf checks the partition against the source beforehand.
        /\ (i.start_sector + i.sectors) * SectorBytes <= i.total_bytes

VARIABLES
    input,      \* the volume and the file entry, fixed
    phase,      \* "maps", "entry", "body", "returned"
    spaces,     \* the address spaces of the volume
    extents,    \* the source extents of the entry's descriptors so far
    next,       \* which descriptor, then which extent, comes next
    bytes,      \* the bytes of the body read so far
    result,     \* "none", "ok", or why the entry is refused
    asked       \* the latest read asked of the caller

vars == <<input, phase, spaces, extents, next, bytes, result, asked>>

Least(a, b) == IF a <= b THEN a ELSE b

\* How many bytes the first n runs or pieces of a list hold.
Held(pieces) ==
    LET held[n \in 0..Len(pieces)] == IF n = 0 THEN 0 ELSE held[n - 1] + pieces[n].length
    IN  held

Total(pieces) == Held(pieces)[Len(pieces)]

Piece(offset, length, recorded) ==
    [offset |-> offset, length |-> length, recorded |-> recorded]

Physical == [kind |-> "physical", start_sector |-> input.start_sector,
             sectors |-> input.sectors]

(***************************************************************************)
(* translate_extent.  The answer is a status ("done", or why the extent is *)
(* refused) and the source pieces of the run of bytes.                     *)
(***************************************************************************)
Answer(status, pieces) == [status |-> status, pieces |-> pieces]

\* Slip: the partition's end taken for its length.
CapacityToEnd(space) ==
    (IF space.kind = "physical" THEN input.start_sector + space.sectors
     ELSE space.blocks) * SectorBytes

Capacity(space) ==
    (IF space.kind = "physical" THEN space.sectors ELSE space.blocks) * SectorBytes

\* One piece of the metadata file: skipped while the run starts further on,
\* otherwise the run's share of it is taken and the run goes on at byte "resume"
\* of the next piece.
EnterPiece(walk, piece, resume) ==
    LET take == Least(walk.length, piece.length - walk.offset)
        from == piece.offset + walk.offset
    IN  IF walk.status # "walking" THEN walk
        ELSE IF walk.offset >= piece.length THEN [walk EXCEPT !.offset = @ - piece.length]
        ELSE IF ~piece.recorded THEN [walk EXCEPT !.status = "unallocated"]
        ELSE IF from + take > input.total_bytes
        THEN [walk EXCEPT !.status = "outside source"]
        ELSE [offset |-> resume, length |-> walk.length - take,
              pieces |-> Append(walk.pieces, Piece(from, take, TRUE)),
              status |-> IF walk.length = take THEN "done" ELSE "walking"]

\* Slip: every later piece is entered where the first one was.
BackingStepKeepsOffset(walk, piece) == EnterPiece(walk, piece, walk.offset)

BackingStep(walk, piece) == EnterPiece(walk, piece, 0)

\* The walk behind the first n pieces of the metadata file.
BackingWalk(backing, offset, length) ==
    LET walk[n \in 0..Len(backing)] ==
            IF n = 0
            THEN [offset |-> offset, length |-> length, pieces |-> <<>>,
                  status |-> "walking"]
            ELSE BackingStep(walk[n - 1], backing[n])
    IN  walk

ThroughBacking(backing, offset, length) ==
    LET walk == BackingWalk(backing, offset, length)[Len(backing)]
    IN  IF walk.status = "walking" THEN Answer("uncovered", <<>>)
        ELSE Answer(walk.status, walk.pieces)

Translate(space, offset, length, recorded) ==
    IF offset + length > Capacity(space) THEN Answer("outside partition", <<>>)
    ELSE IF ~recorded THEN Answer("done", <<Piece(0, length, FALSE)>>)
    ELSE IF space.kind = "metadata" THEN ThroughBacking(space.backing, offset, length)
    ELSE LET from == space.start_sector * SectorBytes + offset
         IN  IF from + length > input.total_bytes THEN Answer("outside source", <<>>)
             ELSE Answer("done", <<Piece(from, length, TRUE)>>)

\* One allocation descriptor of a file entry, in the volume's address spaces.
TranslateDescriptor(known, d) ==
    IF d.type = 3 THEN Answer("continuation", <<>>)
    ELSE IF d.reference >= Len(known) THEN Answer("unknown partition", <<>>)
    ELSE Translate(known[d.reference + 1], d.offset, d.length, d.type = 0)

\* read_file_entry: every descriptor in order, then the coverage check.
Joined(answer, more) ==
    IF answer.status # "done" THEN answer
    ELSE Answer(more.status, answer.pieces \o more.pieces)

Translated(known, descriptors) ==
    LET all[n \in 0..Len(descriptors)] ==
            IF n = 0 THEN Answer("done", <<>>)
            ELSE Joined(all[n - 1], TranslateDescriptor(known, descriptors[n]))
    IN  all

EntryExtents(known, entry) ==
    LET all == Translated(known, entry.descriptors)[Len(entry.descriptors)]
    IN  IF all.status = "done" /\ Total(all.pieces) < entry.information_length
        THEN Answer("short", <<>>)
        ELSE all

(***************************************************************************)
(* validate_metadata_backing.                                              *)
(***************************************************************************)
FileExact(entry, pieces) == Total(pieces) = entry.information_length

BackingAligned(map, entry, pieces) ==
    /\ \A i \in 1..Len(pieces) :
          /\ pieces[i].recorded => pieces[i].offset % SectorBytes = 0
          /\ pieces[i].length % (map.allocation_blocks * SectorBytes) = 0
    /\ \A i \in 1..Len(entry.descriptors) :
          entry.descriptors[i].type = 0 =>
              entry.descriptors[i].offset % (map.alignment_blocks * SectorBytes) = 0

BackingValid(map, main, mirror) ==
    /\ map.main.information_length # 0
    /\ map.main.information_length % SectorBytes = 0
    /\ map.main.information_length = map.mirror.information_length
    /\ \A i \in 1..Len(map.main.descriptors) : map.main.descriptors[i].type # 1
    /\ \A i \in 1..Len(map.mirror.descriptors) : map.mirror.descriptors[i].type # 1
    /\ map.bare
    /\ FileExact(map.main, main)
    /\ FileExact(map.mirror, mirror)
    /\ BackingAligned(map, map.main, main)
    /\ BackingAligned(map, map.mirror, mirror)
    /\ map.duplicate <=> main # mirror

\* Slip: the length rounded up where it is whole already.
MetadataBlocksPast(map) == map.main.information_length \div SectorBytes + 1

MetadataBlocks(map) == map.main.information_length \div SectorBytes

-----------------------------------------------------------------------------
Init ==
    /\ input \in Inputs
    /\ phase = "maps"
    /\ spaces = <<>>
    /\ extents = <<>>
    /\ next = 1
    /\ bytes = <<>>
    /\ result = "none"
    /\ asked = [offset |-> 0, length |-> 0]

Refuse(why) == phase' = "returned" /\ result' = why

\* build_address_spaces: the physical partition, and the metadata partition
\* where the volume has one and its two files agree.
PhysicalOnly ==
    /\ phase = "maps"
    /\ input.maps = <<>>
    /\ spaces' = <<Physical>>
    /\ phase' = "entry"
    /\ UNCHANGED <<input, extents, next, bytes, result, asked>>

WithMetadata ==
    /\ phase = "maps"
    /\ input.maps # <<>>
    /\ LET map == input.maps[1]
           main == EntryExtents(<<Physical>>, map.main)
           mirror == EntryExtents(<<Physical>>, map.mirror)
       IN  IF /\ main.status = "done" /\ mirror.status = "done"
              /\ BackingValid(map, main.pieces, mirror.pieces)
           THEN /\ spaces' = <<Physical,
                               [kind |-> "metadata",
                                blocks |-> MetadataBlocks(map),
                                backing |-> main.pieces]>>
                /\ phase' = "entry"
                /\ UNCHANGED result
           ELSE Refuse("metadata map") /\ UNCHANGED spaces
    /\ UNCHANGED <<input, extents, next, bytes, asked>>

\* read_file_entry_as: one descriptor after the other.
TranslateNext ==
    /\ phase = "entry"
    /\ next <= Len(input.entry.descriptors)
    /\ LET answer == TranslateDescriptor(spaces, input.entry.descriptors[next])
       IN  IF answer.status = "done"
           THEN /\ extents' = extents \o answer.pieces
                /\ next' = next + 1
                /\ UNCHANGED <<phase, result>>
           ELSE Refuse(answer.status) /\ UNCHANGED <<extents, next>>
    /\ UNCHANGED <<input, spaces, bytes, asked>>

CheckCoverage ==
    /\ phase = "entry"
    /\ next > Len(input.entry.descriptors)
    /\ IF Total(extents) < input.entry.information_length
       THEN Refuse("short") /\ UNCHANGED next
       ELSE /\ phase' = "body"
            /\ next' = 1
            /\ UNCHANGED result
    /\ UNCHANGED <<input, spaces, extents, bytes, asked>>

\* read_body: the bytes of each extent in turn, until nothing is wanted.
Wanted ==
    IF next > Len(extents) THEN 0
    ELSE Least(input.entry.information_length - Len(bytes), extents[next].length)

ReadExtent ==
    /\ phase = "body"
    /\ Wanted > 0
    /\ extents[next].recorded
    /\ IF extents[next].offset + Wanted > input.total_bytes
       THEN Refuse("outside source") /\ UNCHANGED <<next, bytes, asked>>
       ELSE /\ asked' = [offset |-> extents[next].offset, length |-> Wanted]
            /\ \/ /\ bytes' = bytes \o [i \in 1..Wanted |-> extents[next].offset + i]
                  /\ next' = next + 1
                  /\ UNCHANGED <<phase, result>>
               \/ /\ Refuse("read failed")
                  /\ UNCHANGED <<next, bytes>>
    /\ UNCHANGED <<input, spaces, extents>>

ZeroExtent ==
    /\ phase = "body"
    /\ Wanted > 0
    /\ ~extents[next].recorded
    /\ bytes' = bytes \o [i \in 1..Wanted |-> 0]
    /\ next' = next + 1
    /\ UNCHANGED <<input, phase, spaces, extents, result, asked>>

BodyComplete == Len(bytes) = input.entry.information_length

FinishBody ==
    /\ phase = "body"
    /\ Wanted = 0
    /\ phase' = "returned"
    /\ result' = IF BodyComplete THEN "ok" ELSE "incomplete"
    /\ UNCHANGED <<input, spaces, extents, next, bytes, asked>>

Returned == phase = "returned" /\ UNCHANGED vars

Next ==
    \/ PhysicalOnly \/ WithMetadata \/ TranslateNext \/ CheckCoverage
    \/ ReadExtent \/ ZeroExtent \/ FinishBody \/ Returned

Spec == Init /\ [][Next]_vars

(***************************************************************************)
(* body_logical_block: the block of the partition that byte "offset" of    *)
(* the body lies in, -1 for an error.                                      *)
(***************************************************************************)
\* Slip: the run's first block, whatever the byte.
LogicalStepFirst(walk, d) ==
    IF walk.block >= 0 THEN walk
    ELSE IF walk.remaining < d.length
    THEN [walk EXCEPT !.block = d.offset \div SectorBytes]
    ELSE [walk EXCEPT !.remaining = @ - d.length]

LogicalStep(walk, d) ==
    IF walk.block >= 0 THEN walk
    ELSE IF walk.remaining < d.length
    THEN [walk EXCEPT !.block = (d.offset + walk.remaining) \div SectorBytes]
    ELSE [walk EXCEPT !.remaining = @ - d.length]

LogicalWalk(offset) ==
    LET walk[n \in 0..Len(input.entry.descriptors)] ==
            IF n = 0 THEN [remaining |-> offset, block |-> -1]
            ELSE LogicalStep(walk[n - 1], input.entry.descriptors[n])
    IN  walk

BodyLogicalBlock(offset) == LogicalWalk(offset)[Len(input.entry.descriptors)].block

-----------------------------------------------------------------------------
(***************************************************************************)
(* What a file entry means, byte by byte and without any splitting: the    *)
(* reference the parser is compared with.                                  *)
(***************************************************************************)
Before(entry, j) == Held(entry.descriptors)[j - 1]

\* Byte k of the entry lies in this descriptor.
Home(entry, k) ==
    CHOOSE j \in 1..Len(entry.descriptors) :
        /\ Before(entry, j) <= k
        /\ k < Before(entry, j) + entry.descriptors[j].length

LogicalByte(entry, k) ==
    entry.descriptors[Home(entry, k)].offset + k - Before(entry, Home(entry, k))

PhysicalByte(byte) == input.start_sector * SectorBytes + byte + 1

ByteOf(entry, k) ==
    LET d == entry.descriptors[Home(entry, k)]
        byte == LogicalByte(entry, k)
    IN  IF d.type # 0 THEN 0
        ELSE IF d.reference = 0 THEN PhysicalByte(byte)
        ELSE PhysicalByte(LogicalByte(input.maps[1].main, byte))

\* The body that read_body returns is the file's: each byte is the byte its
\* allocation descriptor names, through the metadata file's own extents where the
\* partition is one, and zero where the descriptor is not recorded.
BodyIsExact ==
    result = "ok" =>
        bytes = [k \in 1..input.entry.information_length |-> ByteOf(input.entry, k - 1)]

\* The block that body_logical_block gives for a byte of the directory, compared
\* with the tag of the record there, is the block of the partition the byte is in.
TagBlockRight ==
    \A k \in 0..(input.entry.information_length - 1) :
        phase = "body" =>
            BodyLogicalBlock(k) = LogicalByte(input.entry, k) \div SectorBytes

\* No read leaves the partition the volume declared, let alone the source, through
\* however many partition maps the address goes.
ReadsInsidePartition ==
    asked.length > 0 =>
        /\ asked.offset >= input.start_sector * SectorBytes
        /\ asked.offset + asked.length <=
               (input.start_sector + input.sectors) * SectorBytes

\* translate_extent's own checks make three of its refusals unreachable once
\* catalog_udf and validate_metadata_backing have had their say: no run leaves the
\* source, no run of at least a byte runs out of the metadata file, and a body
\* comes up short only behind a descriptor without bytes.
RefusalJustified ==
    /\ result # "outside source"
    /\ result = "uncovered" => input.entry.descriptors[next].length = 0
    /\ result = "incomplete" =>
           \E j \in 1..Len(input.entry.descriptors) : input.entry.descriptors[j].length = 0
=============================================================================
