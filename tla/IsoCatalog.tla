----------------------------- MODULE IsoCatalog -----------------------------
(***************************************************************************)
(* catalog_iso of boot_media/iso_parser.rs: the scan of the ISO 9660 and   *)
(* Joliet volume descriptors and the breadth-first walk of the directory   *)
(* tree, one action per step of the two loops.                             *)
(*                                                                         *)
(* The caller's callbacks are the environment: every read may fail (an Err *)
(* or a buffer of the wrong length), and every cancellation poll may say   *)
(* yes.  What an image holds is a parameter; bytes are counted in cells.   *)
(***************************************************************************)
EXTENDS Integers, Sequences, FiniteSets

CONSTANTS
    Inputs,                  \* the [config, image] pairs a caller may present
    Name,                    \* decoded file names
    DescriptorBytes,         \* 2048 in the code
    FirstDescriptorSector,   \* 16 in the code
    MinRecordBytes           \* 34 in the code

(***************************************************************************)
(* The parsed view of an image.                                            *)
(*                                                                         *)
(* A descriptor is one sector.  "valid" says the identifier and version    *)
(* are right; "sane" that the doubled fields agree and the block size is a *)
(* supported power of two.  A directory is what a read of its extent       *)
(* returns: a sequence of cells.  The cell at the cursor is a record       *)
(* header; form "zero" is a record-length byte of 0, "short" one below 34, *)
(* and the other forms name the check that rejects the record.             *)
(***************************************************************************)
Extent == [offset : Nat, length : Nat]

Descriptor ==
    [kind : {"primary", "joliet", "terminator", "other"},
     valid : BOOLEAN, sane : BOOLEAN,
     block_bytes : Nat \ {0}, volume_bytes : Nat,
     root : Extent, root_is_directory : BOOLEAN]

Malformed == {"name_length", "name", "extent", "length", "interleaved", "sequence"}

Cell ==
    [form : {"zero", "short", "self", "ok"} \cup Malformed,
     size : Nat \ {0}, name : Name, block : Nat, length : Nat, directory : BOOLEAN]

Image ==
    [descriptors : Seq(Descriptor),
     directories : UNION {[extents -> Seq(Cell)] : extents \in SUBSET Extent}]

Config ==
    [total_bytes : Nat, max_descriptors : Nat, max_directories : Nat,
     max_entries : Nat, max_depth : Nat, max_directory_bytes : Nat]

ASSUME ConstantsAssumption ==
    /\ DescriptorBytes \in Nat \ {0}
    /\ FirstDescriptorSector \in Nat
    /\ MinRecordBytes \in Nat \ {0}
    /\ Name # {}

ASSUME InputsAssumption ==
    \A call \in Inputs :
        /\ DOMAIN call = {"config", "image"}
        /\ call.config \in Config
        /\ call.image.descriptors \in Seq(Descriptor)
        /\ DOMAIN call.image.directories \subseteq Extent
        /\ \A e \in DOMAIN call.image.directories :
               /\ call.image.directories[e] \in Seq(Cell)
               /\ Len(call.image.directories[e]) = e.length

VARIABLES
    input,      \* the call's arguments, fixed
    phase,      \* where catalog_iso stands
    index,      \* descriptors scanned
    primary,    \* which descriptor is the primary one, 0 for None
    joliet,     \* which descriptor is the Joliet one, 0 for None
    catalog,    \* the IsoCatalog being built
    pending,    \* the queue of directory locations
    visited,    \* the extents already traversed
    directory,  \* the location whose records are being scanned
    cursor,     \* the byte position in that directory
    result,     \* "none" while running, then "ok" or "error"
    reads       \* every read the call has made, oldest first

vars == <<input, phase, index, primary, joliet, catalog, pending, visited,
          directory, cursor, result, reads>>

config == input.config
image == input.image

Path == Seq(Name)
Location == [path : Path, extent : Extent, depth : Nat]
Entry == [path : Path, extent : Extent, directory : BOOLEAN, depth : Nat]
Issue ==
    [what : {"truncated", "oversize", "outside"} \cup Malformed, path : Path]
        \cup [what : {"traversed"}, offset : Nat]

Catalog ==
    [volume : Nat, entries : Seq(Entry), directories_read : Nat, bytes_read : Nat,
     cancelled : BOOLEAN, limit_reached : BOOLEAN, issues : Seq(Issue)]

\* Slip: the bytes already read are forgotten.
EmptyCatalogUncounted(bytes) ==
    [volume |-> 0, entries |-> <<>>, directories_read |-> 0, bytes_read |-> 0,
     cancelled |-> FALSE, limit_reached |-> FALSE, issues |-> <<>>]

EmptyCatalog(bytes) ==
    [volume |-> 0, entries |-> <<>>, directories_read |-> 0, bytes_read |-> bytes,
     cancelled |-> FALSE, limit_reached |-> FALSE, issues |-> <<>>]

ValidConfig ==
    /\ config.total_bytes >= (FirstDescriptorSector + 2) * DescriptorBytes
    /\ config.max_descriptors # 0
    /\ config.max_directories # 0
    /\ config.max_entries # 0
    /\ config.max_depth # 0
    /\ config.max_directory_bytes >= MinRecordBytes

Inside(extent, bound) == extent.offset + extent.length <= bound

\* parse_descriptor: a volume that fits the source, with its root inside it.
Parses(d) ==
    /\ d.sane
    /\ d.volume_bytes # 0
    /\ d.volume_bytes <= config.total_bytes
    /\ d.root_is_directory
    /\ Inside(d.root, d.volume_bytes)

\* Slip: the primary volume is walked whenever there is one.
PrimaryFirst == IF primary # 0 THEN primary ELSE joliet

\* The Joliet volume is preferred whenever there is one.
Selected == IF joliet # 0 THEN joliet ELSE primary

\* The descriptor of the volume being walked.
Volume == image.descriptors[catalog.volume]

\* What reading a directory extent returns.  An extent the image does not
\* describe is empty of records: a record length below 34 ends its scan.
Contents(directories, extent) ==
    IF extent \in DOMAIN directories THEN directories[extent]
    ELSE [i \in 1..extent.length |->
             [form |-> "short", size |-> 1, name |-> CHOOSE n \in Name : TRUE,
              block |-> 0, length |-> 0, directory |-> FALSE]]

Cells(extent) == Contents(image.directories, extent)

\* Slip: padding is recognised and not skipped.
SamePosition(position, block_bytes) == position

\* next_block, then .min(bytes.len()): the cursor rounded UP to a multiple of
\* the block size, so a cursor that is one already stays where it is.
NextBlock(position, block_bytes) ==
    ((position + (block_bytes - 1)) \div block_bytes) * block_bytes

Least(a, b) == IF a <= b THEN a ELSE b

-----------------------------------------------------------------------------
Init ==
    /\ input \in Inputs
    /\ phase = "config"
    /\ index = 0
    /\ primary = 0
    /\ joliet = 0
    /\ catalog = EmptyCatalog(0)
    /\ pending = <<>>
    /\ visited = {}
    /\ directory = [path |-> <<>>, extent |-> [offset |-> 0, length |-> 0], depth |-> 0]
    /\ cursor = 0
    /\ result = "none"
    /\ reads = <<>>

\* An Err: the catalog built so far is dropped.
Fail ==
    /\ phase' = "returned"
    /\ result' = "error"

\* Ok(c): the caller gets the catalog c.
Return(c) ==
    /\ phase' = "returned"
    /\ result' = "ok"
    /\ catalog' = c

Ask(what, offset, length) ==
    reads' = Append(reads, [what |-> what, offset |-> offset, length |-> length])

RejectConfig ==
    /\ phase = "config"
    /\ ~ValidConfig
    /\ Fail
    /\ UNCHANGED <<input, index, primary, joliet, catalog, pending, visited,
                   directory, cursor, reads>>

AcceptConfig ==
    /\ phase = "config"
    /\ ValidConfig
    /\ phase' = "descriptors"
    /\ UNCHANGED <<input, index, primary, joliet, catalog, pending, visited,
                   directory, cursor, result, reads>>

-----------------------------------------------------------------------------
(* The descriptor loop.                                                    *)

DescriptorOffset == (FirstDescriptorSector + index) * DescriptorBytes

MoreDescriptors == phase = "descriptors" /\ index < config.max_descriptors

CancelScan ==
    /\ MoreDescriptors
    /\ Return([EmptyCatalog(catalog.bytes_read) EXCEPT !.cancelled = TRUE])
    /\ UNCHANGED <<input, index, primary, joliet, pending, visited, directory,
                   cursor, reads>>

DescriptorOutsideSource ==
    /\ MoreDescriptors
    /\ DescriptorOffset + DescriptorBytes > config.total_bytes
    /\ Fail
    /\ UNCHANGED <<input, index, primary, joliet, catalog, pending, visited,
                   directory, cursor, reads>>

DescriptorReadFails ==
    /\ MoreDescriptors
    /\ DescriptorOffset + DescriptorBytes <= config.total_bytes
    /\ Ask("descriptor", DescriptorOffset, DescriptorBytes)
    /\ Fail
    /\ UNCHANGED <<input, index, primary, joliet, catalog, pending, visited,
                   directory, cursor>>

\* The sector read is a volume descriptor, and parses if it is used.
Accepted ==
    /\ index < Len(image.descriptors)
    /\ LET d == image.descriptors[index + 1]
       IN  d.valid /\ (d.kind \in {"primary", "joliet"} => Parses(d))

\* A descriptor is read and classified: a bad identifier, and a volume
\* descriptor that does not parse, are errors; the last primary and the last
\* Joliet descriptor win; a terminator ends the loop; others are passed over.
ReadDescriptor ==
    /\ MoreDescriptors
    /\ DescriptorOffset + DescriptorBytes <= config.total_bytes
    /\ Ask("descriptor", DescriptorOffset, DescriptorBytes)
    /\ catalog' = [catalog EXCEPT !.bytes_read = @ + DescriptorBytes]
    /\ IF ~Accepted
       THEN Fail /\ UNCHANGED <<index, primary, joliet>>
       ELSE LET kind == image.descriptors[index + 1].kind
            IN  /\ phase' = IF kind = "terminator" THEN "select" ELSE phase
                /\ index' = index + 1
                /\ primary' = IF kind = "primary" THEN index + 1 ELSE primary
                /\ joliet' = IF kind = "joliet" THEN index + 1 ELSE joliet
                /\ UNCHANGED result
    /\ UNCHANGED <<input, pending, visited, directory, cursor>>

NoTerminator ==
    /\ phase = "descriptors"
    /\ index >= config.max_descriptors
    /\ Fail
    /\ UNCHANGED <<input, index, primary, joliet, catalog, pending, visited,
                   directory, cursor, reads>>

\* A Joliet tree is not walked when the primary descriptor is missing.
RejectVolume ==
    /\ phase = "select"
    /\ primary = 0 \/ image.descriptors[Selected].root.length > config.max_directory_bytes
    /\ Fail
    /\ UNCHANGED <<input, index, primary, joliet, catalog, pending, visited,
                   directory, cursor, reads>>

SelectVolume ==
    /\ phase = "select"
    /\ primary # 0
    /\ image.descriptors[Selected].root.length <= config.max_directory_bytes
    /\ phase' = "walk"
    /\ catalog' = [catalog EXCEPT !.volume = Selected]
    /\ pending' = <<[path |-> <<>>, extent |-> image.descriptors[Selected].root,
                     depth |-> 0]>>
    /\ UNCHANGED <<input, index, primary, joliet, visited, directory,
                   cursor, result, reads>>

-----------------------------------------------------------------------------
(* The directory loop: pop the oldest location, poll, check, read.         *)

\* Slip: one directory too many.
PastLimit ==
    \/ catalog.directories_read > config.max_directories
    \/ Len(catalog.entries) >= config.max_entries

AtLimit ==
    \/ catalog.directories_read >= config.max_directories
    \/ Len(catalog.entries) >= config.max_entries

ReturnCatalog ==
    /\ phase = "walk"
    /\ pending = <<>>
    /\ Return(catalog)
    /\ UNCHANGED <<input, index, primary, joliet, pending, visited, directory,
                   cursor, reads>>

\* Slip: an extent is known by its offset alone.
FreshOffset == \A e \in visited : e.offset # Head(pending).extent.offset

\* Slip: nothing is remembered.
AlwaysFresh == TRUE

\* visited.insert: the extent, offset and length, was not traversed before.
Fresh == Head(pending).extent \notin visited

Popped == phase = "walk" /\ pending # <<>> /\ pending' = Tail(pending)

CancelWalk ==
    /\ Popped
    /\ Return([catalog EXCEPT !.cancelled = TRUE])
    /\ UNCHANGED <<input, index, primary, joliet, visited, directory, cursor, reads>>

StopAtLimit ==
    /\ Popped
    /\ AtLimit
    /\ Return([catalog EXCEPT !.limit_reached = TRUE])
    /\ UNCHANGED <<input, index, primary, joliet, visited, directory, cursor, reads>>

SkipVisited ==
    /\ Popped
    /\ ~AtLimit
    /\ ~Fresh
    /\ catalog' = [catalog EXCEPT !.issues =
                      Append(@, [what |-> "traversed", offset |-> Head(pending).extent.offset])]
    /\ UNCHANGED <<input, phase, index, primary, joliet, visited, directory,
                   cursor, result, reads>>

DirectoryReadFails ==
    /\ Popped
    /\ ~AtLimit
    /\ Fresh
    /\ visited' = visited \cup {Head(pending).extent}
    /\ Ask("directory", Head(pending).extent.offset, Head(pending).extent.length)
    /\ Fail
    /\ UNCHANGED <<input, index, primary, joliet, catalog, directory, cursor>>

ReadDirectory ==
    /\ Popped
    /\ ~AtLimit
    /\ Fresh
    /\ visited' = visited \cup {Head(pending).extent}
    /\ Ask("directory", Head(pending).extent.offset, Head(pending).extent.length)
    /\ catalog' = [catalog EXCEPT !.bytes_read = @ + Head(pending).extent.length,
                                  !.directories_read = @ + 1]
    /\ directory' = Head(pending)
    /\ cursor' = 0
    /\ phase' = "records"
    /\ UNCHANGED <<input, index, primary, joliet, result>>

-----------------------------------------------------------------------------
(* The record loop of one directory.                                       *)

AtRecord == phase = "records" /\ cursor < directory.extent.length

Here == Cells(directory.extent)[cursor + 1]

\* The path, extent and depth the record at the cursor would be listed with.
Listed ==
    [path |-> Append(directory.path, Here.name),
     extent |-> [offset |-> Here.block * Volume.block_bytes, length |-> Here.length],
     directory |-> Here.directory,
     depth |-> directory.depth + 1]

Truncated ==
    Here.form = "short" \/ cursor + Here.size > directory.extent.length

\* A zero record length pads to the next block.
SkipPadding ==
    /\ AtRecord
    /\ Here.form = "zero"
    /\ cursor' = Least(NextBlock(cursor, Volume.block_bytes), directory.extent.length)
    /\ UNCHANGED <<input, phase, index, primary, joliet, catalog, pending, visited,
                   directory, result, reads>>

\* A record that is too short or runs past the directory ends its scan.
StopAtTruncated ==
    /\ AtRecord
    /\ Here.form # "zero"
    /\ Truncated
    /\ catalog' = [catalog EXCEPT !.issues =
                      Append(@, [what |-> "truncated", path |-> directory.path])]
    /\ phase' = "progress"
    /\ UNCHANGED <<input, index, primary, joliet, pending, visited, directory,
                   cursor, result, reads>>

WholeRecord == AtRecord /\ Here.form # "zero" /\ ~Truncated

\* The records of a directory for itself and its parent are not listed.
SkipSelfOrParent ==
    /\ WholeRecord
    /\ Here.form = "self"
    /\ cursor' = cursor + Here.size
    /\ UNCHANGED <<input, phase, index, primary, joliet, catalog, pending, visited,
                   directory, result, reads>>

\* Slip: a record's extent is not checked.
FormOnly == Here.form

\* What becomes of a whole record: the first check it fails, or "ok".  The
\* extent is checked before the recording mode and the volume sequence.
Verdict ==
    IF /\ Here.form \in {"ok", "interleaved", "sequence"}
       /\ ~ /\ Inside(Listed.extent, Volume.volume_bytes)
            /\ Inside(Listed.extent, config.total_bytes)
    THEN "outside"
    ELSE Here.form

\* Slip: the record is passed over without a word.
SilentlyRejected(c) == c

Rejected(c) ==
    [c EXCEPT !.issues = Append(@, [what |-> Verdict, path |-> directory.path])]

RejectRecord ==
    /\ WholeRecord
    /\ Verdict \in Malformed \cup {"outside"}
    /\ catalog' = Rejected(catalog)
    /\ cursor' = cursor + Here.size
    /\ UNCHANGED <<input, phase, index, primary, joliet, pending, visited,
                   directory, result, reads>>

\* Listing an entry ends the scan when it fills the entry budget.
List(c) ==
    LET full == Len(c.entries) + 1 >= config.max_entries
    IN  /\ catalog' = [c EXCEPT !.entries = Append(@, Listed),
                                !.limit_reached = @ \/ full]
        /\ phase' = IF full THEN "progress" ELSE phase
        /\ cursor' = cursor + Here.size

Listable == WholeRecord /\ Verdict = "ok"

ListFile ==
    /\ Listable
    /\ ~Here.directory
    /\ List(catalog)
    /\ UNCHANGED <<input, index, primary, joliet, pending, visited, directory,
                   result, reads>>

\* A directory below the depth limit is listed but not queued.
ListTooDeep ==
    /\ Listable
    /\ Here.directory
    /\ Listed.depth > config.max_depth
    /\ List([catalog EXCEPT !.limit_reached = TRUE])
    /\ UNCHANGED <<input, index, primary, joliet, pending, visited, directory,
                   result, reads>>

\* Slip: the directory is passed over without a word.
SilentlyOversize(c) == c

Oversize(c) ==
    [c EXCEPT !.issues = Append(@, [what |-> "oversize", path |-> Listed.path])]

ListOversize ==
    /\ Listable
    /\ Here.directory
    /\ Listed.depth <= config.max_depth
    /\ Here.length > config.max_directory_bytes
    /\ List(Oversize(catalog))
    /\ UNCHANGED <<input, index, primary, joliet, pending, visited, directory,
                   result, reads>>

\* Slip: the newest subdirectory goes first.
QueuedFirst(location) == <<location>> \o pending

QueuedLast(location) == Append(pending, location)

ListDirectory ==
    /\ Listable
    /\ Here.directory
    /\ Listed.depth <= config.max_depth
    /\ Here.length <= config.max_directory_bytes
    /\ pending' = QueuedLast([path |-> Listed.path, extent |-> Listed.extent,
                              depth |-> Listed.depth])
    /\ List(catalog)
    /\ UNCHANGED <<input, index, primary, joliet, visited, directory, result, reads>>

EndOfDirectory ==
    /\ phase = "records"
    /\ cursor >= directory.extent.length
    /\ phase' = "progress"
    /\ UNCHANGED <<input, index, primary, joliet, catalog, pending, visited,
                   directory, cursor, result, reads>>

\* The progress callback, then the check that leaves the directory loop.
ReportProgress ==
    /\ phase = "progress"
    /\ IF catalog.limit_reached
       THEN Return(catalog)
       ELSE phase' = "walk" /\ UNCHANGED <<catalog, result>>
    /\ UNCHANGED <<input, index, primary, joliet, pending, visited, directory,
                   cursor, reads>>

Scan ==
    \/ CancelScan \/ DescriptorOutsideSource \/ DescriptorReadFails
    \/ ReadDescriptor \/ NoTerminator \/ RejectVolume \/ SelectVolume

Walk ==
    \/ ReturnCatalog \/ CancelWalk \/ StopAtLimit \/ SkipVisited
    \/ DirectoryReadFails \/ ReadDirectory

Records ==
    \/ SkipPadding \/ StopAtTruncated \/ SkipSelfOrParent \/ RejectRecord
    \/ ListFile \/ ListTooDeep \/ ListOversize \/ ListDirectory
    \/ EndOfDirectory \/ ReportProgress

\* catalog_iso has returned: nothing more happens.
Returned == phase = "returned" /\ UNCHANGED vars

Next == RejectConfig \/ AcceptConfig \/ Scan \/ Walk \/ Records \/ Returned

Spec == Init /\ [][Next]_vars

\* The call runs on one thread: while it has a step to take, it takes it.
FairSpec == Spec /\ WF_vars(Next)

-----------------------------------------------------------------------------
(* Properties.                                                             *)

TypeOK ==
    /\ input \in Inputs
    /\ phase \in {"config", "descriptors", "select", "walk", "records",
                  "progress", "returned"}
    /\ index \in 0..Len(image.descriptors)
    /\ primary \in 0..index
    /\ joliet \in 0..index
    /\ catalog \in Catalog
    /\ catalog.volume \in 0..index
    /\ phase \in {"walk", "records", "progress"} => catalog.volume # 0
    /\ pending \in Seq(Location)
    /\ visited \subseteq Extent
    /\ directory \in Location
    /\ cursor \in Nat
    /\ result \in {"none", "ok", "error"}
    /\ reads \in Seq([what : {"descriptor", "directory"}, offset : Nat, length : Nat])

\* However the image links its directories, the caller is never asked for a
\* byte outside the source it declared.
ReadsInsideSource ==
    \A i \in 1..Len(reads) : reads[i].offset + reads[i].length <= config.total_bytes

\* A directory extent is read at most once, even where directories form a
\* cycle or two records share an extent.
ReadAtMostOnce ==
    \A i, j \in 1..Len(reads) :
        /\ reads[i].what = "directory"
        /\ reads[i] = reads[j]
        => i = j

\* The total of the first n reads of a sequence, for every n.
Totals(rs) ==
    LET total[n \in 0..Len(rs)] == IF n = 0 THEN 0 ELSE total[n - 1] + rs[n].length
    IN  total

\* The total read so far.
ReadTotal == Totals(reads)[Len(reads)]

\* The byte count a returned catalog reports is what the caller was asked for.
BytesReadAccounted == result = "ok" => catalog.bytes_read = ReadTotal

\* No budget of the configuration is overrun, by the listing or by a read.
BudgetsHold ==
    /\ Len(catalog.entries) <= config.max_entries
    /\ catalog.directories_read <= config.max_directories
    /\ index <= config.max_descriptors
    /\ \A i \in 1..Len(catalog.entries) : catalog.entries[i].depth <= config.max_depth + 1
    /\ \A i \in 1..Len(reads) :
           reads[i].what = "directory" => reads[i].length <= config.max_directory_bytes

\* The descriptors of a kind that precede the end of the descriptor set.
Announced(kind) ==
    {i \in 1..Len(image.descriptors) :
        /\ image.descriptors[i].kind = kind
        /\ \A j \in 1..i - 1 : image.descriptors[j].kind # "terminator"}

\* The volume that is walked is the last Joliet volume the descriptors announce, and
\* the last primary one where they announce no other; an image without a primary
\* volume is not walked at all.
VolumePreferred ==
    catalog.volume # 0 =>
        LET preferred == IF Announced("joliet") # {} THEN Announced("joliet")
                         ELSE Announced("primary")
        IN  /\ Announced("primary") # {}
            /\ catalog.volume \in preferred
            /\ \A i \in preferred : i <= catalog.volume

(***************************************************************************)
(* The reference listing: what the format says the image lists, with no    *)
(* queue, no cursor and no budget.  The records of a directory start at    *)
(* the smallest set of positions that holds its beginning and, with each   *)
(* position, the one after it: where the record ends, or the next block    *)
(* boundary if the header there is zero or unusable.                       *)
(***************************************************************************)
After(cells, block_bytes, p) ==
    IF cells[p + 1].form \in {"zero", "short"}
    THEN (p \div block_bytes + 1) * block_bytes
    ELSE p + cells[p + 1].size

StartsIn(cells, block_bytes, positions) ==
    /\ Len(cells) # 0 => 0 \in positions
    /\ \A p \in positions :
          After(cells, block_bytes, p) < Len(cells) => After(cells, block_bytes, p) \in positions

RecordStarts(cells, block_bytes) ==
    {p \in 0..Len(cells) - 1 :
        \A positions \in SUBSET (0..Len(cells) - 1) :
            StartsIn(cells, block_bytes, positions) => p \in positions}

\* What the directory at e lists, in an image with these directories and a volume
\* of this descriptor.
Children(directories, volume, e) ==
    LET cells == Contents(directories, e.extent)
        extent(p) == [offset |-> cells[p + 1].block * volume.block_bytes,
                      length |-> cells[p + 1].length]
    IN  {[path |-> Append(e.path, cells[p + 1].name), extent |-> extent(p),
          directory |-> cells[p + 1].directory, depth |-> Len(e.path) + 1] :
            p \in {p \in RecordStarts(cells, volume.block_bytes) :
                      /\ cells[p + 1].form = "ok"
                      /\ p + cells[p + 1].size <= Len(cells)
                      /\ Inside(extent(p), volume.volume_bytes)}}

Top(root) == [path |-> <<>>, extent |-> root, directory |-> TRUE, depth |-> 0]

Levels(directories, volume, bottom) ==
    LET level[d \in 0..bottom] ==
            IF d = 0 THEN {Top(volume.root)}
            ELSE UNION {Children(directories, volume, e) : e \in {e \in level[d - 1] : e.directory}}
    IN  level

\* The tree down to one level below the depth limit.
Tree == Levels(image.directories, Volume, config.max_depth + 1)

ReferenceListing == UNION {Tree[d] : d \in 1..config.max_depth + 1}

Walked == result = "ok" /\ catalog.volume # 0

\* The volume is the one to prefer, and every entry a returned catalog lists is in
\* that volume's tree under the path it is listed with, parents come before children
\* and the walk is breadth first.
ListingIsSound ==
    /\ VolumePreferred
    /\ Walked =>
        LET entries == catalog.entries
        IN  \A i \in 1..Len(entries) :
                /\ entries[i] \in ReferenceListing
                /\ \A j \in 1..i : entries[j].depth <= entries[i].depth
                /\ \/ entries[i].depth = 1
                   \/ \E j \in 1..i - 1 :
                        /\ entries[j].directory
                        /\ Append(entries[j].path, entries[i].path[Len(entries[i].path)])
                               = entries[i].path

\* An issue that accounts for entries missing below the directory at path p.
Accounts(issue, p) ==
    \/ issue.what \in {"truncated", "oversize"} /\ issue.path = p
    \/ /\ issue.what = "traversed"
       /\ \E i \in 1..Len(catalog.entries) :
             /\ catalog.entries[i].path = p
             /\ catalog.entries[i].extent.offset = issue.offset

\* A catalog returned without "cancelled" or "limit_reached" leaves nothing of
\* the tree out silently: what is missing lies under a directory that an issue
\* names.  And "limit_reached" is raised only for a limit.
OmissionsReported ==
    Walked /\ ~catalog.cancelled =>
        IF catalog.limit_reached
        THEN \/ AtLimit
             \/ \E i \in 1..Len(catalog.entries) :
                   catalog.entries[i].directory /\ catalog.entries[i].depth > config.max_depth
        ELSE \A e \in ReferenceListing :
                \/ \E i \in 1..Len(catalog.entries) : catalog.entries[i] = e
                \/ \E i \in 1..Len(catalog.issues), n \in 0..Len(e.path) - 1 :
                      Accounts(catalog.issues[i], SubSeq(e.path, 1, n))

\* What a whole record is refused for, by the format: an extent that leaves the volume
\* comes before the recording mode and the volume sequence, and after the name.
Objection(cell) ==
    IF /\ cell.form \in {"ok", "interleaved", "sequence"}
       /\ ~Inside([offset |-> cell.block * Volume.block_bytes, length |-> cell.length],
                  Volume.volume_bytes)
    THEN "outside" ELSE cell.form

Refused(e, what) ==
    LET cells == Cells(e.extent)
    IN  {p \in RecordStarts(cells, Volume.block_bytes) :
            /\ Objection(cells[p + 1]) = what
            /\ p + cells[p + 1].size <= Len(cells)}

\* A complete catalog names every record of the tree's directories that it left out for
\* what the record says: there is an issue with its reason for each of them, unless the
\* directory, or one above it, was itself left out or not read to its end.
RejectionsReported ==
    Walked /\ ~catalog.cancelled /\ ~catalog.limit_reached =>
        \A d \in 0..config.max_depth : \A e \in Tree[d] : e.directory =>
            \/ \A what \in Malformed \cup {"outside"} :
                  Cardinality(Refused(e, what)) <=
                  Cardinality({i \in 1..Len(catalog.issues) :
                                  catalog.issues[i] = [what |-> what, path |-> e.path]})
            \/ \E i \in 1..Len(catalog.issues), n \in 0..Len(e.path) :
                  Accounts(catalog.issues[i], SubSeq(e.path, 1, n))

\* The walk seen through Traversal.
Stage ==
    IF phase = "returned"
    THEN IF result = "error" THEN "failed"
         ELSE IF catalog.cancelled \/ catalog.limit_reached THEN "partial"
         ELSE "complete"
    ELSE IF catalog.volume = 0 THEN "selecting" ELSE "walking"

Queued ==
    IF catalog.volume = 0 THEN {}
    ELSE {Volume.root}
            \cup {catalog.entries[i].extent : i \in
                    {i \in 1..Len(catalog.entries) :
                        /\ catalog.entries[i].directory
                        /\ catalog.entries[i].depth <= config.max_depth
                        /\ catalog.entries[i].extent.length <= config.max_directory_bytes}}

Abstract ==
    INSTANCE Traversal WITH
        stage <- Stage,
        frontier <- [i \in 1..Len(pending) |-> pending[i].extent],
        explored <- visited,
        discovered <- Queued

\* The catalog walk keeps the promises of Traversal.
ImplementsTraversal == Abstract!Spec

\* The call returns, whatever the image links to.
Terminates == <>(phase = "returned")
=============================================================================
