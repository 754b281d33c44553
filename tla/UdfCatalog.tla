----------------------------- MODULE UdfCatalog -----------------------------
(***************************************************************************)
(* catalog_udf of boot_media/udf_parser.rs: the volume recognition         *)
(* sequence, the two anchors, the volume descriptors, and the walk of the  *)
(* directory tree, one action per step of its loops.                       *)
(*                                                                         *)
(* Any read may fail and any cancellation poll may say yes.  How an ICB's  *)
(* bytes are found is UdfBody's subject: here an ICB is a partition map    *)
(* and a block of it, and its directory is a sequence of file identifiers. *)
(***************************************************************************)
EXTENDS Integers, Sequences, FiniteSets

CONSTANTS
    Inputs,               \* the [config, image] pairs a caller may present
    Name,                 \* decoded file names
    SectorBytes,          \* 2048 in the code
    AnchorSector,         \* 256 in the code
    MaxDescriptorBytes    \* MAX_VDS_BYTES, 16 MiB in the code

Icb == Nat \X Nat

\* A volume descriptor: "valid" is its tag (checksum, location and CRC).  A
\* partition (tag 5) lies inside the source or not; a logical volume (tag 6) names
\* a partition, has one or two usable partition maps (0 for an unusable table), and
\* a root ICB behind a file-set descriptor ("sane" when that can be found).
Descriptor ==
    [tag : Nat, valid : BOOLEAN, sequence : Nat, number : Nat, inside : BOOLEAN,
     sane : BOOLEAN, maps : 0..2, root : Icb]

\* A file identifier: what stops it from being listed, its name and its ICB.
Record ==
    [form : {"truncated", "tag", "skipped", "name", "ok"}, name : Name, icb : Icb]

\* A file entry; "tail" is what follows the last whole identifier.
FileEntry ==
    [directory : BOOLEAN, length : Nat, records : Seq(Record),
     tail : {"none", "zero", "nonzero"}]

ASSUME ConstantsAssumption ==
    SectorBytes \in Nat \ {0} /\ AnchorSector \in Nat \ {0} /\ MaxDescriptorBytes \in Nat

Config ==
    [total_bytes : Nat, max_directories : Nat, max_entries : Nat, max_depth : Nat,
     max_directory_bytes : Nat]

ASSUME InputsAssumption ==
    \A call \in Inputs :
        /\ call.config \in Config
        /\ call.image.recognition \in Seq({"BEA", "NSR", "TEA", "other"})
        /\ \A s \in DOMAIN call.image.anchors :
              call.image.anchors[s] \in {"primary", "agrees", "differs"}
        /\ call.image.descriptor_extent \in [offset : Nat, length : Nat]
        /\ call.image.descriptors \in Seq(Descriptor)
        /\ \A icb \in DOMAIN call.image.entries :
              icb \in Icb /\ call.image.entries[icb] \in FileEntry

VARIABLES
    input,      \* the call's arguments, fixed
    phase,      \* where catalog_udf stands
    index,      \* the position in the scan the phase is making
    seen,       \* recognition: which of "BEA" and "NSR" were met, in that order
    partition,  \* which descriptor is the partition's, 0 for None
    logical,    \* which is the logical volume's, 0 for None
    catalog,    \* the UdfCatalog being built
    pending,    \* the queue of directories
    visited,    \* the ICBs already traversed
    directory,  \* the directory whose records are being scanned
    cursor,     \* the next record of it
    result      \* "none", "ok" or "error"

scan == <<index, seen, partition, logical>>
walk == <<pending, visited, directory, cursor>>
vars == <<input, phase, scan, catalog, walk, result>>

config == input.config
image == input.image

Location == [path : Seq(Name), icb : Icb, depth : Nat]

Entry == [path : Seq(Name), icb : Icb, directory : BOOLEAN, depth : Nat]

Issue ==
    [what : {"oversize", "tail", "name", "map", "entry"}, path : Seq(Name)]
        \cup [what : {"traversed"}, icb : Icb]

Catalog ==
    [volume : Nat, entries : Seq(Entry), directories_read : Nat, cancelled : BOOLEAN,
     limit_reached : BOOLEAN, issues : Seq(Issue)]

EmptyCatalog ==
    [volume |-> 0, entries |-> <<>>, directories_read |-> 0, cancelled |-> FALSE,
     limit_reached |-> FALSE, issues |-> <<>>]

ValidConfig ==
    /\ config.total_bytes % SectorBytes = 0
    /\ config.total_bytes >= (AnchorSector + 1) * SectorBytes
    /\ config.max_directories # 0
    /\ config.max_entries # 0
    /\ config.max_depth # 0

-----------------------------------------------------------------------------
Init ==
    /\ input \in Inputs
    /\ phase = "config"
    /\ index = 1
    /\ seen = {}
    /\ partition = 0
    /\ logical = 0
    /\ catalog = EmptyCatalog
    /\ pending = <<>>
    /\ visited = {}
    /\ directory = [path |-> <<>>, icb |-> <<0, 0>>, depth |-> 0]
    /\ cursor = 1
    /\ result = "none"

Fail ==
    /\ phase' = "returned"
    /\ result' = "error"
    /\ UNCHANGED <<input, catalog>>

Return(c) ==
    /\ phase' = "returned"
    /\ result' = "ok"
    /\ catalog' = c
    /\ UNCHANGED input

Enter(next) ==
    /\ phase' = next
    /\ index' = 1

\* validate_config and the first cancellation poll, which is an error here.
Start ==
    /\ phase = "config"
    /\ \/ ValidConfig /\ Enter("recognition") /\ UNCHANGED <<input, catalog, result>>
       \/ Fail /\ UNCHANGED index
    /\ UNCHANGED <<seen, partition, logical, walk>>

\* Every scan reads its next block first; a read that fails ends the call.
ReadFails ==
    /\ phase \in {"recognition", "anchor", "descriptors", "volume"}
    /\ Fail
    /\ UNCHANGED <<scan, walk>>

\* The start of the sequence, and what counts only after it.
Recognises(kind, before) == kind = "BEA" \/ (kind = "NSR" /\ "BEA" \in before)

ReadRecognition ==
    /\ phase = "recognition"
    /\ index <= Len(image.recognition)
    /\ LET kind == image.recognition[index]
       IN  IF kind = "TEA" /\ "NSR" \in seen
           THEN Enter("anchor") /\ UNCHANGED seen
           ELSE /\ index' = index + 1
                /\ seen' = IF Recognises(kind, seen) THEN seen \cup {kind} ELSE seen
                /\ UNCHANGED phase
    /\ UNCHANGED <<input, partition, logical, catalog, walk, result>>

NoRecognition ==
    /\ phase = "recognition"
    /\ index > Len(image.recognition)
    /\ Fail
    /\ UNCHANGED <<scan, walk>>

ReadAnchor ==
    /\ phase = "anchor"
    /\ IF AnchorSector \in DOMAIN image.anchors /\ image.anchors[AnchorSector] = "primary"
       THEN Enter("backup") /\ UNCHANGED <<input, catalog, result>>
       ELSE Fail /\ UNCHANGED index
    /\ UNCHANGED <<seen, partition, logical, walk>>

\* validate_backup_anchor: the candidates in ascending order, without repetition.
LastSector == config.total_bytes \div SectorBytes - 1

\* Slip: the distance is counted from the number of sectors.
CandidatesFromCount ==
    IF LastSector > AnchorSector THEN <<LastSector + 1 - AnchorSector, LastSector>>
    ELSE <<LastSector>>

Candidates ==
    IF LastSector > AnchorSector THEN <<LastSector - AnchorSector, LastSector>>
    ELSE <<LastSector>>

\* The anchor there has a valid tag and the primary's extents.
Agrees(sector) ==
    /\ sector \in DOMAIN image.anchors
    /\ image.anchors[sector] \in {"primary", "agrees"}

\* The main volume descriptor extent that the anchor names.
DescriptorExtentUsable ==
    LET extent == image.descriptor_extent
    IN  /\ extent.length \in 1..MaxDescriptorBytes
        /\ extent.length % SectorBytes = 0
        /\ extent.offset + extent.length <= config.total_bytes

\* A candidate that cannot be read, or does not agree, is passed over.
TryBackup ==
    /\ phase = "backup"
    /\ index <= Len(Candidates)
    /\ \/ /\ Agrees(Candidates[index])
          /\ IF DescriptorExtentUsable
             THEN Enter("descriptors") /\ UNCHANGED <<input, catalog, result>>
             ELSE Fail /\ UNCHANGED index
       \/ /\ index' = index + 1
          /\ UNCHANGED <<input, phase, catalog, result>>
    /\ UNCHANGED <<seen, partition, logical, walk>>

NoBackup ==
    /\ phase = "backup"
    /\ index > Len(Candidates)
    /\ Fail
    /\ UNCHANGED <<scan, walk>>

-----------------------------------------------------------------------------
(* The volume descriptor sequence.                                         *)

DescriptorCount == image.descriptor_extent.length \div SectorBytes

\* What the sector holds: a sector the image does not describe is not valid.
Here ==
    IF index <= Len(image.descriptors) THEN image.descriptors[index]
    ELSE [tag |-> 0, valid |-> FALSE, sequence |-> 0]

\* Slip: a later descriptor of the same sequence number wins.
PrevailsLast(current) ==
    current = 0 \/ Here.sequence >= image.descriptors[current].sequence

Prevails(current) ==
    current = 0 \/ Here.sequence > image.descriptors[current].sequence

ReadDescriptor ==
    /\ phase = "descriptors"
    /\ index <= DescriptorCount
    /\ IF ~Here.valid
       THEN Fail /\ UNCHANGED <<index, partition, logical>>
       ELSE /\ phase' = IF Here.tag = 8 THEN "volume" ELSE phase
            /\ index' = index + 1
            /\ partition' = IF Here.tag = 5 /\ Prevails(partition) THEN index ELSE partition
            /\ logical' = IF Here.tag = 6 /\ Prevails(logical) THEN index ELSE logical
            /\ UNCHANGED <<input, catalog, result>>
    /\ UNCHANGED <<seen, walk>>

NoTerminator ==
    /\ phase = "descriptors"
    /\ index > DescriptorCount
    /\ Fail
    /\ UNCHANGED <<scan, walk>>

\* The partition maps and the root of the volume being walked.
Maps == image.descriptors[logical].maps

RootLocation == [path |-> <<>>, icb |-> image.descriptors[logical].root, depth |-> 0]

Usable ==
    /\ partition # 0 /\ logical # 0
    /\ image.descriptors[partition].inside
    /\ image.descriptors[logical].sane
    /\ Maps # 0
    /\ image.descriptors[logical].number = image.descriptors[partition].number
    /\ RootLocation.icb[1] < Maps

SelectVolume ==
    /\ phase = "volume"
    /\ IF Usable
       THEN /\ phase' = "walk"
            /\ pending' = <<RootLocation>>
            /\ catalog' = [catalog EXCEPT !.volume = logical]
            /\ UNCHANGED <<input, result>>
       ELSE Fail /\ UNCHANGED pending
    /\ UNCHANGED <<scan, visited, directory, cursor>>

-----------------------------------------------------------------------------
(* The directory loop: pop, poll, check for a repeat, check the limit, read. *)

Report(c, issue) == [c EXCEPT !.issues = Append(@, issue)]

\* The ICB reads as a file entry: it is in a known partition and its tag, type
\* and allocation descriptors are right.
Known(files, maps, icb) == icb \in DOMAIN files /\ icb[1] < maps

Readable(icb) == Known(image.entries, Maps, icb)

FinishWalk ==
    /\ phase = "walk"
    /\ pending = <<>>
    /\ Return(catalog)
    /\ UNCHANGED <<scan, walk>>

Popped ==
    /\ phase = "walk"
    /\ pending # <<>>
    /\ pending' = Tail(pending)
    /\ UNCHANGED scan

CancelWalk ==
    /\ Popped
    /\ Return([catalog EXCEPT !.cancelled = TRUE])
    /\ UNCHANGED <<visited, directory, cursor>>

\* Slip: only the block tells ICBs apart.
FreshBlock == \A icb \in visited : icb[2] # Head(pending).icb[2]

Fresh == Head(pending).icb \notin visited

SkipVisited ==
    /\ Popped
    /\ ~Fresh
    /\ catalog' = Report(catalog, [what |-> "traversed", icb |-> Head(pending).icb])
    /\ UNCHANGED <<input, phase, visited, directory, cursor, result>>

Visit == Popped /\ Fresh /\ visited' = visited \cup {Head(pending).icb}

DirectoryLimit == catalog.directories_read >= config.max_directories

StopAtLimit ==
    /\ Visit
    /\ DirectoryLimit
    /\ Return([catalog EXCEPT !.limit_reached = TRUE])
    /\ UNCHANGED <<directory, cursor>>

\* The ICB or the directory's own extents cannot be read, or are wrong.
DirectoryFails ==
    /\ Visit
    /\ ~DirectoryLimit
    /\ Fail
    /\ UNCHANGED <<directory, cursor>>

\* Slip: the directory is dropped without a word.
DropOversize(c) == c

RefuseOversize(c) == Report(c, [what |-> "oversize", path |-> Head(pending).path])

DirectoryEntry == image.entries[Head(pending).icb]

ReadableDirectory ==
    /\ Readable(Head(pending).icb)
    /\ DirectoryEntry.directory
    /\ DirectoryEntry.length <= config.max_directory_bytes

SkipDirectory ==
    /\ Visit
    /\ ~DirectoryLimit
    /\ Readable(Head(pending).icb)
    /\ ~ReadableDirectory
    /\ catalog' = RefuseOversize(catalog)
    /\ UNCHANGED <<input, phase, directory, cursor, result>>

ReadDirectory ==
    /\ Visit
    /\ ~DirectoryLimit
    /\ ReadableDirectory
    /\ catalog' = [catalog EXCEPT !.directories_read = @ + 1]
    /\ directory' = Head(pending)
    /\ cursor' = 1
    /\ phase' = "records"
    /\ UNCHANGED <<input, result>>

-----------------------------------------------------------------------------
(* The records of one directory.                                           *)

Records == image.entries[directory.icb].records

AtRecord ==
    /\ phase = "records"
    /\ cursor <= Len(Records)
    /\ UNCHANGED <<scan, visited, directory>>

Identifier == Records[cursor]

\* The path, ICB and depth the record would be listed with.
Listed ==
    [path |-> Append(directory.path, Identifier.name), icb |-> Identifier.icb,
     directory |-> image.entries[Identifier.icb].directory, depth |-> directory.depth + 1]

\* Slip: a record that is passed over is not stepped over.
AfterListed == IF Identifier.form = "skipped" THEN cursor ELSE cursor + 1

AfterRecord == cursor + 1

\* An identifier that runs past the directory, or whose tag is wrong, ends the
\* call, with everything listed so far.
BrokenRecord ==
    /\ AtRecord
    /\ Identifier.form \in {"truncated", "tag"}
    /\ Fail
    /\ UNCHANGED <<pending, cursor>>

\* The parent's record and deleted ones are not listed.
SkipRecord ==
    /\ AtRecord
    /\ Identifier.form = "skipped"
    /\ cursor' = AfterRecord
    /\ UNCHANGED <<input, phase, catalog, pending, result>>

\* Slip: the record is passed over without a word.
DropName(c) == c

RefuseName(c) == Report(c, [what |-> "name", path |-> directory.path])

RejectRecord ==
    /\ AtRecord
    /\ \/ /\ Identifier.form = "name"
          /\ catalog' = RefuseName(catalog)
       \/ /\ Identifier.form = "ok"
          /\ Identifier.icb[1] >= Maps
          /\ catalog' = Report(catalog, [what |-> "map", path |-> directory.path])
       \/ /\ Identifier.form = "ok"
          /\ Identifier.icb[1] < Maps      \* and its ICB is wrong or cannot be read
          /\ catalog' = Report(catalog, [what |-> "entry",
                                         path |-> Append(directory.path, Identifier.name)])
    /\ cursor' = AfterRecord
    /\ UNCHANGED <<input, phase, pending, result>>

\* Slip: the depth of the directory itself.
TooDeepInside == directory.depth > config.max_depth

TooDeep == Listed.depth > config.max_depth

\* Slip: the newest directory is read first.
QueueFirst(location) == <<location>> \o pending

QueueLast(location) == Append(pending, location)

\* An entry is listed.  Filling the entry budget ends the directory before a
\* subdirectory is queued; one that is too deep is not queued, and ends the walk
\* when its parent is done.
ListRecord ==
    /\ AtRecord
    /\ Identifier.form = "ok"
    /\ Readable(Identifier.icb)
    /\ LET full == Len(catalog.entries) + 1 >= config.max_entries
           deep == Listed.directory /\ TooDeep
       IN  /\ catalog' = [catalog EXCEPT !.entries = Append(@, Listed),
                                         !.limit_reached = @ \/ full \/ deep]
           /\ phase' = IF full THEN "progress" ELSE phase
           /\ pending' = IF Listed.directory /\ ~full /\ ~deep
                         THEN QueueLast([path |-> Listed.path, icb |-> Listed.icb,
                                         depth |-> Listed.depth])
                         ELSE pending
    /\ cursor' = AfterRecord
    /\ UNCHANGED <<input, result>>

EndOfDirectory ==
    /\ phase = "records"
    /\ cursor > Len(Records)
    /\ catalog' = IF image.entries[directory.icb].tail = "nonzero"
                  THEN Report(catalog, [what |-> "tail", path |-> directory.path])
                  ELSE catalog
    /\ phase' = "progress"
    /\ UNCHANGED <<input, scan, walk, result>>

\* The progress callback, then the check that leaves the loop.
ReportProgress ==
    /\ phase = "progress"
    /\ IF catalog.limit_reached
       THEN Return(catalog)
       ELSE phase' = "walk" /\ UNCHANGED <<input, catalog, result>>
    /\ UNCHANGED <<scan, walk>>

Returned == phase = "returned" /\ UNCHANGED vars

Next ==
    \/ Start \/ ReadFails \/ ReadRecognition \/ NoRecognition \/ ReadAnchor
    \/ TryBackup \/ NoBackup \/ ReadDescriptor \/ NoTerminator \/ SelectVolume
    \/ FinishWalk \/ CancelWalk \/ SkipVisited \/ StopAtLimit \/ DirectoryFails
    \/ SkipDirectory \/ ReadDirectory
    \/ BrokenRecord \/ SkipRecord \/ RejectRecord \/ ListRecord
    \/ EndOfDirectory \/ ReportProgress \/ Returned

Spec == Init /\ [][Next]_vars

\* One thread runs the call, and the callbacks return.
FairSpec == Spec /\ WF_vars(Next)

-----------------------------------------------------------------------------
(* Properties.                                                             *)

\* The sequence begins, names an NSR descriptor and ends, in that order.
RecognisedInOrder ==
    LET kind == image.recognition
    IN  \E i, j, k \in 1..Len(kind) :
            /\ i < j /\ j < k
            /\ kind[i] = "BEA" /\ kind[j] = "NSR" /\ kind[k] = "TEA"

\* Another anchor agrees, at the last sector or at the anchor's distance from it.
Confirmed ==
    \E sector \in {LastSector, LastSector - AnchorSector} :
        /\ Agrees(sector)
        /\ sector = AnchorSector => LastSector \in {AnchorSector, 2 * AnchorSector}

\* A volume is walked only where it is vouched for three times: by a recognition
\* sequence that begins, names an NSR descriptor and ends in that order, whatever
\* lies in between; by its anchor; and by another anchor that agrees.  The other one
\* is looked for at two sectors counted from the end of the source, so in a source
\* of exactly AnchorSector + 1 or 2 * AnchorSector + 1 sectors it may be the primary
\* anchor itself.
VolumeVouchedFor ==
    /\ phase \notin {"config", "recognition", "returned"} => RecognisedInOrder
    /\ phase \in {"descriptors", "volume", "walk"} => Confirmed

\* The volume walked is the one of the highest sequence numbers before the first
\* terminating descriptor, the earliest of equals, for the partition and for the
\* logical volume alike.
PrevailingDescriptors ==
    phase = "walk" =>
        LET d == image.descriptors
            end == CHOOSE e \in 1..DescriptorCount :
                      d[e].tag = 8 /\ \A i \in 1..e - 1 : d[i].tag # 8
            best(tag) == CHOOSE i \in 1..end :
                /\ d[i].tag = tag
                /\ \A j \in 1..end : d[j].tag = tag =>
                      \/ d[j].sequence < d[i].sequence
                      \/ (d[j].sequence = d[i].sequence /\ i <= j)
        IN  partition = best(5) /\ logical = best(6)

\* No budget of the configuration is overrun.
BudgetsHold ==
    /\ Len(catalog.entries) <= config.max_entries
    /\ catalog.directories_read <= config.max_directories
    /\ \A i \in 1..Len(pending) : pending[i].depth <= config.max_depth

(***************************************************************************)
(* The reference tree: what the directories say, with no queue and no      *)
(* budget, down to one level below the depth limit.                        *)
(***************************************************************************)
\* What the directory e says, in an image with these file entries and this many
\* partition maps.
Children(files, maps, e) ==
    IF ~Known(files, maps, e.icb) THEN {}
    ELSE LET records == files[e.icb].records
         IN  {[path |-> Append(e.path, records[i].name), icb |-> records[i].icb,
               directory |-> files[records[i].icb].directory,
               depth |-> Len(e.path) + 1] :
                 i \in {i \in 1..Len(records) :
                           records[i].form = "ok" /\ Known(files, maps, records[i].icb)}}

Top(icb) == [path |-> <<>>, icb |-> icb, directory |-> TRUE, depth |-> 0]

Levels(files, maps, root, bottom) ==
    LET level[d \in 0..bottom] ==
            IF d = 0 THEN {Top(root)}
            ELSE UNION {Children(files, maps, e) : e \in {e \in level[d - 1] : e.directory}}
    IN  level

Tree == Levels(image.entries, Maps, RootLocation.icb, config.max_depth + 1)

ReferenceListing == UNION {Tree[d] : d \in 1..config.max_depth + 1}

\* An entry that is listed is in the tree, under the path it is listed with, and
\* entries are listed level by level.
ListingIsSound ==
    result = "ok" =>
        LET entries == catalog.entries
        IN  \A i \in 1..Len(entries) :
                /\ entries[i] \in ReferenceListing
                /\ \A j \in 1..i : entries[j].depth <= entries[i].depth

\* An issue that accounts for what is missing at or below path p.
Accounts(issue, p) ==
    \/ issue.what \in {"oversize", "entry"} /\ issue.path = p
    \/ /\ issue.what = "traversed"
       /\ \E i \in 1..Len(catalog.entries) :
             catalog.entries[i].path = p /\ catalog.entries[i].icb = issue.icb

\* A catalog that is neither cancelled nor cut at a limit lacks nothing of the tree
\* without an issue that says where; one that is cut was cut for a reason.
OmissionsReported ==
    (result = "ok" /\ ~catalog.cancelled) =>
        IF catalog.limit_reached
        THEN \/ Len(catalog.entries) >= config.max_entries
             \/ DirectoryLimit
             \/ \E i \in 1..Len(catalog.entries) :
                   catalog.entries[i].directory /\ catalog.entries[i].depth > config.max_depth
        ELSE \A e \in ReferenceListing :
                \/ \E i \in 1..Len(catalog.entries) : catalog.entries[i] = e
                \/ \E i \in 1..Len(catalog.issues), n \in 0..Len(e.path) :
                      Accounts(catalog.issues[i], SubSeq(e.path, 1, n))

\* The records of the directory e that are left out for what they say, by the reason,
\* and data behind the last record.
Refused(e, what) ==
    LET file == image.entries[e.icb]
        refused == {i \in 1..Len(file.records) :
                       \/ what = "name" /\ file.records[i].form = "name"
                       \/ /\ what = "map" /\ file.records[i].form = "ok"
                          /\ file.records[i].icb[1] >= Maps}
    IN  refused \cup {i \in {0} : what = "tail" /\ file.tail = "nonzero"}

\* A complete catalog names everything it left out of the tree's directories for what a
\* record says: an issue with its reason for each of them, and one for every child whose
\* entry is not there, unless the directory, or one above it, was left out itself.
RejectionsReported ==
    result = "ok" /\ ~catalog.cancelled /\ ~catalog.limit_reached =>
        \A d \in 0..config.max_depth :
            \A e \in {e \in Tree[d] : e.directory /\ Known(image.entries, Maps, e.icb)} :
                \/ /\ \A what \in {"name", "map", "tail"} :
                         Cardinality(Refused(e, what)) <=
                         Cardinality({i \in 1..Len(catalog.issues) :
                                         catalog.issues[i] = [what |-> what, path |-> e.path]})
                   /\ \A i \in 1..Len(image.entries[e.icb].records) :
                         LET record == image.entries[e.icb].records[i]
                         IN  /\ record.form = "ok" /\ record.icb[1] < Maps
                             /\ ~Known(image.entries, Maps, record.icb)
                             => \E n \in 1..Len(catalog.issues) :
                                   catalog.issues[n] = [what |-> "entry",
                                                        path |-> Append(e.path, record.name)]
                \/ \E i \in 1..Len(catalog.issues), n \in 0..Len(e.path) :
                      Accounts(catalog.issues[i], SubSeq(e.path, 1, n))

\* The walk seen through Traversal.
Stage ==
    IF phase = "returned"
    THEN IF result = "error" THEN "failed"
         ELSE IF catalog.cancelled \/ catalog.limit_reached THEN "partial"
         ELSE "complete"
    ELSE IF phase \in {"walk", "records", "progress"} THEN "walking"
    ELSE "selecting"

\* The ICBs ever queued: the root, and the listed directories that are neither too
\* deep nor the entry that fills the budget.
Queued ==
    IF catalog.volume = 0 THEN {}
    ELSE {RootLocation.icb}
            \cup {catalog.entries[i].icb : i \in
                    {i \in 1..Len(catalog.entries) :
                        /\ catalog.entries[i].directory
                        /\ catalog.entries[i].depth <= config.max_depth
                        /\ i < config.max_entries}}

Abstract ==
    INSTANCE Traversal WITH
        Extent <- Icb,
        stage <- Stage,
        frontier <- [i \in 1..Len(pending) |-> pending[i].icb],
        explored <- visited,
        discovered <- Queued

\* The UDF walk keeps the promises of Traversal, as the ISO walk does.
ImplementsTraversal == Abstract!Spec

\* The call returns, whatever the image links to.
Terminates == <>(phase = "returned")
=============================================================================
