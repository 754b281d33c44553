-------------------------- MODULE IsoCatalogProofs --------------------------
(***************************************************************************)
(* Proofs about IsoCatalog, for every image and every configuration: its   *)
(* types, its reads and its budgets; and catalog_iso measured against what *)
(* is said of it without its loops:                                        *)
(*   - its walk implements Traversal: each of its steps is one of          *)
(*     Traversal's, or changes nothing Traversal speaks of;                *)
(*   - the bytes it reports are the total of its reads;                    *)
(*   - what it lists is in the reference tree, and what is missing of that *)
(*     tree is under a directory an issue names;                           *)
(*   - the volume it walks is the one the descriptors call for.            *)
(***************************************************************************)
EXTENDS IsoCatalog, SequenceTheorems, WellFoundedInduction, TLAPS

\* What the arguments of the call look like, in every state.
LEMMA InputType ==
    ASSUME TypeOK
    PROVE  /\ config \in Config
           /\ image.descriptors \in Seq(Descriptor)
           /\ \A e \in Extent :
                 /\ Cells(e) \in Seq(Cell)
                 /\ Len(Cells(e)) = e.length
  <1>1. /\ config \in Config
        /\ image.descriptors \in Seq(Descriptor)
    BY InputsAssumption DEF TypeOK, config, image
  <1>2. ASSUME NEW e \in Extent
        PROVE  Cells(e) \in Seq(Cell) /\ Len(Cells(e)) = e.length
    <2>1. CASE e \in DOMAIN image.directories
      BY <2>1, InputsAssumption DEF TypeOK, image, Cells, Contents
    <2>2. CASE e \notin DOMAIN image.directories
      <3> DEFINE short == [form |-> "short", size |-> 1, name |-> CHOOSE n \in Name : TRUE,
                           block |-> 0, length |-> 0, directory |-> FALSE]
                 cells == [i \in 1..e.length |-> short]
      <3>1. e.length \in Nat
        BY DEF Extent
      <3>2. short \in Cell
        BY ConstantsAssumption DEF Cell
      <3>3. cells \in Seq(Cell) /\ Len(cells) = e.length
        <4> HIDE DEF short
        <4> QED BY <3>1, <3>2
      <3>4. Cells(e) = cells
        BY <2>2 DEF Cells, Contents
      <3> QED BY <3>3, <3>4
    <2> QED BY <2>1, <2>2
  <1> QED BY <1>1, <1>2

\* The record at the cursor, and the entry it would be listed as.
LEMMA RecordType ==
    ASSUME TypeOK, AtRecord
    PROVE  /\ Here \in Cell
           /\ Volume \in Descriptor
           /\ Listed \in Entry
  <1>1. cursor + 1 \in 1..directory.extent.length /\ directory.extent \in Extent
    BY DEF TypeOK, AtRecord, Location, Extent
  <1>2. Here \in Cell
    BY <1>1, InputType DEF Here
  <1>3. Volume \in Descriptor
    <2>1. catalog.volume \in 1..Len(image.descriptors)
      BY DEF TypeOK, AtRecord
    <2> QED BY <2>1, InputType DEF Volume
  <1>4. Listed \in Entry
    <2>1. Listed.path \in Path
      BY <1>2 DEF TypeOK, Listed, Location, Path, Cell
    <2>2. Listed.extent \in Extent
      BY <1>2, <1>3 DEF Listed, Extent, Cell, Descriptor
    <2>3. Listed.depth \in Nat /\ Listed.directory \in BOOLEAN
      BY <1>2 DEF TypeOK, Listed, Location, Cell
    <2> QED BY <2>1, <2>2, <2>3 DEF Listed, Entry
  <1> QED BY <1>2, <1>3, <1>4

-----------------------------------------------------------------------------
(* How the parser updates a catalog, field by field.                       *)

LEMMA CatalogFields ==
    ASSUME NEW c \in Catalog
    PROVE  /\ c.volume \in Nat /\ c.entries \in Seq(Entry)
           /\ c.directories_read \in Nat /\ c.bytes_read \in Nat
           /\ c.cancelled \in BOOLEAN /\ c.limit_reached \in BOOLEAN
           /\ c.issues \in Seq(Issue)
  BY DEF Catalog

LEMMA CatalogEmpty ==
    ASSUME NEW bytes \in Nat
    PROVE  EmptyCatalog(bytes) \in Catalog /\ EmptyCatalog(bytes).volume = 0
  BY DEF Catalog, EmptyCatalog

LEMMA CatalogFlag ==
    ASSUME NEW c \in Catalog, NEW b \in BOOLEAN
    PROVE  /\ [c EXCEPT !.cancelled = b] \in Catalog
           /\ [c EXCEPT !.cancelled = b].volume = c.volume
           /\ [c EXCEPT !.limit_reached = b] \in Catalog
           /\ [c EXCEPT !.limit_reached = b].volume = c.volume
  BY DEF Catalog

LEMMA CatalogRead ==
    ASSUME NEW c \in Catalog, NEW m \in Nat, NEW n \in Nat
    PROVE  /\ [c EXCEPT !.bytes_read = m] \in Catalog
           /\ [c EXCEPT !.bytes_read = m].volume = c.volume
           /\ [c EXCEPT !.bytes_read = m, !.directories_read = n] \in Catalog
           /\ [c EXCEPT !.bytes_read = m, !.directories_read = n].volume = c.volume
  BY DEF Catalog

LEMMA CatalogIssue ==
    ASSUME NEW c \in Catalog, NEW issue \in Issue
    PROVE  /\ [c EXCEPT !.issues = Append(@, issue)] \in Catalog
           /\ [c EXCEPT !.issues = Append(@, issue)].volume = c.volume
  <1>1. Append(c.issues, issue) \in Seq(Issue)
    BY CatalogFields
  <1> QED BY <1>1 DEF Catalog

LEMMA CatalogEntry ==
    ASSUME NEW c \in Catalog, NEW entry \in Entry, NEW b \in BOOLEAN
    PROVE  /\ [c EXCEPT !.entries = Append(@, entry), !.limit_reached = b] \in Catalog
           /\ [c EXCEPT !.entries = Append(@, entry), !.limit_reached = b].volume = c.volume
  <1>1. Append(c.entries, entry) \in Seq(Entry)
    BY CatalogFields
  <1> QED BY <1>1 DEF Catalog

-----------------------------------------------------------------------------
(* Type correctness.                                                       *)

LEMMA InitType == Init => TypeOK
  <1> SUFFICES ASSUME Init PROVE TypeOK
    OBVIOUS
  <1>1. image.descriptors \in Seq(Descriptor)
    BY InputsAssumption DEF Init, image
  <1>2. catalog \in Catalog /\ catalog.volume = 0
    BY DEF Init, EmptyCatalog, Catalog
  <1>3. directory \in Location
    BY DEF Init, Location, Extent, Path
  <1> QED BY <1>1, <1>2, <1>3 DEF Init, TypeOK

\* The descriptor loop.
LEMMA ScanType == ASSUME TypeOK, RejectConfig \/ AcceptConfig \/ Scan PROVE TypeOK'
  <1> USE DEF Fail, Return, Ask, MoreDescriptors
  <1>c. catalog.bytes_read \in Nat /\ catalog \in Catalog
    BY DEF TypeOK, Catalog
  <1>1. CASE RejectConfig \/ AcceptConfig
    BY <1>1 DEF RejectConfig, AcceptConfig, TypeOK, image
  <1>2. CASE CancelScan
    <2>1. catalog' \in Catalog /\ catalog'.volume = 0
      BY <1>2, <1>c, CatalogEmpty, CatalogFlag DEF CancelScan
    <2> QED BY <1>2, <2>1 DEF CancelScan, TypeOK, image
  <1>3. CASE DescriptorOutsideSource \/ NoTerminator \/ RejectVolume
    BY <1>3 DEF DescriptorOutsideSource, NoTerminator, RejectVolume, TypeOK, image
  <1>o. phase = "descriptors" =>
           DescriptorOffset \in Nat /\ DescriptorBytes \in Nat
    BY ConstantsAssumption DEF TypeOK, DescriptorOffset
  <1>4. CASE DescriptorReadFails
    BY <1>4, <1>o DEF DescriptorReadFails, TypeOK, image
  <1>5. CASE ReadDescriptor
    <2>1. catalog' \in Catalog /\ catalog'.volume = catalog.volume
      <3>1. catalog.bytes_read + DescriptorBytes \in Nat
        BY <1>5, <1>c, <1>o DEF ReadDescriptor
      <3>2. catalog' = [catalog EXCEPT !.bytes_read = catalog.bytes_read + DescriptorBytes]
        BY <1>5 DEF ReadDescriptor
      <3> QED BY <1>c, <3>1, <3>2, CatalogRead
    <2>2. reads' \in Seq([what : {"descriptor", "directory"}, offset : Nat, length : Nat])
      BY <1>5, <1>o DEF ReadDescriptor, TypeOK
    <2>3. index' \in 0..Len(image'.descriptors) /\ primary' \in 0..index' /\ joliet' \in 0..index'
      BY <1>5 DEF ReadDescriptor, Accepted, TypeOK, image
    <2>4. catalog.volume \in 0..index'
      BY <1>5 DEF ReadDescriptor, TypeOK, image
    <2> QED BY <1>5, <2>1, <2>2, <2>3, <2>4 DEF ReadDescriptor, TypeOK
  <1>6. CASE SelectVolume
    <2>1. Selected \in 1..index
      BY <1>6 DEF SelectVolume, Selected, TypeOK
    <2>2. catalog' \in Catalog /\ catalog'.volume = Selected
      <3>1. Selected \in Nat
        BY <2>1 DEF TypeOK
      <3> QED BY <1>6, <1>c, <3>1 DEF SelectVolume, Catalog
    <2>3. pending' \in Seq(Location)
      <3>1. image.descriptors[Selected] \in Descriptor
        BY <2>1, InputType DEF TypeOK
      <3> QED BY <1>6, <3>1 DEF SelectVolume, Location, Path, Descriptor
    <2> QED BY <1>6, <2>1, <2>2, <2>3 DEF SelectVolume, TypeOK, image
  <1> QED BY <1>1, <1>2, <1>3, <1>4, <1>5, <1>6 DEF Scan

\* The directory loop.
LEMMA WalkType == ASSUME TypeOK, Walk PROVE TypeOK'
  <1> USE DEF Fail, Return, Ask, Popped
  <1>c. catalog \in Catalog
    BY DEF TypeOK
  <1>p. phase = "walk" /\ pending # <<>> =>
           /\ Head(pending) \in Location
           /\ Head(pending).extent \in Extent
           /\ Head(pending).extent.offset \in Nat
           /\ Head(pending).extent.length \in Nat
           /\ Tail(pending) \in Seq(Location)
    <2>1. pending \in Seq(Location)
      BY DEF TypeOK
    <2>2. pending # <<>> => Head(pending) \in Location /\ Tail(pending) \in Seq(Location)
      BY <2>1, HeadTailProperties
    <2> QED BY <2>2 DEF Location, Extent
  <1>1. CASE ReturnCatalog
    BY <1>1 DEF ReturnCatalog, TypeOK, image
  <1>2. CASE CancelWalk
    <2>1. catalog' \in Catalog /\ catalog'.volume = catalog.volume
      BY <1>2, <1>c, CatalogFlag DEF CancelWalk
    <2> QED BY <1>2, <1>p, <2>1 DEF CancelWalk, TypeOK, image
  <1>3. CASE StopAtLimit
    <2>1. catalog' \in Catalog /\ catalog'.volume = catalog.volume
      BY <1>3, <1>c, CatalogFlag DEF StopAtLimit
    <2> QED BY <1>3, <1>p, <2>1 DEF StopAtLimit, TypeOK, image
  <1>4. CASE SkipVisited
    <2>1. catalog' \in Catalog /\ catalog'.volume = catalog.volume
      <3>1. [what |-> "traversed", offset |-> Head(pending).extent.offset] \in Issue
        BY <1>4, <1>p DEF SkipVisited, Issue
      <3> QED BY <1>4, <1>c, <3>1, CatalogIssue DEF SkipVisited
    <2> QED BY <1>4, <1>p, <2>1 DEF SkipVisited, TypeOK, image
  <1>r. phase = "walk" /\ pending # <<>> =>
           Append(reads, [what |-> "directory", offset |-> Head(pending).extent.offset,
                          length |-> Head(pending).extent.length])
             \in Seq([what : {"descriptor", "directory"}, offset : Nat, length : Nat])
    BY <1>p DEF TypeOK
  <1>5. CASE DirectoryReadFails
    BY <1>5, <1>p, <1>r DEF DirectoryReadFails, TypeOK, image
  <1>6. CASE ReadDirectory
    <2>1. catalog' \in Catalog /\ catalog'.volume = catalog.volume
      <3>1. /\ catalog.bytes_read + Head(pending).extent.length \in Nat
            /\ catalog.directories_read + 1 \in Nat
        BY <1>6, <1>c, <1>p, CatalogFields DEF ReadDirectory
      <3> QED BY <1>6, <1>c, <3>1, CatalogRead DEF ReadDirectory
    <2> QED BY <1>6, <1>p, <1>r, <2>1 DEF ReadDirectory, TypeOK, image
  <1> QED BY <1>1, <1>2, <1>3, <1>4, <1>5, <1>6 DEF Walk

\* The record loop.
LEMMA RecordsType == ASSUME TypeOK, Records PROVE TypeOK'
  <1> USE DEF Return
  <1>c. catalog \in Catalog
    BY DEF TypeOK
  <1>a. AtRecord =>
           /\ Here \in Cell
           /\ Here.size \in Nat
           /\ Volume.block_bytes \in Nat \ {0}
           /\ Listed \in Entry
    BY RecordType DEF Cell, Descriptor
  <1>d. directory.path \in Path /\ directory.extent.length \in Nat /\ cursor \in Nat
    BY DEF TypeOK, Location, Extent
  <1>i. \A w \in {"truncated", "oversize", "outside"} \cup Malformed, p \in Path :
           [what |-> w, path |-> p] \in Issue
    BY DEF Issue
  <1>1. CASE SkipPadding
    <2>1. cursor' \in Nat
      BY <1>1, <1>a, <1>d DEF SkipPadding, NextBlock, Least
    <2> QED BY <1>1, <2>1 DEF SkipPadding, TypeOK, image
  <1>2. CASE StopAtTruncated
    <2>1. catalog' \in Catalog /\ catalog'.volume = catalog.volume
      BY <1>2, <1>c, <1>d, <1>i, CatalogIssue DEF StopAtTruncated
    <2> QED BY <1>2, <2>1 DEF StopAtTruncated, AtRecord, TypeOK, image
  <1>3. CASE SkipSelfOrParent
    BY <1>3, <1>a, <1>d DEF SkipSelfOrParent, WholeRecord, TypeOK, image
  <1>4. CASE RejectRecord
    <2>1. catalog' \in Catalog /\ catalog'.volume = catalog.volume
      BY <1>4, <1>c, <1>d, <1>i, CatalogIssue DEF RejectRecord, Rejected
    <2>2. cursor' \in Nat
      BY <1>4, <1>a, <1>d DEF RejectRecord, Rejected, WholeRecord
    <2> QED BY <1>4, <2>1, <2>2 DEF RejectRecord, Rejected, TypeOK, image
  <1>l. ASSUME NEW c \in Catalog, c.volume = catalog.volume, Listable, List(c)
        PROVE  /\ catalog' \in Catalog /\ catalog'.volume = catalog.volume
               /\ cursor' \in Nat /\ phase' \in {"records", "progress"}
    <2>1. AtRecord
      BY <1>l DEF Listable, WholeRecord
    <2>2. PICK b \in BOOLEAN :
             catalog' = [c EXCEPT !.entries = Append(@, Listed), !.limit_reached = b]
      BY <1>l, CatalogFields DEF List
    <2>3. catalog' \in Catalog /\ catalog'.volume = c.volume
      <3>1. Listed \in Entry
        BY <2>1, <1>a
      <3>2. /\ [c EXCEPT !.entries = Append(@, Listed), !.limit_reached = b] \in Catalog
            /\ [c EXCEPT !.entries = Append(@, Listed), !.limit_reached = b].volume = c.volume
        BY <3>1, CatalogEntry
      <3> QED BY <2>2, <3>2
    <2>4. cursor' \in Nat /\ phase' \in {"records", "progress"}
      BY <1>l, <1>a, <1>d, <2>1 DEF List, AtRecord
    <2> QED BY <1>l, <2>3, <2>4
  <1>5. CASE ListFile
    BY <1>5, <1>c, <1>l DEF ListFile, Listable, WholeRecord, AtRecord, TypeOK, image
  <1>6. CASE ListTooDeep
    <2>1. /\ [catalog EXCEPT !.limit_reached = TRUE] \in Catalog
          /\ [catalog EXCEPT !.limit_reached = TRUE].volume = catalog.volume
      BY <1>c, CatalogFlag
    <2>2. /\ catalog' \in Catalog /\ catalog'.volume = catalog.volume
          /\ cursor' \in Nat /\ phase' \in {"records", "progress"}
      BY <1>6, <1>l, <2>1 DEF ListTooDeep
    <2> QED BY <1>6, <2>2 DEF ListTooDeep, Listable, WholeRecord, AtRecord, TypeOK, image
  <1>7. CASE ListOversize
    <2>1. Oversize(catalog) \in Catalog /\ Oversize(catalog).volume = catalog.volume
      <3>1. Listed.path \in Path
        BY <1>7, <1>a DEF ListOversize, Listable, WholeRecord, Entry
      <3> QED BY <3>1, <1>c, <1>i, CatalogIssue DEF Oversize
    <2>2. /\ catalog' \in Catalog /\ catalog'.volume = catalog.volume
          /\ cursor' \in Nat /\ phase' \in {"records", "progress"}
      BY <1>7, <1>l, <2>1 DEF ListOversize
    <2> QED BY <1>7, <2>2 DEF ListOversize, Listable, WholeRecord, AtRecord, TypeOK, image
  <1>8. CASE ListDirectory
    <2>1. /\ catalog' \in Catalog /\ catalog'.volume = catalog.volume
          /\ cursor' \in Nat /\ phase' \in {"records", "progress"}
      BY <1>8, <1>c, <1>l DEF ListDirectory
    <2>2. pending' \in Seq(Location)
      <3>1. [path |-> Listed.path, extent |-> Listed.extent, depth |-> Listed.depth]
               \in Location
        BY <1>8, <1>a DEF ListDirectory, Listable, WholeRecord, Entry, Location
      <3> QED BY <1>8, <3>1 DEF ListDirectory, QueuedLast, TypeOK
    <2> QED BY <1>8, <2>1, <2>2
            DEF ListDirectory, Listable, WholeRecord, AtRecord, TypeOK, image
  <1>9. CASE EndOfDirectory
    BY <1>9 DEF EndOfDirectory, TypeOK, image
  <1>10. CASE ReportProgress
    BY <1>10 DEF ReportProgress, TypeOK, image
  <1> QED BY <1>1, <1>2, <1>3, <1>4, <1>5, <1>6, <1>7, <1>8, <1>9, <1>10 DEF Records

\* Every variable keeps its type: in particular no record is read outside the
\* directory buffer and no descriptor index runs past the descriptors scanned.
THEOREM TypeCorrect == Spec => []TypeOK
  <1>1. TypeOK /\ [Next]_vars => TypeOK'
    <2> SUFFICES ASSUME TypeOK, [Next]_vars PROVE TypeOK'
      OBVIOUS
    <2>1. CASE RejectConfig \/ AcceptConfig \/ Scan
      BY <2>1, ScanType
    <2>2. CASE Walk
      BY <2>2, WalkType
    <2>3. CASE Records
      BY <2>3, RecordsType
    <2>4. CASE Returned \/ UNCHANGED vars
      BY <2>4 DEF Returned, vars, TypeOK, image
    <2> QED BY <2>1, <2>2, <2>3, <2>4 DEF Next
  <1> QED BY InitType, <1>1, PTL DEF Spec

-----------------------------------------------------------------------------
(***************************************************************************)
(* Safety.  ReadsInsideSource, ReadAtMostOnce and BudgetsHold are not      *)
(* inductive: a read is made of what the queue holds, the queue is filled  *)
(* from volumes that parse and records that were checked, and a repeated   *)
(* read is ruled out by what "visited" remembers.  Safe adds these links.  *)
(***************************************************************************)
ParsedVolumes ==
    /\ primary # 0 => Parses(image.descriptors[primary])
    /\ joliet # 0 => Parses(image.descriptors[joliet])
    /\ catalog.volume # 0 => Parses(Volume)

Admissible(location) ==
    /\ Inside(location.extent, config.total_bytes)
    /\ location.extent.length <= config.max_directory_bytes
    /\ location.depth <= config.max_depth

QueueAdmissible == \A i \in 1..Len(pending) : Admissible(pending[i])

ReadsRemembered ==
    \A i \in 1..Len(reads) :
        reads[i].what = "directory" =>
            /\ [offset |-> reads[i].offset, length |-> reads[i].length] \in visited
            /\ reads[i].length <= config.max_directory_bytes

RoomForEntry ==
    /\ directory.depth <= config.max_depth
    /\ phase = "records" => Len(catalog.entries) < config.max_entries
    /\ Len(catalog.entries) <= config.max_entries
    /\ catalog.directories_read <= config.max_directories
    /\ index <= config.max_descriptors
    /\ \A i \in 1..Len(catalog.entries) : catalog.entries[i].depth <= config.max_depth + 1

Safe ==
    /\ ParsedVolumes
    /\ QueueAdmissible
    /\ ReadsRemembered
    /\ ReadsInsideSource
    /\ ReadAtMostOnce
    /\ RoomForEntry

LEMMA InitSafe == Init => Safe
  <1> SUFFICES ASSUME Init PROVE Safe
    OBVIOUS
  <1>1. config \in Config
    BY InputsAssumption DEF Init, config
  <1> QED BY <1>1 DEF Init, Safe, ParsedVolumes, QueueAdmissible, ReadsRemembered,
                    ReadsInsideSource, ReadAtMostOnce, RoomForEntry, EmptyCatalog, Config

\* The call's arguments never change.
LEMMA InputFixed == [Next]_vars => config' = config /\ image' = image
  BY DEF Next, vars, RejectConfig, AcceptConfig, Scan, CancelScan,
         DescriptorOutsideSource, DescriptorReadFails, ReadDescriptor, NoTerminator,
         RejectVolume, SelectVolume, Walk, ReturnCatalog, CancelWalk, StopAtLimit,
         SkipVisited, DirectoryReadFails, ReadDirectory, Records, SkipPadding,
         StopAtTruncated, SkipSelfOrParent, RejectRecord, Rejected, ListFile, ListTooDeep,
         ListOversize, ListDirectory, EndOfDirectory, ReportProgress, Returned,
         config, image

\* What a step may do to the volumes: accept a descriptor that parses, or
\* choose between those accepted.
LEMMA ParsedStep ==
    ASSUME TypeOK, ParsedVolumes, [Next]_vars
    PROVE  ParsedVolumes'
  <1>f. config' = config /\ image' = image
    BY InputFixed
  <1>1. CASE ReadDescriptor
    <2>1. catalog'.volume = catalog.volume
      BY <1>1 DEF ReadDescriptor, TypeOK, Catalog
    <2>2. primary' # 0 => Parses(image.descriptors[primary'])
      BY <1>1 DEF ReadDescriptor, Accepted, ParsedVolumes, TypeOK, Fail
    <2>3. joliet' # 0 => Parses(image.descriptors[joliet'])
      BY <1>1 DEF ReadDescriptor, Accepted, ParsedVolumes, TypeOK, Fail
    <2> QED BY <2>1, <2>2, <2>3, <1>f DEF ParsedVolumes, Volume, Parses, Inside
  <1>2. CASE SelectVolume
    <2>1. catalog'.volume = Selected
      BY <1>2 DEF SelectVolume, TypeOK, Catalog
    <2> QED BY <1>2, <2>1, <1>f
            DEF SelectVolume, Selected, ParsedVolumes, Volume, Parses, Inside
  <1>3. CASE UNCHANGED <<primary, joliet>>
             /\ (catalog'.volume = catalog.volume \/ catalog'.volume = 0)
    BY <1>3, <1>f DEF ParsedVolumes, Volume, Parses, Inside
  <1>4. ASSUME ~ReadDescriptor, ~SelectVolume
        PROVE  UNCHANGED <<primary, joliet>>
               /\ (catalog'.volume = catalog.volume \/ catalog'.volume = 0)
    BY <1>4 DEF Next, vars, RejectConfig, AcceptConfig, Scan, CancelScan,
         DescriptorOutsideSource, DescriptorReadFails, NoTerminator,
         RejectVolume, Walk, ReturnCatalog, CancelWalk, StopAtLimit,
         SkipVisited, DirectoryReadFails, ReadDirectory, Records, SkipPadding,
         StopAtTruncated, SkipSelfOrParent, RejectRecord, Rejected, ListFile, ListTooDeep,
         ListOversize, ListDirectory, EndOfDirectory, ReportProgress, Returned,
         List, Oversize, Return, Fail, EmptyCatalog, TypeOK, Catalog
  <1> QED BY <1>1, <1>2, <1>3, <1>4

\* What a step may do to the queue: start it with a root that parses, take its
\* head, or append a directory whose extent and depth were checked.
LEMMA QueueStep ==
    ASSUME TypeOK, ParsedVolumes, QueueAdmissible, [Next]_vars
    PROVE  QueueAdmissible'
  <1>f. config' = config
    BY InputFixed
  <1>a. \A l \in Location : Admissible(l)' <=> Admissible(l)
    BY <1>f DEF Admissible, Inside
  <1>t. pending \in Seq(Location)
    BY DEF TypeOK
  <1>1. CASE SelectVolume
    <2>1. Selected \in 1..Len(image.descriptors)
      BY <1>1 DEF SelectVolume, Selected, TypeOK
    <2>2. Parses(image.descriptors[Selected])
      BY <1>1 DEF SelectVolume, Selected, ParsedVolumes
    <2>3. image.descriptors[Selected] \in Descriptor /\ config \in Config
      BY <2>1, InputType
    <2>4. PICK location :
             /\ location = [path |-> <<>>, extent |-> image.descriptors[Selected].root,
                            depth |-> 0]
             /\ pending' = <<location>>
      BY <1>1 DEF SelectVolume
    <2>5. Admissible(location)
      BY <1>1, <2>2, <2>3, <2>4
         DEF SelectVolume, Parses, Admissible, Inside, Descriptor, Extent, Config
    <2> QED BY <2>4, <2>5, <1>f DEF QueueAdmissible, Admissible, Inside
  <1>2. CASE ListDirectory
    <2> DEFINE location == [path |-> Listed.path, extent |-> Listed.extent,
                            depth |-> Listed.depth]
    <2>1. Listed \in Entry /\ Here \in Cell /\ Listed.extent.length = Here.length
      BY <1>2, RecordType DEF ListDirectory, Listable, WholeRecord, Listed
    <2>2. Inside(Listed.extent, config.total_bytes)
      BY <1>2 DEF ListDirectory, Listable, Verdict
    <2>3. location \in Location /\ Admissible(location)
      BY <1>2, <2>1, <2>2 DEF ListDirectory, Admissible, Location, Entry
    <2>4. pending' = Append(pending, location)
      BY <1>2 DEF ListDirectory, QueuedLast
    <2> HIDE DEF location
    <2>5. \A i \in 1..Len(pending') : pending'[i] \in Location /\ Admissible(pending'[i])
      BY <2>3, <2>4, <1>t DEF QueueAdmissible
    <2> QED BY <2>5, <1>f DEF QueueAdmissible, Admissible, Inside
  <1>3. CASE Popped
    <2>1. \A i \in 1..Len(pending') : pending'[i] = pending[i + 1] /\ i + 1 \in 1..Len(pending)
      BY <1>3, <1>t DEF Popped
    <2> QED BY <2>1, <1>f DEF QueueAdmissible, Admissible, Inside
  <1>4. CASE UNCHANGED pending
    BY <1>4, <1>f DEF QueueAdmissible, Admissible, Inside
  <1>5. ASSUME ~SelectVolume, ~ListDirectory, ~Popped
        PROVE  UNCHANGED pending
    BY <1>5 DEF Next, vars, RejectConfig, AcceptConfig, Scan, CancelScan,
         DescriptorOutsideSource, DescriptorReadFails, ReadDescriptor, NoTerminator,
         RejectVolume, Walk, ReturnCatalog, CancelWalk, StopAtLimit,
         SkipVisited, DirectoryReadFails, ReadDirectory, Records, SkipPadding,
         StopAtTruncated, SkipSelfOrParent, RejectRecord, Rejected, ListFile, ListTooDeep,
         ListOversize, EndOfDirectory, ReportProgress, Returned
  <1> QED BY <1>1, <1>2, <1>3, <1>4, <1>5

\* What a step may do to the reads: ask for a descriptor inside the source, or
\* for the head of the queue where it was not traversed before.
LEMMA ReadsStep ==
    ASSUME TypeOK, QueueAdmissible, ReadsRemembered, ReadsInsideSource, ReadAtMostOnce,
           [Next]_vars
    PROVE  ReadsRemembered' /\ ReadsInsideSource' /\ ReadAtMostOnce'
  <1>f. config' = config
    BY InputFixed
  <1> DEFINE Read == [what : {"descriptor", "directory"}, offset : Nat, length : Nat]
  <1>t. reads \in Seq(Read)
    BY DEF TypeOK
  <1>1. CASE DescriptorReadFails \/ ReadDescriptor
    <2> DEFINE r == [what |-> "descriptor", offset |-> DescriptorOffset,
                     length |-> DescriptorBytes]
    <2>1. r \in Read
      BY <1>1, ConstantsAssumption
         DEF DescriptorReadFails, ReadDescriptor, MoreDescriptors, DescriptorOffset, TypeOK
    <2>2. reads' = Append(reads, r) /\ visited' = visited
      BY <1>1 DEF DescriptorReadFails, ReadDescriptor, Ask
    <2>3. r.offset + r.length <= config.total_bytes /\ r.what = "descriptor"
      BY <1>1 DEF DescriptorReadFails, ReadDescriptor
    <2> HIDE DEF r, Read
    <2>4. /\ Len(reads') = Len(reads) + 1
          /\ \A i \in 1..Len(reads) : reads'[i] = reads[i]
          /\ reads'[Len(reads) + 1] = r
      BY <2>1, <2>2, <1>t
    <2>5. Len(reads) \in Nat
      BY <1>t
    <2>6. ReadsRemembered'
      BY <2>2, <2>3, <2>4, <2>5, <1>f DEF ReadsRemembered
    <2>7. ReadsInsideSource'
      BY <2>3, <2>4, <2>5, <1>f DEF ReadsInsideSource
    <2>8. ReadAtMostOnce'
      BY <2>3, <2>4, <2>5 DEF ReadAtMostOnce
    <2> QED BY <2>6, <2>7, <2>8
  <1>2. CASE DirectoryReadFails \/ ReadDirectory
    <2> DEFINE e == Head(pending).extent
               r == [what |-> "directory", offset |-> e.offset, length |-> e.length]
    <2>1. pending # <<>> /\ Fresh /\ reads' = Append(reads, r) /\ visited' = visited \cup {e}
      BY <1>2 DEF DirectoryReadFails, ReadDirectory, Ask, Popped
    <2>2. Head(pending) = pending[1] /\ 1 \in 1..Len(pending) /\ pending[1] \in Location
      BY <2>1 DEF TypeOK
    <2>3. e \in Extent /\ Inside(e, config.total_bytes)
          /\ e.length <= config.max_directory_bytes
      BY <2>2 DEF QueueAdmissible, Admissible, Location
    <2>4. r \in Read /\ e = [offset |-> r.offset, length |-> r.length] /\ r.what = "directory"
      BY <2>3 DEF Extent
    <2>5. r.offset + r.length <= config.total_bytes /\ r.length <= config.max_directory_bytes
      BY <2>3 DEF Inside
    <2>6. e \notin visited
      BY <2>1 DEF Fresh
    <2> HIDE DEF r, e, Read
    <2>7. /\ Len(reads') = Len(reads) + 1
          /\ \A i \in 1..Len(reads) : reads'[i] = reads[i]
          /\ reads'[Len(reads) + 1] = r
      BY <2>1, <2>4, <1>t
    <2>8. Len(reads) \in Nat
      BY <1>t
    <2>9. ReadsRemembered'
      BY <2>1, <2>4, <2>5, <2>7, <2>8, <1>f DEF ReadsRemembered
    <2>10. ReadsInsideSource'
      BY <2>5, <2>7, <2>8, <1>f DEF ReadsInsideSource
    <2>11. ReadAtMostOnce'
      <3>1. \A i \in 1..Len(reads) : reads[i].what = "directory" => reads[i] # r
        BY <2>4, <2>6 DEF ReadsRemembered
      <3> QED BY <3>1, <2>4, <2>7, <2>8 DEF ReadAtMostOnce
    <2> QED BY <2>9, <2>10, <2>11
  <1>3. CASE UNCHANGED <<reads, visited>>
    BY <1>3, <1>f DEF ReadsRemembered, ReadsInsideSource, ReadAtMostOnce
  <1>4. ASSUME ~DescriptorReadFails, ~ReadDescriptor, ~DirectoryReadFails, ~ReadDirectory
        PROVE  UNCHANGED <<reads, visited>>
    BY <1>4 DEF Next, vars, RejectConfig, AcceptConfig, Scan, CancelScan,
         DescriptorOutsideSource, NoTerminator, RejectVolume, SelectVolume,
         Walk, ReturnCatalog, CancelWalk, StopAtLimit, SkipVisited, Records,
         SkipPadding, StopAtTruncated, SkipSelfOrParent, RejectRecord, Rejected, ListFile,
         ListTooDeep, ListOversize, ListDirectory, EndOfDirectory, ReportProgress, Returned
  <1> QED BY <1>1, <1>2, <1>3, <1>4

\* What a step may do to the counters: a directory is read, or an entry listed,
\* only while the budget it draws on is not used up.
LEMMA RoomStep ==
    ASSUME TypeOK, QueueAdmissible, RoomForEntry, [Next]_vars
    PROVE  RoomForEntry'
  <1>f. config' = config
    BY InputFixed
  <1>t. config \in Config /\ catalog \in Catalog
    BY InputType DEF TypeOK
  <1>e. catalog.entries \in Seq(Entry) /\ Len(catalog.entries) \in Nat
        /\ catalog.directories_read \in Nat
    BY <1>t, CatalogFields
  <1>1. CASE ReadDirectory
    <2>1. Head(pending) = pending[1] /\ 1 \in 1..Len(pending)
      BY <1>1 DEF ReadDirectory, Popped, TypeOK
    <2>2. directory'.depth <= config.max_depth
      BY <1>1, <2>1 DEF ReadDirectory, QueueAdmissible, Admissible
    <2>3. /\ catalog.directories_read < config.max_directories
          /\ Len(catalog.entries) < config.max_entries
      BY <1>1, <1>t, <1>e DEF ReadDirectory, AtLimit, Config
    <2>4. /\ catalog'.entries = catalog.entries
          /\ catalog'.directories_read = catalog.directories_read + 1
          /\ index' = index
      BY <1>1, <1>t DEF ReadDirectory, Catalog
    <2> QED BY <2>2, <2>3, <2>4, <1>e, <1>f, <1>t DEF RoomForEntry, Config
  <1>l. ASSUME NEW c, Listable, List(c), c \in Catalog, c.entries = catalog.entries,
               c.directories_read = catalog.directories_read,
               UNCHANGED <<index, directory>>
        PROVE  RoomForEntry'
    <2>1. AtRecord /\ Listed \in Entry
      BY <1>l, RecordType DEF Listable, WholeRecord
    <2>2. Listed.depth <= config.max_depth + 1
      BY <1>t DEF RoomForEntry, Listed, TypeOK, Location, Config
    <2>3. /\ catalog'.entries = Append(catalog.entries, Listed)
          /\ catalog'.directories_read = catalog.directories_read
      BY <1>l DEF List, Catalog
    <2>4. /\ Len(catalog'.entries) = Len(catalog.entries) + 1
          /\ \A i \in 1..Len(catalog.entries) : catalog'.entries[i] = catalog.entries[i]
          /\ catalog'.entries[Len(catalog.entries) + 1] = Listed
      BY <2>1, <2>3, <1>e
    <2>5. Len(catalog.entries) < config.max_entries
      BY <2>1 DEF RoomForEntry, AtRecord
    <2>6. phase' = "records" => Len(catalog'.entries) < config.max_entries
      BY <1>l, <1>e, <1>t, <2>4 DEF List, Config
    <2> HIDE DEF Listed
    <2>7. \A i \in 1..Len(catalog'.entries) : catalog'.entries[i].depth <= config.max_depth + 1
      BY <2>2, <2>4, <1>e DEF RoomForEntry
    <2> QED BY <1>l, <1>e, <1>f, <1>t, <2>3, <2>4, <2>5, <2>6, <2>7 DEF RoomForEntry, Config
  <1>2. CASE ListFile
    BY <1>2, <1>l, <1>t DEF ListFile
  <1>3. CASE ListTooDeep
    <2>1. /\ [catalog EXCEPT !.limit_reached = TRUE] \in Catalog
          /\ [catalog EXCEPT !.limit_reached = TRUE].entries = catalog.entries
          /\ [catalog EXCEPT !.limit_reached = TRUE].directories_read
                = catalog.directories_read
      BY <1>t DEF Catalog
    <2> QED BY <1>3, <1>l, <2>1 DEF ListTooDeep
  <1>4. CASE ListOversize
    <2>1. Listed \in Entry
      BY <1>4, RecordType DEF ListOversize, Listable, WholeRecord
    <2>2. [what |-> "oversize", path |-> Listed.path] \in Issue
      BY <2>1 DEF Entry, Issue
    <2>3. /\ Oversize(catalog) \in Catalog
          /\ Oversize(catalog).entries = catalog.entries
          /\ Oversize(catalog).directories_read = catalog.directories_read
      BY <1>t, <2>2, CatalogIssue DEF Oversize, Catalog
    <2> QED BY <1>4, <1>l, <2>3 DEF ListOversize
  <1>5. CASE ListDirectory
    BY <1>5, <1>l, <1>t DEF ListDirectory
  <1>6. CASE ReadDescriptor
    <2>1. index' <= config.max_descriptors
      BY <1>6, <1>t DEF ReadDescriptor, MoreDescriptors, Fail, RoomForEntry, TypeOK, Config
    <2>2. UNCHANGED <<directory, catalog.entries, catalog.directories_read>>
          /\ phase' # "records"
      BY <1>6, <1>t DEF ReadDescriptor, MoreDescriptors, Fail, Catalog
    <2> QED BY <2>1, <2>2, <1>f DEF RoomForEntry
  <1>7. CASE CancelScan
    <2>1. /\ catalog'.entries = <<>> /\ catalog'.directories_read = 0 /\ phase' # "records"
          /\ UNCHANGED <<index, directory>>
      BY <1>7 DEF CancelScan, Return, EmptyCatalog
    <2> QED BY <2>1, <1>f, <1>t DEF RoomForEntry, Config
  <1>8. CASE /\ UNCHANGED <<index, directory, catalog.entries, catalog.directories_read>>
             /\ phase' = "records" => phase = "records"
    BY <1>8, <1>f DEF RoomForEntry
  <1>9. ASSUME ~ReadDirectory, ~ListFile, ~ListTooDeep, ~ListOversize, ~ListDirectory,
               ~ReadDescriptor, ~CancelScan
        PROVE  /\ UNCHANGED <<index, directory, catalog.entries, catalog.directories_read>>
               /\ phase' = "records" => phase = "records"
    BY <1>9, <1>t DEF Next, vars, RejectConfig, AcceptConfig, Scan,
           DescriptorOutsideSource, DescriptorReadFails, NoTerminator, RejectVolume,
           SelectVolume, Walk, ReturnCatalog, CancelWalk, StopAtLimit, SkipVisited,
           DirectoryReadFails, Records, SkipPadding, StopAtTruncated, SkipSelfOrParent,
           RejectRecord, Rejected, EndOfDirectory, ReportProgress, Returned, Return, Fail,
           Catalog
  <1> QED BY <1>1, <1>2, <1>3, <1>4, <1>5, <1>6, <1>7, <1>8, <1>9

LEMMA SafeStep == TypeOK /\ Safe /\ [Next]_vars => Safe'
  BY ParsedStep, QueueStep, ReadsStep, RoomStep DEF Safe

LEMMA SafeAlways == Spec => [](TypeOK /\ Safe)
  <1>1. Init => Safe
    BY InitSafe
  <1> QED BY <1>1, TypeCorrect, SafeStep, PTL DEF Spec

\* However the image links its directories, whatever fails and whenever the
\* caller cancels, catalog_iso asks only for bytes inside the source.
THEOREM ReadsStayInside == Spec => []ReadsInsideSource
  <1>1. Safe => ReadsInsideSource
    BY DEF Safe
  <1> QED BY <1>1, SafeAlways, PTL

\* No directory extent is read twice, even in an image with cycles.
THEOREM ReadsAreFresh == Spec => []ReadAtMostOnce
  <1>1. Safe => ReadAtMostOnce
    BY DEF Safe
  <1> QED BY <1>1, SafeAlways, PTL

\* The entry, directory, depth, descriptor and directory-size budgets bound the
\* listing and the reads in every state.
THEOREM BudgetsAreKept == Spec => []BudgetsHold
  <1>1. Safe => BudgetsHold
    BY DEF Safe, RoomForEntry, ReadsRemembered, BudgetsHold
  <1> QED BY <1>1, SafeAlways, PTL

-----------------------------------------------------------------------------

(***************************************************************************)
(* The walk and Traversal.                                                 *)
(***************************************************************************)
\* The mapping of the queue, and of what was queued once a volume is chosen.
Front == [i \in 1..Len(pending) |-> pending[i].extent]

Queueable(e) ==
    /\ e.directory
    /\ e.depth <= config.max_depth
    /\ e.extent.length <= config.max_directory_bytes

QueuedOf(entries) ==
    {entries[i].extent : i \in {i \in 1..Len(entries) : Queueable(entries[i])}}

\* Before a volume is chosen there is nothing to walk.
Unstarted ==
    /\ phase \in {"config", "descriptors", "select"} => catalog.volume = 0
    /\ catalog.volume = 0 => pending = <<>> /\ catalog.entries = <<>>

LEMMA QueuedForm ==
    Queued = IF catalog.volume = 0 THEN {} ELSE {Volume.root} \cup QueuedOf(catalog.entries)
BY DEF Queued, QueuedOf, Queueable

LEMMA QueuedOfAppend ==
    ASSUME NEW s \in Seq(Entry), NEW e \in Entry
    PROVE  QueuedOf(Append(s, e)) = QueuedOf(s) \cup (IF Queueable(e) THEN {e.extent} ELSE {})
<1>1. /\ Len(Append(s, e)) = Len(s) + 1 /\ Len(s) \in Nat
      /\ \A i \in 1..Len(s) : Append(s, e)[i] = s[i]
      /\ Append(s, e)[Len(s) + 1] = e
  OBVIOUS
<1> HIDE DEF Queueable
<1>2. ASSUME NEW x \in QueuedOf(Append(s, e))
      PROVE  x \in QueuedOf(s) \cup (IF Queueable(e) THEN {e.extent} ELSE {})
  <2>1. PICK i \in 1..Len(s) + 1 :
            Queueable(Append(s, e)[i]) /\ x = Append(s, e)[i].extent
    BY <1>1, <1>2 DEF QueuedOf
  <2>2. CASE i \in 1..Len(s)
    BY <1>1, <2>1, <2>2 DEF QueuedOf
  <2>3. CASE i = Len(s) + 1
    BY <1>1, <2>1, <2>3
  <2> QED
    BY <1>1, <2>2, <2>3
<1>3. ASSUME NEW x \in QueuedOf(s) PROVE x \in QueuedOf(Append(s, e))
  <2>1. PICK i \in 1..Len(s) : Queueable(s[i]) /\ x = s[i].extent
    BY <1>3 DEF QueuedOf
  <2>2. i \in 1..Len(Append(s, e)) /\ Append(s, e)[i] = s[i]
    BY <1>1
  <2> QED
    BY <2>1, <2>2 DEF QueuedOf
<1>4. Queueable(e) => e.extent \in QueuedOf(Append(s, e))
  <2>1. Len(s) + 1 \in 1..Len(Append(s, e))
    BY <1>1
  <2> QED
    BY <1>1, <2>1 DEF QueuedOf
<1> QED
  BY <1>2, <1>3, <1>4

LEMMA LocationExtent == \A l \in Location : l.extent \in Extent
BY DEF Location

\* The queue's head and tail are the frontier's.
LEMMA FrontTail ==
    ASSUME TypeOK, pending # <<>>
    PROVE  /\ Front # <<>>
           /\ Head(Front) = Head(pending).extent
           /\ [i \in 1..Len(Tail(pending)) |-> Tail(pending)[i].extent] = Tail(Front)
           /\ Head(pending).extent \in Extent
<1>1. pending \in Seq(Location) /\ Len(pending) \in Nat \ {0}
  BY DEF TypeOK
<1>2. \A i \in 1..Len(pending) : pending[i].extent \in Extent
  BY <1>1, LocationExtent
<1>3. Front \in Seq(Extent) /\ Len(Front) = Len(pending)
  BY <1>1, <1>2 DEF Front
<1>4. /\ Len(Tail(pending)) = Len(pending) - 1
      /\ Len(Tail(Front)) = Len(pending) - 1
      /\ \A i \in 1..Len(pending) - 1 :
            Tail(pending)[i] = pending[i + 1] /\ Tail(Front)[i] = Front[i + 1]
  BY <1>1, <1>3
<1>5. \A i \in 1..Len(pending) : Front[i] = pending[i].extent
  BY DEF Front
<1> DEFINE G == [i \in 1..Len(pending) - 1 |-> Tail(pending)[i].extent]
<1>6. G \in Seq(Extent) /\ Len(G) = Len(pending) - 1
  <2>1. \A i \in 1..Len(pending) - 1 : Tail(pending)[i].extent \in Extent
    BY <1>1, <1>2, <1>4
  <2> QED
    BY <1>1, <2>1
<1>7. Tail(Front) \in Seq(Extent)
  BY <1>1, <1>3
<1>8. \A i \in 1..Len(pending) - 1 : G[i] = Tail(Front)[i]
  BY <1>1, <1>4, <1>5
<1>9. G = Tail(Front)
  <2> HIDE DEF G
  <2> QED
    BY <1>4, <1>6, <1>7, <1>8, SeqEqual
<1> QED
  BY <1>1, <1>2, <1>3, <1>4, <1>5, <1>9

LEMMA FrontAppend ==
    ASSUME TypeOK, NEW l \in Location
    PROVE  [i \in 1..Len(Append(pending, l)) |-> Append(pending, l)[i].extent]
               = Append(Front, l.extent)
<1>1. pending \in Seq(Location) /\ Len(pending) \in Nat /\ l.extent \in Extent
  BY DEF TypeOK, Location
<1>2. /\ Len(Append(pending, l)) = Len(pending) + 1
      /\ \A i \in 1..Len(pending) : Append(pending, l)[i] = pending[i]
      /\ Append(pending, l)[Len(pending) + 1] = l
  BY <1>1
<1>3. \A i \in 1..Len(pending) : pending[i].extent \in Extent
  BY <1>1, LocationExtent
<1>4. Front \in Seq(Extent) /\ Len(Front) = Len(pending)
  BY <1>1, <1>3 DEF Front
<1> DEFINE G == [i \in 1..Len(pending) + 1 |-> Append(pending, l)[i].extent]
<1>5. G \in Seq(Extent) /\ Len(G) = Len(pending) + 1
  <2>1. \A i \in 1..Len(pending) + 1 : Append(pending, l)[i].extent \in Extent
    BY <1>1, <1>2, <1>3
  <2> QED
    BY <1>1, <2>1
<1>6. Append(Front, l.extent) \in Seq(Extent) /\ Len(Append(Front, l.extent)) = Len(pending) + 1
  BY <1>1, <1>4
<1>7. \A i \in 1..Len(pending) + 1 : G[i] = Append(Front, l.extent)[i]
  BY <1>1, <1>2, <1>4 DEF Front
<1>8. G = Append(Front, l.extent)
  <2> HIDE DEF G
  <2> QED
    BY <1>5, <1>6, <1>7, SeqEqual
<1> QED
  BY <1>2, <1>8

-----------------------------------------------------------------------------
LEMMA UnstartedStep == ASSUME TypeOK, Unstarted, [Next]_vars PROVE Unstarted'
<1>1. CASE RejectConfig \/ AcceptConfig \/ Scan
  <2>1. CASE SelectVolume
    <3>1. phase' = "walk" /\ primary # 0 /\ catalog' = [catalog EXCEPT !.volume = Selected]
      BY <2>1 DEF SelectVolume
    <3>2. catalog'.volume = Selected /\ Selected # 0
      BY <3>1 DEF TypeOK, Catalog, Selected
    <3> QED
      BY <3>1, <3>2 DEF Unstarted
  <2>2. CASE CancelScan
    BY <2>2 DEF CancelScan, MoreDescriptors, Return, EmptyCatalog, Unstarted
  <2>3. CASE ReadDescriptor
    <3>1. /\ catalog'.volume = catalog.volume /\ catalog'.entries = catalog.entries
          /\ UNCHANGED pending
      BY <2>3 DEF ReadDescriptor, TypeOK, Catalog
    <3>2. phase = "descriptors"
      BY <2>3 DEF ReadDescriptor, MoreDescriptors
    <3> QED
      BY <3>1, <3>2 DEF Unstarted
  <2>4. CASE \/ RejectConfig \/ AcceptConfig \/ DescriptorOutsideSource
             \/ DescriptorReadFails \/ NoTerminator \/ RejectVolume
    BY <2>4 DEF RejectConfig, AcceptConfig, DescriptorOutsideSource, MoreDescriptors,
                DescriptorReadFails, NoTerminator, RejectVolume, Fail, Unstarted
  <2> QED
    BY <1>1, <2>1, <2>2, <2>3, <2>4 DEF Scan
<1>2. CASE Walk \/ Records
  <2>1. phase \in {"walk", "records", "progress"} /\ catalog.volume # 0
    BY <1>2 DEF Walk, Records, ReturnCatalog, CancelWalk, StopAtLimit, SkipVisited,
         DirectoryReadFails, ReadDirectory, Popped, SkipPadding, StopAtTruncated,
         SkipSelfOrParent, RejectRecord, Rejected, ListFile, ListTooDeep, ListOversize,
         ListDirectory, EndOfDirectory, ReportProgress, Listable, WholeRecord, AtRecord,
         TypeOK
  <2>2. catalog'.volume = catalog.volume
    BY <1>2 DEF Walk, Records, ReturnCatalog, CancelWalk, StopAtLimit, SkipVisited,
         DirectoryReadFails, ReadDirectory, Popped, SkipPadding, StopAtTruncated,
         SkipSelfOrParent, RejectRecord, Rejected, ListFile, ListTooDeep, ListOversize,
         ListDirectory, EndOfDirectory, ReportProgress, List, Oversize, Return, Fail,
         TypeOK, Catalog
  <2>3. phase' \in {"walk", "records", "progress", "returned"}
    BY <1>2, <2>1 DEF Walk, Records, ReturnCatalog, CancelWalk, StopAtLimit, SkipVisited,
         DirectoryReadFails, ReadDirectory, Popped, SkipPadding, StopAtTruncated,
         SkipSelfOrParent, RejectRecord, Rejected, ListFile, ListTooDeep, ListOversize,
         ListDirectory, EndOfDirectory, ReportProgress, List, Return, Fail
  <2> QED
    BY <2>1, <2>2, <2>3 DEF Unstarted
<1>3. CASE Returned \/ UNCHANGED vars
  BY <1>3 DEF Returned, vars, Unstarted
<1> QED
  BY <1>1, <1>2, <1>3 DEF Next

-----------------------------------------------------------------------------
(* The steps, by what they do to the queue.                                 *)

LEMMA InputSteady == ASSUME UNCHANGED input PROVE config' = config /\ image' = image
BY DEF config, image

\* What was queued stays what it is while no entry is listed.
LEMMA QueuedSteady ==
    ASSUME UNCHANGED input, catalog'.volume = catalog.volume,
           catalog'.entries = catalog.entries
    PROVE  Queued' = Queued
<1>1. config' = config /\ image' = image
  BY InputSteady
<1>2. QueuedOf(catalog.entries)' = QueuedOf(catalog.entries)
  BY <1>1 DEF QueuedOf, Queueable
<1>3. Volume' = Volume
  BY <1>1 DEF Volume
<1>4. Queued' = IF catalog'.volume = 0 THEN {}
                ELSE {Volume'.root} \cup QueuedOf(catalog.entries)'
  BY DEF Queued, QueuedOf, Queueable
<1> QED
  BY <1>2, <1>3, <1>4, QueuedForm

\* The scan: it gives up, goes on, or chooses a volume.
LEMMA ScanRefines ==
    ASSUME TypeOK, Unstarted, RejectConfig \/ AcceptConfig \/ Scan
    PROVE  [Abstract!Next]_(Abstract!vars)
<1>1. /\ catalog.volume = 0 /\ pending = <<>> /\ catalog.entries = <<>>
      /\ phase # "returned"
  BY DEF RejectConfig, AcceptConfig, Scan, CancelScan, DescriptorOutsideSource,
         DescriptorReadFails, ReadDescriptor, NoTerminator, RejectVolume, SelectVolume,
         MoreDescriptors, Unstarted
<1>2. Stage = "selecting" /\ Queued = {}
  BY <1>1, QueuedForm DEF Stage
<1>3. UNCHANGED <<input, visited>>
  BY DEF RejectConfig, AcceptConfig, Scan, CancelScan, DescriptorOutsideSource,
         DescriptorReadFails, ReadDescriptor, NoTerminator, RejectVolume, SelectVolume
<1>4. CASE SelectVolume
  <2>1. /\ catalog' = [catalog EXCEPT !.volume = Selected]
        /\ pending' = <<[path |-> <<>>, extent |-> image.descriptors[Selected].root,
                         depth |-> 0]>>
        /\ phase' = "walk" /\ primary # 0
    BY <1>4 DEF SelectVolume
  <2>2. Selected \in 1..Len(image.descriptors)
    BY <2>1 DEF Selected, TypeOK
  <2>3. catalog'.volume = Selected /\ catalog'.entries = <<>>
    BY <1>1, <2>1 DEF TypeOK, Catalog
  <2> DEFINE root == image.descriptors[Selected].root
  <2>4. image.descriptors[Selected] \in Descriptor
    BY <2>2, InputType
  <2>5. root \in Extent
    BY <2>4 DEF Descriptor
  <2>6. Front' = <<root>>
    BY <2>1 DEF Front
  <2>7. QueuedOf(catalog.entries)' = {}
    BY <2>3 DEF QueuedOf
  <2>8. Volume'.root = root
    BY <1>3, <2>3, InputSteady DEF Volume
  <2>9. Queued' = {root}
    <3>1. Queued' = IF catalog'.volume = 0 THEN {}
                    ELSE {Volume'.root} \cup QueuedOf(catalog.entries)'
      BY DEF Queued, QueuedOf, Queueable
    <3> QED
      BY <2>2, <2>3, <2>7, <2>8, <3>1
  <2>10. Stage' = "walking"
    BY <2>1, <2>2, <2>3 DEF Stage
  <2> HIDE DEF root
  <2>11. Abstract!Choose
    BY <1>2, <1>3, <2>5, <2>6, <2>9, <2>10 DEF Abstract!Choose, Front
  <2> QED
    BY <2>11 DEF Abstract!Next
<1>5. CASE ~SelectVolume
  <2>1. pending' = pending /\ catalog'.volume = 0 /\ catalog'.entries = <<>>
    BY <1>1, <1>5 DEF RejectConfig, AcceptConfig, Scan, CancelScan, DescriptorOutsideSource,
         DescriptorReadFails, ReadDescriptor, NoTerminator, RejectVolume, SelectVolume,
         Return, EmptyCatalog, TypeOK, Catalog
  <2>2. Front' = Front /\ Queued' = Queued
    BY <1>1, <1>3, <2>1, QueuedSteady DEF Front
  <2>3. CASE phase' # "returned"
    <3>1. Stage' = Stage
      BY <1>1, <2>1, <2>3 DEF Stage
    <3> QED
      BY <1>3, <2>2, <3>1 DEF Abstract!vars, Front
  <2>4. CASE phase' = "returned"
    <3>1. result' = "error" \/ (result' = "ok" /\ catalog'.cancelled)
      BY <1>1, <1>5, <2>4 DEF RejectConfig, AcceptConfig, Scan, CancelScan,
           DescriptorOutsideSource, DescriptorReadFails, ReadDescriptor, NoTerminator,
           RejectVolume, MoreDescriptors, Return, Fail, EmptyCatalog
    <3>2. Stage' \in {"partial", "failed"}
      BY <2>4, <3>1 DEF Stage
    <3>3. Abstract!GiveUp
      BY <1>2, <1>3, <2>2, <3>2 DEF Abstract!GiveUp, Front
    <3> QED
      BY <3>3 DEF Abstract!Next
  <2> QED
    BY <2>3, <2>4
<1> QED
  BY <1>4, <1>5

\* The directory loop: it finishes, gives up, drops a directory that was read, or
\* reads one.
LEMMA WalkRefines ==
    ASSUME TypeOK, Walk
    PROVE  [Abstract!Next]_(Abstract!vars)
<1>1. phase = "walk" /\ catalog.volume # 0
  BY DEF Walk, ReturnCatalog, CancelWalk, StopAtLimit, SkipVisited, DirectoryReadFails,
         ReadDirectory, Popped, TypeOK
<1>2. /\ UNCHANGED input
      /\ catalog'.volume = catalog.volume /\ catalog'.entries = catalog.entries
  BY DEF Walk, ReturnCatalog, CancelWalk, StopAtLimit, SkipVisited, DirectoryReadFails,
         ReadDirectory, Popped, Return, Fail, TypeOK, Catalog
<1>3. Stage = "walking" /\ Queued' = Queued
  BY <1>1, <1>2, QueuedSteady DEF Stage
<1>4. CASE ReturnCatalog
  <2>1. /\ pending = <<>> /\ UNCHANGED <<pending, visited>>
        /\ phase' = "returned" /\ result' = "ok"
    BY <1>4 DEF ReturnCatalog, Return
  <2>2. Front = <<>> /\ Front' = Front
    BY <2>1 DEF Front
  <2>3. Stage' \in {"partial", "complete"}
    BY <2>1 DEF Stage
  <2>4. Abstract!Finish \/ Abstract!GiveUp
    BY <1>3, <2>1, <2>2, <2>3 DEF Abstract!Finish, Abstract!GiveUp, Front
  <2> QED
    BY <2>4 DEF Abstract!Next
<1>5. CASE ~ReturnCatalog
  <2>1. pending # <<>> /\ pending' = Tail(pending)
    BY <1>5 DEF Walk, CancelWalk, StopAtLimit, SkipVisited, DirectoryReadFails,
         ReadDirectory, Popped
  <2>2. Front' = [i \in 1..Len(Tail(pending)) |-> Tail(pending)[i].extent]
    BY <2>1 DEF Front
  <2>3. /\ Front # <<>> /\ Front' = Tail(Front)
        /\ Head(Front) = Head(pending).extent
    BY <2>1, <2>2, FrontTail
  <2>4. CASE CancelWalk \/ StopAtLimit
    <3>1. /\ phase' = "returned" /\ result' = "ok" /\ UNCHANGED visited
          /\ catalog'.cancelled \/ catalog'.limit_reached
      BY <2>4 DEF CancelWalk, StopAtLimit, Return, TypeOK, Catalog
    <3>2. Stage' = "partial"
      BY <3>1 DEF Stage
    <3>3. Abstract!GiveUp
      BY <1>3, <2>3, <3>1, <3>2 DEF Abstract!GiveUp, Front
    <3> QED
      BY <3>3 DEF Abstract!Next
  <2>5. CASE DirectoryReadFails
    <3>1. /\ phase' = "returned" /\ result' = "error"
          /\ visited' = visited \cup {Head(pending).extent}
      BY <2>5 DEF DirectoryReadFails, Fail
    <3>2. Stage' = "failed"
      BY <3>1 DEF Stage
    <3>3. Abstract!GiveUp
      BY <1>3, <2>3, <3>1, <3>2 DEF Abstract!GiveUp, Front
    <3> QED
      BY <3>3 DEF Abstract!Next
  <2>6. CASE SkipVisited
    <3>1. phase' = phase /\ UNCHANGED visited /\ Head(pending).extent \in visited
      BY <2>6 DEF SkipVisited, Fresh
    <3>2. Stage' = Stage
      BY <1>1, <1>2, <3>1 DEF Stage
    <3>3. Abstract!Revisit
      BY <1>3, <2>3, <3>1, <3>2 DEF Abstract!Revisit, Front
    <3> QED
      BY <3>3 DEF Abstract!Next
  <2>7. CASE ReadDirectory
    <3>1. /\ phase' = "records" /\ Head(pending).extent \notin visited
          /\ visited' = visited \cup {Head(pending).extent}
      BY <2>7 DEF ReadDirectory, Fresh
    <3>2. Stage' = Stage
      BY <1>1, <1>2, <3>1 DEF Stage
    <3>3. Abstract!Explore
      BY <1>3, <2>3, <3>1, <3>2 DEF Abstract!Explore, Front
    <3> QED
      BY <3>3 DEF Abstract!Next
  <2> QED
    BY <1>5, <2>4, <2>5, <2>6, <2>7 DEF Walk
<1> QED
  BY <1>4, <1>5

\* Listing an entry: a directory within the budgets is queued, and nothing else is.
LEMMA ListRefines ==
    ASSUME TypeOK, ListFile \/ ListTooDeep \/ ListOversize \/ ListDirectory
    PROVE  [Abstract!Next]_(Abstract!vars)
<1>1. AtRecord /\ UNCHANGED <<input, visited>>
  BY DEF ListFile, ListTooDeep, ListOversize, ListDirectory, Listable, WholeRecord
<1>2. /\ phase = "records" /\ catalog.volume # 0
      /\ catalog.entries \in Seq(Entry) /\ Listed \in Entry
  BY <1>1, RecordType, CatalogFields DEF AtRecord, TypeOK
<1>3. /\ catalog'.volume = catalog.volume
      /\ catalog'.entries = Append(catalog.entries, Listed)
      /\ phase' \in {"progress", "records"}
  BY <1>2 DEF ListFile, ListTooDeep, ListOversize, ListDirectory, List, Oversize,
              TypeOK, Catalog
<1>4. Stage = "walking" /\ Stage' = "walking"
  BY <1>2, <1>3 DEF Stage
<1>5. Queued' = Queued \cup (IF Queueable(Listed) THEN {Listed.extent} ELSE {})
  <2>1. config' = config /\ image' = image /\ Volume' = Volume
    BY <1>1, <1>3, InputSteady DEF Volume
  <2>2. Queued' = {Volume.root} \cup QueuedOf(Append(catalog.entries, Listed))
    BY <1>2, <1>3, <2>1 DEF Queued, QueuedOf, Queueable
  <2> QED
    BY <1>2, <2>2, QueuedOfAppend, QueuedForm
<1>6. CASE ListDirectory
  <2>1. /\ Queueable(Listed)
        /\ pending' = Append(pending, [path |-> Listed.path, extent |-> Listed.extent,
                                       depth |-> Listed.depth])
    BY <1>6 DEF ListDirectory, QueuedLast, Queueable, Listed
  <2>2. Listed.extent \in Extent
    BY <1>2 DEF Entry
  <2>3. [path |-> Listed.path, extent |-> Listed.extent, depth |-> Listed.depth] \in Location
    BY <1>2 DEF Entry, Location
  <2>4. Front' = Append(Front, Listed.extent)
    BY <2>1, <2>3, FrontAppend DEF Front
  <2>5. Front \in Seq(Extent)
    BY LocationExtent DEF Front, TypeOK
  <2>6. Front' # <<>> /\ Front'[Len(Front')] = Listed.extent
    BY <2>2, <2>4, <2>5
  <2>7. Queued' = Queued \cup {Listed.extent}
    BY <1>5, <2>1
  <2>8. Abstract!Discover
    BY <1>1, <1>4, <2>2, <2>4, <2>6, <2>7 DEF Abstract!Discover, Front
  <2> QED
    BY <2>8 DEF Abstract!Next
<1>7. CASE ListFile \/ ListTooDeep \/ ListOversize
  <2>1. pending' = pending
    BY <1>7 DEF ListFile, ListTooDeep, ListOversize
  <2>2. ~Queueable(Listed)
    <3>1. Listed.depth \in Nat /\ config.max_depth \in Nat
      BY <1>2, InputType DEF Entry, Config
    <3>2. Listed.extent.length \in Nat /\ config.max_directory_bytes \in Nat
      BY <1>2, InputType DEF Entry, Extent, Config
    <3>3. Listed.extent.length = Here.length /\ Listed.directory = Here.directory
      BY DEF Listed
    <3> QED
      BY <1>7, <3>1, <3>2, <3>3 DEF ListFile, ListTooDeep, ListOversize, Queueable
  <2>3. Front' = Front /\ Queued' = Queued
    BY <1>5, <2>1, <2>2 DEF Front
  <2> QED
    BY <1>1, <1>4, <2>3 DEF Abstract!vars, Front
<1> QED
  BY <1>6, <1>7

\* The other steps of the record loop touch nothing the walk is about, except for
\* the check that returns at a limit.
LEMMA RecordsRefine ==
    ASSUME TypeOK, Records
    PROVE  [Abstract!Next]_(Abstract!vars)
<1>1. CASE ListFile \/ ListTooDeep \/ ListOversize \/ ListDirectory
  BY <1>1, ListRefines
<1>2. CASE \/ SkipPadding \/ StopAtTruncated \/ SkipSelfOrParent \/ RejectRecord
           \/ EndOfDirectory \/ ReportProgress
  <2>1. /\ UNCHANGED <<input, pending, visited>>
        /\ catalog'.volume = catalog.volume /\ catalog'.entries = catalog.entries
    BY <1>2 DEF SkipPadding, StopAtTruncated, SkipSelfOrParent, RejectRecord, Rejected,
         EndOfDirectory, ReportProgress, Return, TypeOK, Catalog
  <2>2. Front' = Front /\ Queued' = Queued
    BY <2>1, QueuedSteady DEF Front
  <2>3. phase \in {"records", "progress"} /\ catalog.volume # 0
    BY <1>2 DEF SkipPadding, StopAtTruncated, SkipSelfOrParent, RejectRecord, Rejected,
         EndOfDirectory, ReportProgress, WholeRecord, AtRecord, TypeOK
  <2>4. Stage = "walking"
    BY <2>3 DEF Stage
  <2>5. CASE phase' # "returned"
    <3>1. Stage' = "walking"
      BY <2>1, <2>3, <2>5 DEF Stage
    <3> QED
      BY <2>1, <2>2, <2>4, <3>1 DEF Abstract!vars, Front
  <2>6. CASE phase' = "returned"
    <3>1. result' = "ok" /\ catalog'.limit_reached
      BY <1>2, <2>3, <2>6 DEF SkipPadding, StopAtTruncated, SkipSelfOrParent,
           RejectRecord, Rejected, EndOfDirectory, ReportProgress, Return
    <3>2. Stage' = "partial"
      BY <2>6, <3>1 DEF Stage
    <3>3. Abstract!GiveUp
      BY <2>1, <2>2, <2>4, <3>2 DEF Abstract!GiveUp, Front
    <3> QED
      BY <3>3 DEF Abstract!Next
  <2> QED
    BY <2>5, <2>6
<1> QED
  BY <1>1, <1>2 DEF Records

-----------------------------------------------------------------------------
\* catalog_iso walks as Traversal says: it starts from one root, reads the oldest
\* queued directory, never one it has read, queues what it lists within its
\* budgets, and calls the listing complete only with an empty queue.
THEOREM WalkImplementsTraversal == Spec => ImplementsTraversal
<1>1. Init => Unstarted /\ Abstract!Init
  <2> SUFFICES ASSUME Init PROVE Unstarted /\ Abstract!Init
    OBVIOUS
  <2>1. /\ catalog.volume = 0 /\ catalog.entries = <<>> /\ pending = <<>>
        /\ visited = {} /\ phase = "config"
    BY DEF Init, EmptyCatalog
  <2>2. Stage = "selecting" /\ Queued = {} /\ Front = <<>>
    BY <2>1 DEF Stage, Queued, Front
  <2> QED
    BY <2>1, <2>2 DEF Unstarted, Abstract!Init, Front
<1>2. TypeOK /\ Unstarted /\ [Next]_vars => Unstarted'
  BY UnstartedStep
<1>3. TypeOK /\ Unstarted /\ [Next]_vars => [Abstract!Next]_(Abstract!vars)
  <2> SUFFICES ASSUME TypeOK, Unstarted, [Next]_vars
               PROVE  [Abstract!Next]_(Abstract!vars)
    OBVIOUS
  <2>1. CASE Returned \/ UNCHANGED vars
    <3>1. UNCHANGED vars
      BY <2>1 DEF Returned
    <3>2. Stage' = Stage /\ Front' = Front /\ UNCHANGED visited
      BY <3>1 DEF vars, Stage, Front
    <3>3. Queued' = Queued
      BY <3>1, QueuedSteady DEF vars
    <3> QED
      BY <3>2, <3>3 DEF Abstract!vars, Front
  <2> QED
    BY <2>1, ScanRefines, WalkRefines, RecordsRefine DEF Next
<1> QED
  BY <1>1, <1>2, <1>3, TypeCorrect, PTL DEF Spec, ImplementsTraversal, Abstract!Spec

-----------------------------------------------------------------------------
\* A set of natural numbers has a least element.
LEMMA LeastElement ==
    ASSUME NEW T \in SUBSET Nat, T # {}
    PROVE  \E n \in T : \A m \in T : n <= m
  <1> DEFINE R == OpToRel(<, Nat)
  <1>1. IsWellFoundedOn(R, Nat)
    BY NatLessThanWellFounded, Zenon
  <1>2. \A m, n \in Nat : m < n => <<m, n>> \in R
    BY Zenon DEF OpToRel
  <1> HIDE DEF R
  <1>3. PICK n \in T : \A m \in T : ~(<<m, n>> \in R)
    BY <1>1, WFMin
  <1>4. \A m \in T : n <= m
    <2> TAKE m \in T
    <2>1. m \in Nat /\ n \in Nat  OBVIOUS
    <2>2. ~(m < n)  BY <1>2, <1>3, <2>1
    <2> QED BY <2>1, <2>2
  <1> QED BY <1>4

-----------------------------------------------------------------------------
(***************************************************************************)
(* The bytes read.  The total of a sequence of reads is a recursive        *)
(* function; that one exists, and that appending a read to the sequence    *)
(* leaves the totals before it alone, is shown by the least length that    *)
(* would be an exception.                                                  *)
(***************************************************************************)
LEMMA TotalsUnfold ==
    ASSUME NEW rs, Len(rs) \in Nat
    PROVE  /\ Totals(rs)[0] = 0
           /\ \A n \in 1..Len(rs) : Totals(rs)[n] = Totals(rs)[n - 1] + rs[n].length
  <1> DEFINE Unfolds(f, k) ==
        f = [n \in 0..k |-> IF n = 0 THEN 0 ELSE f[n - 1] + rs[n].length]
  <1>1. \A k \in Nat : \E f : Unfolds(f, k)
    <2> DEFINE T == {k \in Nat : ~\E f : Unfolds(f, k)}
    <2> SUFFICES ASSUME T # {} PROVE FALSE
      OBVIOUS
    <2>1. PICK k \in T : \A m \in T : k <= m
      <3> HIDE DEF Unfolds
      <3> QED BY LeastElement
    <2>2. CASE k = 0
      <3> DEFINE g == [n \in 0..0 |-> 0]
      <3>1. \A n \in 0..0 : g[n] = IF n = 0 THEN 0 ELSE g[n - 1] + rs[n].length
        OBVIOUS
      <3>2. Unfolds(g, k)
        BY <2>2, <3>1
      <3> HIDE DEF Unfolds
      <3> QED BY <3>2
    <2>3. CASE k # 0
      <3>1. k - 1 \in Nat /\ k - 1 \notin T
        <4> HIDE DEF Unfolds
        <4>1. k \in Nat /\ k - 1 \in Nat
          BY <2>3
        <4>2. ~(k <= k - 1)
          BY <4>1
        <4> QED BY <2>1, <4>1, <4>2
      <3>2. PICK f : Unfolds(f, k - 1)
        <4> HIDE DEF Unfolds
        <4> QED BY <3>1
      <3> DEFINE g == [n \in 0..k |-> IF n = k THEN f[k - 1] + rs[k].length ELSE f[n]]
      <3>3. \A n \in 0..k - 1 : g[n] = f[n]
        BY <3>1
      <3>4. \A n \in 0..k : g[n] = IF n = 0 THEN 0 ELSE g[n - 1] + rs[n].length
        <4> TAKE n \in 0..k
        <4>1. CASE n = k
          <5>1. g[k - 1] = f[k - 1]
            BY <3>1, <3>3
          <5> QED BY <2>3, <4>1, <5>1
        <4>2. CASE n # k /\ n # 0
          <5>1. n \in 0..k - 1 /\ n - 1 \in 0..k - 1
            BY <4>2
          <5>2. f[n] = f[n - 1] + rs[n].length
            BY <3>2, <4>2, <5>1
          <5> QED BY <3>3, <4>2, <5>1, <5>2
        <4>3. CASE n = 0 /\ n # k
          BY <3>1, <3>2, <3>3, <4>3
        <4> QED BY <4>1, <4>2, <4>3
      <3>5. Unfolds(g, k)
        BY <3>4
      <3> HIDE DEF Unfolds
      <3> QED BY <3>5
    <2> QED BY <2>2, <2>3
  <1>2. PICK f : Unfolds(f, Len(rs))
    BY <1>1
  <1>3. Unfolds(Totals(rs), Len(rs))
    <2>1. Totals(rs) = CHOOSE g : Unfolds(g, Len(rs))
      BY DEF Totals
    <2> HIDE DEF Unfolds
    <2> QED BY <1>2, <2>1
  <1> DEFINE F == Totals(rs)
  <1>4. \A n \in 0..Len(rs) : F[n] = IF n = 0 THEN 0 ELSE F[n - 1] + rs[n].length
    <2> HIDE DEF F
    <2>1. Unfolds(F, Len(rs))
      BY <1>3 DEF F
    <2> QED BY <2>1
  <1>5. F[0] = 0 /\ \A n \in 1..Len(rs) : F[n] = F[n - 1] + rs[n].length
    BY <1>4
  <1> QED BY <1>5

LEMMA TotalsAppend ==
    ASSUME NEW S, NEW rs \in Seq(S), NEW r \in S
    PROVE  Totals(Append(rs, r))[Len(Append(rs, r))] = Totals(rs)[Len(rs)] + r.length
  <1> DEFINE longer == Append(rs, r)
  <1>1. /\ longer \in Seq(S) /\ Len(longer) = Len(rs) + 1 /\ Len(rs) \in Nat
        /\ longer[Len(rs) + 1] = r
        /\ \A i \in 1..Len(rs) : longer[i] = rs[i]
    OBVIOUS
  <1> HIDE DEF longer
  <1>2. \A n \in 0..Len(rs) : Totals(longer)[n] = Totals(rs)[n]
    <2> DEFINE T == {n \in 0..Len(rs) : Totals(longer)[n] # Totals(rs)[n]}
    <2> SUFFICES ASSUME T # {} PROVE FALSE
      OBVIOUS
    <2>1. PICK n \in T : \A m \in T : n <= m
      <3>1. T \in SUBSET Nat
        BY <1>1
      <3> HIDE DEF T
      <3> QED BY <3>1, LeastElement
    <2>2. Totals(longer)[0] = 0 /\ Totals(rs)[0] = 0
      BY <1>1, TotalsUnfold
    <2>3. n \in 1..Len(rs) /\ n \in 1..Len(longer) /\ n - 1 \in 0..Len(rs) /\ ~(n <= n - 1)
      BY <1>1, <2>2
    <2>4. Totals(longer)[n - 1] = Totals(rs)[n - 1]
      BY <2>1, <2>3
    <2>5. /\ Totals(longer)[n] = Totals(longer)[n - 1] + longer[n].length
          /\ Totals(rs)[n] = Totals(rs)[n - 1] + rs[n].length
      BY <1>1, <2>3, TotalsUnfold
    <2> QED BY <1>1, <2>3, <2>4, <2>5
  <1>3. Totals(longer)[Len(rs) + 1] = Totals(longer)[Len(rs)] + r.length
    <2>1. Len(rs) + 1 \in 1..Len(longer) /\ (Len(rs) + 1) - 1 = Len(rs)
      BY <1>1
    <2> QED BY <1>1, <2>1, TotalsUnfold
  <1>4. Totals(longer)[Len(longer)] = Totals(rs)[Len(rs)] + r.length
    BY <1>1, <1>2, <1>3
  <1> QED BY <1>4 DEF longer

\* Up to the read that fails, the count is the total asked for.
Counted == phase # "returned" \/ result = "ok" => catalog.bytes_read = ReadTotal

LEMMA CountedStep ==
    ASSUME TypeOK, Counted, phase # "returned", [Next]_vars
    PROVE  Counted'
  <1> DEFINE Read == [what : {"descriptor", "directory"}, offset : Nat, length : Nat]
  <1>t. catalog \in Catalog /\ reads \in Seq(Read)
    BY DEF TypeOK
  <1>a. ASSUME NEW r \in Read, reads' = Append(reads, r),
               catalog'.bytes_read = catalog.bytes_read + r.length
        PROVE  Counted'
    <2>1. ReadTotal' = ReadTotal + r.length
      <3> HIDE DEF Read
      <3> QED BY <1>t, <1>a, TotalsAppend DEF ReadTotal
    <2> QED BY <1>a, <2>1 DEF Counted
  <1>1. CASE ReadDescriptor
    <2>1. PICK r : r = [what |-> "descriptor", offset |-> DescriptorOffset,
                        length |-> DescriptorBytes]
      OBVIOUS
    <2>2. r \in Read
      BY <1>1, <2>1, ConstantsAssumption
         DEF ReadDescriptor, MoreDescriptors, DescriptorOffset, TypeOK
    <2>3. reads' = Append(reads, r) /\ r.length = DescriptorBytes
      BY <1>1, <2>1 DEF ReadDescriptor, Ask
    <2>4. catalog'.bytes_read = catalog.bytes_read + DescriptorBytes
      BY <1>1, <1>t DEF ReadDescriptor, Catalog
    <2> QED BY <1>a, <2>2, <2>3, <2>4
  <1>2. CASE ReadDirectory
    <2>1. Head(pending) \in Location
      BY <1>2 DEF ReadDirectory, Popped, TypeOK
    <2>2. PICK r : r = [what |-> "directory", offset |-> Head(pending).extent.offset,
                        length |-> Head(pending).extent.length]
      OBVIOUS
    <2>3. r \in Read
      BY <2>1, <2>2 DEF Location, Extent
    <2>4. reads' = Append(reads, r) /\ r.length = Head(pending).extent.length
      BY <1>2, <2>2 DEF ReadDirectory, Ask
    <2>5. catalog'.bytes_read = catalog.bytes_read + Head(pending).extent.length
      BY <1>2, <1>t DEF ReadDirectory, Catalog
    <2> QED BY <1>a, <2>3, <2>4, <2>5
  <1>3. CASE DescriptorReadFails \/ DirectoryReadFails
    BY <1>3 DEF DescriptorReadFails, DirectoryReadFails, Fail, Counted
  <1>4. ASSUME ~ReadDescriptor, ~ReadDirectory, ~DescriptorReadFails, ~DirectoryReadFails
        PROVE  reads' = reads /\ catalog'.bytes_read = catalog.bytes_read
    BY <1>4, <1>t DEF Next, vars, RejectConfig, AcceptConfig, Scan, CancelScan,
         DescriptorOutsideSource, NoTerminator,
         RejectVolume, SelectVolume, Walk, ReturnCatalog, CancelWalk, StopAtLimit,
         SkipVisited, Records, SkipPadding,
         StopAtTruncated, SkipSelfOrParent, RejectRecord, Rejected, ListFile, ListTooDeep,
         ListOversize, ListDirectory, EndOfDirectory, ReportProgress, Returned,
         List, Oversize, Return, Fail, EmptyCatalog, Catalog
  <1>5. CASE reads' = reads /\ catalog'.bytes_read = catalog.bytes_read
    BY <1>5 DEF Counted, ReadTotal
  <1> QED BY <1>1, <1>2, <1>3, <1>4, <1>5

\* What catalog_iso reports as read is what it asked for, whenever it succeeds.
THEOREM BytesAreAccounted == Spec => []BytesReadAccounted
  <1>1. Init => Counted
    <2> SUFFICES ASSUME Init PROVE Counted
      OBVIOUS
    <2>1. Len(<<>>) = 0
      OBVIOUS
    <2>2. reads = <<>> /\ catalog.bytes_read = 0
      BY DEF Init, EmptyCatalog
    <2> QED BY <2>1, <2>2, TotalsUnfold DEF Counted, ReadTotal
  <1>2. TypeOK /\ Counted /\ [Next]_vars => Counted'
    <2> SUFFICES ASSUME TypeOK, Counted, [Next]_vars PROVE Counted'
      OBVIOUS
    <2>1. CASE phase = "returned"
      <3>1. UNCHANGED vars
        BY <2>1 DEF Next, vars, RejectConfig, AcceptConfig, Scan, CancelScan,
           DescriptorOutsideSource, DescriptorReadFails, ReadDescriptor, NoTerminator,
           RejectVolume, SelectVolume, MoreDescriptors, Walk, ReturnCatalog, CancelWalk,
           StopAtLimit, SkipVisited, DirectoryReadFails, ReadDirectory, Popped, Records,
           SkipPadding, StopAtTruncated, SkipSelfOrParent, RejectRecord, Rejected, ListFile,
           ListTooDeep, ListOversize, ListDirectory, Listable, WholeRecord, AtRecord,
           EndOfDirectory, ReportProgress, Returned
      <3> QED BY <3>1 DEF vars, Counted, ReadTotal
    <2> QED BY <2>1, CountedStep
  <1>3. Counted => BytesReadAccounted
    BY DEF Counted, BytesReadAccounted
  <1> QED BY <1>1, <1>2, <1>3, TypeCorrect, PTL DEF Spec

-----------------------------------------------------------------------------
(* Blocks.                                                                 *)

\* A quotient is known by the two multiples it lies between.
LEMMA Quotient ==
    ASSUME NEW p \in Nat, NEW b \in Nat \ {0}, NEW k \in Nat, b * k <= p, p < b * k + b
    PROVE  p \div b = k
  <1>1. PICK q \in Nat : q = p \div b
    OBVIOUS
  <1>2. b * q <= p /\ p < b * q + b
    BY <1>1
  <1>3. ASSUME NEW i \in Nat, NEW j \in Nat, i < j, b * j <= p PROVE p >= b * i + b
    <2>1. PICK d \in Nat : j = i + 1 + d
      <3>1. j - i - 1 \in Nat /\ j = i + 1 + (j - i - 1)
        BY <1>3
      <3> QED BY <3>1
    <2>2. b * j = b * i + b + b * d /\ b * d >= 0
      BY <2>1
    <2>3. b * i \in Nat /\ b * d \in Nat /\ b * j \in Nat
      OBVIOUS
    <2> QED BY <1>3, <2>2, <2>3
  <1>4. b * q \in Nat /\ b * k \in Nat
    OBVIOUS
  <1>5. ~(q < k) /\ ~(k < q)
    BY <1>2, <1>3, <1>4
  <1> QED BY <1>1, <1>5

\* next_block either stays, at the start of a block, or goes to the next boundary.
LEMMA NextBlockValue ==
    ASSUME NEW p \in Nat, NEW b \in Nat \ {0}
    PROVE  /\ NextBlock(p, b) = p \/ NextBlock(p, b) = (p \div b + 1) * b
           /\ (p \div b + 1) * b \in Nat /\ (p \div b + 1) * b > p
  <1>1. PICK q \in Nat : q = p \div b
    OBVIOUS
  <1>2. b * q <= p /\ p < b * q + b /\ b * q \in Nat
    BY <1>1
  <1>3. (q + 1) * b = b * q + b /\ b * (q + 1) = b * q + b
    OBVIOUS
  <1>4. CASE p = b * q
    <2>1. b * q <= p + (b - 1) /\ p + (b - 1) < b * q + b /\ p + (b - 1) \in Nat
      BY <1>2, <1>4
    <2>2. (p + (b - 1)) \div b = q
      BY <2>1, Quotient
    <2>3. q * b = p
      BY <1>4
    <2> QED BY <1>1, <1>2, <1>3, <2>2, <2>3 DEF NextBlock
  <1>5. CASE p # b * q
    <2>1. /\ b * (q + 1) <= p + (b - 1) /\ p + (b - 1) < b * (q + 1) + b
          /\ p + (b - 1) \in Nat
      BY <1>2, <1>3, <1>5
    <2>2. (p + (b - 1)) \div b = q + 1
      BY <2>1, Quotient
    <2> QED BY <1>1, <1>2, <1>3, <2>2 DEF NextBlock
  <1> QED BY <1>4, <1>5

-----------------------------------------------------------------------------
(***************************************************************************)
(* Where the records of a directory start.  They form a chain: behind a    *)
(* record start the next one is After it, with none in between.            *)
(***************************************************************************)
LEMMA AfterType ==
    ASSUME NEW cells \in Seq(Cell), NEW b \in Nat \ {0}, NEW p \in 0..Len(cells) - 1
    PROVE  After(cells, b, p) \in Nat /\ After(cells, b, p) > p
  <1>1. p \in Nat /\ p + 1 \in 1..Len(cells)
    OBVIOUS
  <1>2. cells[p + 1].size \in Nat \ {0}
    <2>1. cells[p + 1] \in Cell
      BY <1>1
    <2> QED BY <2>1 DEF Cell
  <1>3. (p \div b + 1) * b \in Nat /\ (p \div b + 1) * b > p
    BY <1>1, NextBlockValue
  <1>4. p + cells[p + 1].size \in Nat /\ p + cells[p + 1].size > p
    BY <1>1, <1>2
  <1>5. After(cells, b, p) = (p \div b + 1) * b \/ After(cells, b, p) = p + cells[p + 1].size
    BY DEF After
  <1> QED BY <1>3, <1>4, <1>5

LEMMA StartsClosed ==
    ASSUME NEW cells \in Seq(Cell), NEW b \in Nat \ {0}
    PROVE  /\ RecordStarts(cells, b) \subseteq 0..Len(cells) - 1
           /\ StartsIn(cells, b, RecordStarts(cells, b))
           /\ \A positions \in SUBSET (0..Len(cells) - 1) :
                 StartsIn(cells, b, positions) => RecordStarts(cells, b) \subseteq positions
  <1>1. /\ RecordStarts(cells, b) \subseteq 0..Len(cells) - 1
        /\ \A positions \in SUBSET (0..Len(cells) - 1) :
              StartsIn(cells, b, positions) => RecordStarts(cells, b) \subseteq positions
    BY DEF RecordStarts
  <1>2. Len(cells) # 0 => 0 \in RecordStarts(cells, b)
    <2>1. Len(cells) # 0 => 0 \in 0..Len(cells) - 1
      OBVIOUS
    <2> QED BY <2>1 DEF RecordStarts, StartsIn
  <1>3. ASSUME NEW p \in RecordStarts(cells, b), After(cells, b, p) < Len(cells)
        PROVE  After(cells, b, p) \in RecordStarts(cells, b)
    <2>1. p \in 0..Len(cells) - 1
      BY <1>1
    <2>2. After(cells, b, p) \in 0..Len(cells) - 1
      BY <1>3, <2>1, AfterType
    <2>3. ASSUME NEW positions \in SUBSET (0..Len(cells) - 1), StartsIn(cells, b, positions)
          PROVE  After(cells, b, p) \in positions
      <3>1. p \in positions
        BY <1>1, <2>3
      <3> QED BY <1>3, <2>3, <3>1 DEF StartsIn
    <2> QED BY <2>2, <2>3 DEF RecordStarts
  <1> QED BY <1>1, <1>2, <1>3 DEF StartsIn

LEMMA StartsChain ==
    ASSUME NEW cells \in Seq(Cell), NEW b \in Nat \ {0}, NEW c \in RecordStarts(cells, b),
           \A p \in RecordStarts(cells, b) : p < c => After(cells, b, p) <= c
    PROVE  \A p \in RecordStarts(cells, b) :
              p < After(cells, b, c) => p <= c /\ After(cells, b, p) <= After(cells, b, c)
  <1>1. PICK n : n = After(cells, b, c)
    OBVIOUS
  <1>2. \A p \in RecordStarts(cells, b) :
           /\ p \in 0..Len(cells) - 1
           /\ After(cells, b, p) \in Nat /\ After(cells, b, p) > p
           /\ After(cells, b, p) < Len(cells) =>
                 After(cells, b, p) \in RecordStarts(cells, b)
    BY StartsClosed, AfterType DEF StartsIn
  <1>3. n \in Nat /\ n > c /\ c \in Nat
    BY <1>1, <1>2
  <1> DEFINE positions == {p \in RecordStarts(cells, b) : p <= c \/ p >= n}
  <1>4. StartsIn(cells, b, positions)
    <2>1. Len(cells) # 0 => 0 \in positions
      BY <1>3, StartsClosed DEF StartsIn
    <2>2. ASSUME NEW p \in positions, After(cells, b, p) < Len(cells)
          PROVE  After(cells, b, p) \in positions
      <3>1. /\ p \in Nat /\ After(cells, b, p) \in Nat /\ After(cells, b, p) > p
            /\ After(cells, b, p) \in RecordStarts(cells, b)
        BY <1>2, <2>2
      <3>2. CASE p < c
        BY <1>3, <3>1, <3>2
      <3>3. CASE p = c
        BY <1>1, <1>3, <3>1, <3>3
      <3>4. CASE p >= n
        BY <1>3, <3>1, <3>4
      <3> QED BY <1>3, <3>1, <3>2, <3>3, <3>4
    <2> HIDE DEF positions
    <2> QED BY <2>1, <2>2 DEF StartsIn
  <1>5. RecordStarts(cells, b) \subseteq positions
    BY <1>2, <1>4, StartsClosed
  <1>6. ASSUME NEW p \in RecordStarts(cells, b), p < n
        PROVE  p <= c /\ After(cells, b, p) <= n
    <2>1. p <= c /\ p \in Nat /\ After(cells, b, p) \in Nat
      BY <1>2, <1>3, <1>5, <1>6
    <2>2. CASE p < c
      BY <1>3, <2>1, <2>2
    <2>3. CASE p = c
      BY <1>1, <1>3, <2>3
    <2> QED BY <1>3, <2>1, <2>2, <2>3
  <1> QED BY <1>1, <1>6

-----------------------------------------------------------------------------
(***************************************************************************)
(* The reference tree, level by level.                                     *)
(***************************************************************************)
\* One level from the one above.
Below(directories, volume, level) ==
    UNION {Children(directories, volume, e) : e \in {e \in level : e.directory}}

\* The recursive definition of the tree has a solution.
LEMMA LevelsUnfold ==
    ASSUME NEW directories, NEW volume, NEW bottom \in Nat
    PROVE  LET L == Levels(directories, volume, bottom)
           IN  /\ L[0] = {Top(volume.root)}
               /\ \A d \in 1..bottom : L[d] = Below(directories, volume, L[d - 1])
  <1> DEFINE Unfolds(f, n) ==
        f = [d \in 0..n |-> IF d = 0 THEN {Top(volume.root)} ELSE Below(directories, volume, f[d - 1])]
  <1>1. \A n \in Nat : \E f : Unfolds(f, n)
    <2> DEFINE T == {n \in Nat : ~\E f : Unfolds(f, n)}
    <2> SUFFICES ASSUME T # {} PROVE FALSE
      OBVIOUS
    <2>1. PICK n \in T : \A m \in T : n <= m
      <3> HIDE DEF Unfolds
      <3> QED BY LeastElement
    <2>2. CASE n = 0
      <3> DEFINE g == [d \in 0..0 |-> {Top(volume.root)}]
      <3>1. \A d \in 0..0 : g[d] = IF d = 0 THEN {Top(volume.root)} ELSE Below(directories, volume, g[d - 1])
        OBVIOUS
      <3>2. Unfolds(g, n)
        BY <2>2, <3>1
      <3> HIDE DEF Unfolds
      <3> QED BY <3>2
    <2>3. CASE n # 0
      <3>1. n - 1 \in Nat /\ n - 1 \notin T
        <4> HIDE DEF Unfolds
        <4>1. n \in Nat /\ n - 1 \in Nat /\ n - 1 < n
          BY <2>3
        <4>2. ~(n <= n - 1)
          BY <4>1
        <4> QED BY <2>1, <4>1, <4>2
      <3>2. PICK f : Unfolds(f, n - 1)
        <4> HIDE DEF Unfolds
        <4> QED BY <3>1
      <3> DEFINE g == [d \in 0..n |-> IF d = n THEN Below(directories, volume, f[n - 1]) ELSE f[d]]
      <3>3. \A d \in 0..n - 1 : g[d] = f[d] 
        BY <3>1
      <3>4. \A d \in 0..n : g[d] = IF d = 0 THEN {Top(volume.root)} ELSE Below(directories, volume, g[d - 1])
        <4> TAKE d \in 0..n
        <4>1. CASE d = n
          <5>1. g[n - 1] = f[n - 1]
            BY <3>1, <3>3
          <5> QED BY <2>3, <4>1, <5>1
        <4>2. CASE d # n /\ d # 0
          <5>1. d \in 0..n - 1 /\ d - 1 \in 0..n - 1
            BY <4>2
          <5>2. f[d] = Below(directories, volume, f[d - 1])
            BY <3>2, <4>2, <5>1
          <5> QED BY <3>3, <4>2, <5>1, <5>2
        <4>3. CASE d = 0 /\ d # n
          BY <3>1, <3>2, <3>3, <4>3
        <4> QED BY <4>1, <4>2, <4>3
      <3>5. Unfolds(g, n)
        BY <3>4
      <3> HIDE DEF Unfolds
      <3> QED BY <3>5
    <2> QED BY <2>2, <2>3
  <1>2. PICK f : Unfolds(f, bottom)
    BY <1>1
  <1>3. Unfolds(Levels(directories, volume, bottom), bottom)
    <2>1. Levels(directories, volume, bottom) = CHOOSE g : Unfolds(g, bottom)
      BY DEF Levels, Below
    <2> HIDE DEF Unfolds
    <2> QED BY <1>2, <2>1
  <1> DEFINE L == Levels(directories, volume, bottom)
  <1>4. \A d \in 0..bottom : L[d] = IF d = 0 THEN {Top(volume.root)} ELSE Below(directories, volume, L[d - 1])
    <2> HIDE DEF L
    <2>1. Unfolds(L, bottom)
      BY <1>3 DEF L
    <2> QED BY <2>1
  <1>5. L[0] = {Top(volume.root)}
    BY <1>4
  <1>6. \A d \in 1..bottom : L[d] = Below(directories, volume, L[d - 1])
    BY <1>4
  <1> QED BY <1>5, <1>6

LEMMA VolumeType ==
    ASSUME TypeOK, catalog.volume # 0
    PROVE  /\ Volume \in Descriptor /\ config \in Config
           /\ Volume.block_bytes \in Nat \ {0} /\ Volume.root \in Extent
           /\ config.max_depth \in Nat
  <1>1. catalog.volume \in 1..Len(image.descriptors) /\ image.descriptors \in Seq(Descriptor)
    BY InputType DEF TypeOK
  <1>2. Volume \in Descriptor
    BY <1>1 DEF Volume
  <1> QED BY <1>2, InputType DEF Descriptor, Config

LEMMA ContentsType ==
    ASSUME TypeOK, NEW e \in Extent
    PROVE  /\ Contents(image.directories, e) \in Seq(Cell)
           /\ Len(Contents(image.directories, e)) = e.length
           /\ Cells(e) = Contents(image.directories, e)
  BY InputType DEF Cells

LEMMA TreeUnfold ==
    ASSUME TypeOK, catalog.volume # 0
    PROVE  /\ Tree[0] = {Top(Volume.root)}
           /\ \A d \in 1..config.max_depth + 1 :
                 Tree[d] = Below(image.directories, Volume, Tree[d - 1])
           /\ config.max_depth \in Nat
  <1>1. config.max_depth \in Nat /\ config.max_depth + 1 \in Nat
    BY VolumeType
  <1> QED BY <1>1, LevelsUnfold DEF Tree

\* The child of e that the record at p names, and whether there is one.
ChildAt(directories, volume, e, p) ==
    LET cell == Contents(directories, e.extent)[p + 1]
    IN  [path |-> Append(e.path, cell.name),
         extent |-> [offset |-> cell.block * volume.block_bytes, length |-> cell.length],
         directory |-> cell.directory, depth |-> Len(e.path) + 1]

NamesChild(directories, volume, e, p) ==
    LET cells == Contents(directories, e.extent)
    IN  /\ cells[p + 1].form = "ok"
        /\ p + cells[p + 1].size <= Len(cells)
        /\ Inside(ChildAt(directories, volume, e, p).extent, volume.volume_bytes)

StartsOf(directories, volume, e) ==
    RecordStarts(Contents(directories, e.extent), volume.block_bytes)

LEMMA ChildrenForm ==
    ASSUME NEW directories, NEW volume, NEW e
    PROVE  Children(directories, volume, e) =
               {ChildAt(directories, volume, e, p) :
                   p \in {p \in StartsOf(directories, volume, e) :
                             NamesChild(directories, volume, e, p)}}
  BY DEF Children, ChildAt, NamesChild, StartsOf

LEMMA ChildType ==
    ASSUME TypeOK, catalog.volume # 0, NEW e, e.path \in Seq(Name), e.extent \in Extent,
           NEW c \in Children(image.directories, Volume, e)
    PROVE  /\ c \in Entry /\ Len(c.path) = Len(e.path) + 1 /\ c.depth = Len(e.path) + 1
           /\ \E x \in Name : c.path = Append(e.path, x)
  <1>1. PICK p \in StartsOf(image.directories, Volume, e) :
           c = ChildAt(image.directories, Volume, e, p)
    BY ChildrenForm
  <1>2. PICK cells : cells = Contents(image.directories, e.extent)
    OBVIOUS
  <1>3. cells \in Seq(Cell)
    BY <1>2, ContentsType
  <1>4. p + 1 \in 1..Len(cells)
    <2>1. p \in 0..Len(cells) - 1
      BY <1>1, <1>2, <1>3, StartsClosed, VolumeType DEF StartsOf
    <2>2. Len(cells) \in Nat
      BY <1>3
    <2> QED BY <2>1, <2>2
  <1>5. PICK r : r = cells[p + 1]
    OBVIOUS
  <1>6. r \in Cell
    BY <1>3, <1>4, <1>5
  <1>7. r.name \in Name /\ r.block \in Nat /\ r.length \in Nat /\ r.directory \in BOOLEAN
    BY <1>6 DEF Cell
  <1>8. PICK x : x = [offset |-> r.block * Volume.block_bytes, length |-> r.length]
    OBVIOUS
  <1>9. x \in Extent
    BY <1>7, <1>8, VolumeType DEF Extent
  <1>10. c = [path |-> Append(e.path, r.name), extent |-> x,
              directory |-> r.directory, depth |-> Len(e.path) + 1]
    BY <1>1, <1>2, <1>5, <1>8 DEF ChildAt
  <1>11. Append(e.path, r.name) \in Seq(Name) /\ Len(e.path) + 1 \in Nat
         /\ Len(Append(e.path, r.name)) = Len(e.path) + 1
    BY <1>7
  <1> QED BY <1>7, <1>9, <1>10, <1>11 DEF Entry, Path

\* Depth is the length of the path, at every level.
LEMMA TreeType ==
    ASSUME TypeOK, catalog.volume # 0
    PROVE  \A d \in 0..config.max_depth + 1 : \A e \in Tree[d] :
              e \in Entry /\ Len(e.path) = d /\ e.depth = d
  <1> DEFINE Good(d) == \A e \in Tree[d] : e \in Entry /\ Len(e.path) = d /\ e.depth = d
             T == {d \in 0..config.max_depth + 1 : ~Good(d)}
  <1> SUFFICES ASSUME T # {} PROVE FALSE
    OBVIOUS
  <1>1. config.max_depth \in Nat
    BY TreeUnfold
  <1>2. PICK d \in T : \A m \in T : d <= m
    <2> HIDE DEF Good
    <2>1. T \in SUBSET Nat
      BY <1>1
    <2> QED BY <2>1, LeastElement
  <1>3. CASE d = 0
    <2>1. PICK root : root = Volume.root
      OBVIOUS
    <2>2. Top(root) \in Entry /\ Len(Top(root).path) = 0 /\ Top(root).depth = 0
      BY <2>1, VolumeType DEF Top, Entry, Path
    <2>3. Good(0)
      BY <2>1, <2>2, TreeUnfold
    <2> HIDE DEF Good
    <2> QED BY <1>2, <1>3, <2>3
  <1>4. CASE d # 0
    <2>1. d \in 1..config.max_depth + 1 /\ d - 1 \in 0..config.max_depth + 1 /\ d - 1 < d
      <3> HIDE DEF Good
      <3> QED BY <1>1, <1>4
    <2>2. Good(d - 1)
      <3> HIDE DEF Good
      <3>1. ~(d <= d - 1)
        BY <2>1
      <3> QED BY <1>2, <2>1, <3>1
    <2>3. ASSUME NEW c \in Tree[d] PROVE c \in Entry /\ Len(c.path) = d /\ c.depth = d
      <3>1. PICK e \in Tree[d - 1] : c \in Children(image.directories, Volume, e)
        BY <2>1, TreeUnfold DEF Below
      <3>2. e.path \in Seq(Name) /\ Len(e.path) = d - 1 /\ e.extent \in Extent
        BY <2>2, <3>1 DEF Entry, Path
      <3> QED BY <2>1, <3>1, <3>2, ChildType
    <2>4. Good(d)
      BY <2>3
    <2> HIDE DEF Good
    <2> QED BY <1>2, <2>4
  <1> QED BY <1>3, <1>4

LEMMA TreeChild ==
    ASSUME TypeOK, catalog.volume # 0, NEW d \in 0..config.max_depth, NEW e \in Tree[d],
           e.directory, NEW c \in Children(image.directories, Volume, e)
    PROVE  c \in Tree[d + 1]
  <1>1. d + 1 \in 1..config.max_depth + 1 /\ (d + 1) - 1 = d
    BY TreeUnfold
  <1>2. Tree[d + 1] = Below(image.directories, Volume, Tree[d])
    BY <1>1, TreeUnfold
  <1> HIDE DEF Tree
  <1> QED BY <1>2 DEF Below

LEMMA TreeFixed ==
    ASSUME UNCHANGED <<input, catalog.volume>>
    PROVE  /\ Tree' = Tree /\ Volume' = Volume /\ image' = image /\ config' = config
           /\ \A e : Cells(e)' = Cells(e)
  <1>1. image' = image /\ config' = config
    BY DEF image, config
  <1> QED BY <1>1 DEF Tree, Volume, Cells

-----------------------------------------------------------------------------
(***************************************************************************)
(* What the three loops leave alone.                                       *)
(***************************************************************************)
Walking == {"walk", "records", "progress"}

Scanning == RejectConfig \/ AcceptConfig \/ Scan

Listing == ListFile \/ ListTooDeep \/ ListOversize \/ ListDirectory

\* Before a volume is chosen there is nothing to walk, and nothing was visited.
Chosen == Unstarted /\ (catalog.volume = 0 => visited = {} /\ ~catalog.limit_reached)

LEMMA NextSplit == Next <=> Scanning \/ Walk \/ Records \/ Returned
  BY DEF Next, Scanning

LEMMA CatalogReport ==
    ASSUME NEW c \in Catalog, NEW issue \in Issue
    PROVE  LET d == [c EXCEPT !.issues = Append(@, issue)]
           IN  /\ d \in Catalog /\ d.issues = Append(c.issues, issue)
               /\ d.volume = c.volume /\ d.entries = c.entries
               /\ d.directories_read = c.directories_read
               /\ d.cancelled = c.cancelled /\ d.limit_reached = c.limit_reached
  <1>1. Append(c.issues, issue) \in Seq(Issue)
    BY CatalogFields
  <1> QED BY <1>1 DEF Catalog

LEMMA ScanFrame ==
    ASSUME TypeOK, Chosen, Scanning
    PROVE  /\ phase \notin Walking \cup {"returned"} /\ catalog.volume = 0
           /\ UNCHANGED <<input, visited, directory, cursor>>
           /\ visited = {} /\ pending = <<>> /\ catalog.entries = <<>>
           /\ phase' # "returned" => result' = result
           /\ \/ /\ SelectVolume /\ phase' = "walk" /\ result' = result
                 /\ catalog' = [catalog EXCEPT !.volume = Selected]
                 /\ Selected \in 1..Len(image.descriptors)
                 /\ catalog'.entries = <<>> /\ ~catalog'.limit_reached
                 /\ catalog'.volume = Selected
                 /\ Volume' = image.descriptors[Selected]
                 /\ pending' = <<[path |-> <<>>, extent |-> Volume'.root, depth |-> 0]>>
              \/ /\ catalog'.volume = 0 /\ pending' = <<>> /\ catalog'.entries = <<>>
                 /\ ~catalog'.limit_reached /\ phase' \notin Walking
                 /\ result' \in {result, "error"} \/ catalog'.cancelled
  <1>1. phase \in {"config", "descriptors", "select"}
    BY DEF Scanning, Scan, RejectConfig, AcceptConfig, CancelScan, DescriptorOutsideSource,
           DescriptorReadFails, ReadDescriptor, NoTerminator, RejectVolume, SelectVolume,
           MoreDescriptors
  <1>2. /\ phase \notin Walking \cup {"returned"} /\ catalog.volume = 0
        /\ visited = {} /\ pending = <<>> /\ catalog.entries = <<>> /\ ~catalog.limit_reached
    BY <1>1 DEF Chosen, Unstarted, Walking
  <1>3. UNCHANGED <<input, visited, directory, cursor>>
    BY DEF Scanning, Scan, RejectConfig, AcceptConfig, CancelScan, DescriptorOutsideSource,
           DescriptorReadFails, ReadDescriptor, NoTerminator, RejectVolume, SelectVolume, Fail
  <1>4. phase' # "returned" => result' = result
    BY DEF Scanning, Scan, RejectConfig, AcceptConfig, CancelScan, DescriptorOutsideSource,
           DescriptorReadFails, ReadDescriptor, NoTerminator, RejectVolume, SelectVolume,
           Fail, Return
  <1>c. catalog \in Catalog
    BY DEF TypeOK
  <1>5. CASE SelectVolume
    <2>1. Selected \in 1..Len(image.descriptors) /\ Selected \in Nat
      BY <1>5 DEF SelectVolume, Selected, TypeOK
    <2>2. /\ catalog' = [catalog EXCEPT !.volume = Selected] /\ image' = image
          /\ phase' = "walk" /\ result' = result
      BY <1>5 DEF SelectVolume, image
    <2>3. /\ catalog'.volume = Selected /\ catalog'.entries = catalog.entries
          /\ catalog'.limit_reached = catalog.limit_reached
      BY <1>c, <2>1, <2>2 DEF Catalog
    <2>4. Volume' = image.descriptors[Selected]
      BY <2>2, <2>3 DEF Volume
    <2>5. pending' = <<[path |-> <<>>, extent |-> Volume'.root, depth |-> 0]>>
      BY <1>5, <2>4 DEF SelectVolume
    <2> QED BY <1>2, <1>3, <1>4, <1>5, <2>1, <2>2, <2>3, <2>4, <2>5
  <1>6. CASE CancelScan
    BY <1>2, <1>3, <1>4, <1>6 DEF CancelScan, Return, EmptyCatalog, Walking
  <1>7. CASE ReadDescriptor
    <2>1. UNCHANGED <<catalog.volume, catalog.entries, catalog.limit_reached>>
      BY <1>c, <1>7 DEF ReadDescriptor, Catalog
    <2> QED BY <1>1, <1>2, <1>3, <1>4, <1>7, <2>1 DEF ReadDescriptor, Fail, Walking
  <1>8. CASE ~SelectVolume /\ ~CancelScan /\ ~ReadDescriptor
    BY <1>1, <1>2, <1>3, <1>4, <1>8
       DEF Scanning, Scan, RejectConfig, AcceptConfig, DescriptorOutsideSource,
           DescriptorReadFails, NoTerminator, RejectVolume, Fail, Walking
  <1> QED BY <1>5, <1>6, <1>7, <1>8

LEMMA WalkFrame ==
    ASSUME TypeOK, Chosen, Walk
    PROVE  /\ phase = "walk" /\ phase' \in {"walk", "records", "returned"}
           /\ UNCHANGED <<input, catalog.volume, catalog.entries>>
           /\ catalog.volume # 0
           /\ visited \subseteq visited'
           /\ \/ phase' # "records" /\ ~ReadDirectory
              \/ ReadDirectory /\ directory' = Head(pending) /\ cursor' = 0 /\ phase' = "records"
  <1>c. catalog \in Catalog
    BY DEF TypeOK
  <1>1. phase = "walk" /\ phase' \in {"walk", "records", "returned"} /\ visited \subseteq visited'
    BY DEF Walk, ReturnCatalog, CancelWalk, SkipVisited, StopAtLimit, DirectoryReadFails,
           ReadDirectory, Popped, Fail, Return
  <1>2. input' = input
    BY DEF Walk, ReturnCatalog, CancelWalk, SkipVisited, StopAtLimit, DirectoryReadFails,
           ReadDirectory, Popped, Fail, Return
  <1>3. UNCHANGED <<catalog.volume, catalog.entries>>
    BY <1>c DEF Walk, ReturnCatalog, CancelWalk, SkipVisited, StopAtLimit,
           DirectoryReadFails, ReadDirectory, Popped, Fail, Return, Catalog
  <1>4. catalog.volume # 0
    BY <1>1 DEF TypeOK
  <1>5. \/ phase' # "records" /\ ~ReadDirectory
        \/ ReadDirectory /\ directory' = Head(pending) /\ cursor' = 0 /\ phase' = "records"
    BY <1>1 DEF Walk, ReturnCatalog, CancelWalk, SkipVisited, StopAtLimit,
           DirectoryReadFails, ReadDirectory, Popped, Fail, Return
  <1> QED BY <1>1, <1>2, <1>3, <1>4, <1>5

\* How a step that pops moves the queue.
LEMMA PoppedQueue ==
    ASSUME TypeOK, Walk, ~ReturnCatalog
    PROVE  /\ Popped /\ pending \in Seq(Location) /\ 1 \in 1..Len(pending)
           /\ Head(pending) = pending[1] /\ Head(pending) \in Location
           /\ Head(pending).extent \in Extent
           /\ Len(pending') = Len(pending) - 1 /\ Len(pending) \in Nat
           /\ \A i \in 1..Len(pending') :
                 i + 1 \in 1..Len(pending) /\ pending'[i] = pending[i + 1]
  <1>1. Popped
    BY DEF Walk, CancelWalk, SkipVisited, StopAtLimit, DirectoryReadFails, ReadDirectory
  <1>2. pending \in Seq(Location) /\ pending # <<>> /\ pending' = Tail(pending)
    BY <1>1 DEF TypeOK, Popped
  <1>3. Head(pending) \in Location
    BY <1>2, HeadTailProperties
  <1>4. Head(pending).extent \in Extent
    BY <1>3 DEF Location
  <1> QED BY <1>1, <1>2, <1>3, <1>4

LEMMA ListFrame ==
    ASSUME TypeOK, Records
    PROVE  /\ phase \in {"records", "progress"} /\ phase' \in {"records", "progress", "walk", "returned"}
           /\ UNCHANGED <<input, visited, directory, catalog.volume, catalog.directories_read,
                          catalog.cancelled>>
           /\ catalog.volume # 0
           /\ phase' = "records" => phase = "records"
           /\ ~Listing => UNCHANGED <<pending, catalog.entries, catalog.limit_reached>>
  <1>c. catalog \in Catalog
    BY DEF TypeOK
  <1>1. /\ phase \in {"records", "progress"}
        /\ phase' \in {"records", "progress", "walk", "returned"}
        /\ phase' = "records" => phase = "records"
    BY DEF Records, SkipPadding, StopAtTruncated, SkipSelfOrParent, RejectRecord,
           Rejected, ListFile, ListTooDeep, ListOversize, ListDirectory, Listable,
           WholeRecord, AtRecord, List, EndOfDirectory, ReportProgress, Return
  <1>2. UNCHANGED <<input, visited, directory>>
    BY DEF Records, SkipPadding, StopAtTruncated, SkipSelfOrParent, RejectRecord,
           Rejected, ListFile, ListTooDeep, ListOversize, ListDirectory, EndOfDirectory,
           ReportProgress
  <1>3. UNCHANGED <<catalog.volume, catalog.directories_read, catalog.cancelled>>
    BY <1>c DEF Records, SkipPadding, StopAtTruncated, SkipSelfOrParent, RejectRecord,
           Rejected, ListFile, ListTooDeep, ListOversize, ListDirectory, List, Oversize,
           EndOfDirectory, ReportProgress, Return, Catalog
  <1>4. catalog.volume # 0
    BY <1>1 DEF TypeOK
  <1>5. ~Listing => UNCHANGED <<pending, catalog.entries, catalog.limit_reached>>
    BY <1>c DEF Records, SkipPadding, StopAtTruncated, SkipSelfOrParent, RejectRecord,
           Rejected, Listing, EndOfDirectory, ReportProgress, Return, Catalog
  <1> QED BY <1>1, <1>2, <1>3, <1>4, <1>5

\* What listing an entry does: a directory is queued last unless it is too deep, which
\* is a limit reached, or too large, which is an issue.
LEMMA ListStep ==
    ASSUME TypeOK, Listing
    PROVE  LET full == Len(catalog.entries) + 1 >= config.max_entries
               deep == Listed.directory /\ Listed.depth > config.max_depth
               large == Listed.extent.length > config.max_directory_bytes
               l == [path |-> Listed.path, extent |-> Listed.extent, depth |-> Listed.depth]
           IN  /\ phase = "records" /\ AtRecord /\ Listable
               /\ Listed \in Entry /\ l \in Location
               /\ catalog.entries \in Seq(Entry) /\ Len(catalog.entries) \in Nat
               /\ catalog'.entries = Append(catalog.entries, Listed)
               /\ Len(catalog'.entries) = Len(catalog.entries) + 1
               /\ catalog'.entries[Len(catalog.entries) + 1] = Listed
               /\ \A i \in 1..Len(catalog.entries) :
                     catalog'.entries[i] = catalog.entries[i]
               /\ catalog'.limit_reached = (catalog.limit_reached \/ full \/ deep)
               /\ cursor' = cursor + Here.size
               /\ phase' = IF full THEN "progress" ELSE "records"
               /\ IF Listed.directory /\ ~deep /\ ~large
                  THEN pending' = Append(pending, l) /\ l.depth <= config.max_depth
                  ELSE pending' = pending
               /\ catalog'.issues =
                     IF Listed.directory /\ ~deep /\ large
                     THEN Append(catalog.issues, [what |-> "oversize", path |-> Listed.path])
                     ELSE catalog.issues
  <1> DEFINE full == Len(catalog.entries) + 1 >= config.max_entries
             deep == Listed.directory /\ Listed.depth > config.max_depth
             large == Listed.extent.length > config.max_directory_bytes
             l == [path |-> Listed.path, extent |-> Listed.extent, depth |-> Listed.depth]
             issue == [what |-> "oversize", path |-> Listed.path]
  <1>1. Listable /\ AtRecord /\ phase = "records" /\ Listed \in Entry
    BY RecordType DEF Listing, ListFile, ListTooDeep, ListOversize, ListDirectory, Listable,
           WholeRecord, AtRecord
  <1>2. /\ l \in Location /\ issue \in Issue /\ Listed.depth \in Nat
        /\ config.max_depth \in Nat /\ config.max_directory_bytes \in Nat
        /\ Listed.extent.length \in Nat /\ Listed.directory \in BOOLEAN
    BY <1>1, InputType DEF Entry, Location, Extent, Config, Issue
  <1>3. catalog \in Catalog /\ catalog.entries \in Seq(Entry)
        /\ catalog.limit_reached \in BOOLEAN
    BY CatalogFields DEF TypeOK
  <1>h. Listed.directory = Here.directory /\ Listed.extent.length = Here.length
    BY DEF Listed
  <1>l. ASSUME NEW c \in Catalog, List(c), c.entries = catalog.entries
        PROVE  /\ catalog'.entries = Append(catalog.entries, Listed)
               /\ catalog'.limit_reached = (c.limit_reached \/ full)
               /\ catalog'.issues = c.issues
               /\ cursor' = cursor + Here.size
               /\ phase' = IF full THEN "progress" ELSE phase
    <2>1. (c.limit_reached \/ full) \in BOOLEAN /\ c.entries \in Seq(Entry)
      BY <1>l, CatalogFields
    <2>2. catalog' = [c EXCEPT !.entries = Append(@, Listed), !.limit_reached = @ \/ full]
      BY <1>l DEF List
    <2> HIDE DEF full
    <2>3. /\ catalog'.entries = Append(c.entries, Listed)
          /\ catalog'.limit_reached = (c.limit_reached \/ full)
          /\ catalog'.issues = c.issues
      BY <2>1, <2>2 DEF Catalog
    <2>4. cursor' = cursor + Here.size /\ phase' = IF full THEN "progress" ELSE phase
      BY <1>l DEF List, full
    <2> QED BY <1>l, <2>3, <2>4
  <1> DEFINE queues == Listed.directory /\ ~deep /\ ~large
             reports == Listed.directory /\ ~deep /\ large
  <1>4. /\ catalog'.entries = Append(catalog.entries, Listed)
        /\ catalog'.limit_reached = (catalog.limit_reached \/ full \/ deep)
        /\ cursor' = cursor + Here.size
        /\ phase' = IF full THEN "progress" ELSE "records"
        /\ pending' = IF queues THEN Append(pending, l) ELSE pending
        /\ catalog'.issues = IF reports THEN Append(catalog.issues, issue) ELSE catalog.issues
    <2>1. CASE ListFile
      <3>1. List(catalog) /\ ~Listed.directory /\ pending' = pending
        BY <1>h, <2>1 DEF ListFile
      <3> QED BY <1>1, <1>3, <1>l, <3>1
    <2>2. CASE ListTooDeep
      <3>1. PICK c : c = [catalog EXCEPT !.limit_reached = TRUE]
        OBVIOUS
      <3>2. c \in Catalog /\ c.entries = catalog.entries /\ c.limit_reached = TRUE
            /\ c.issues = catalog.issues
        BY <1>3, <3>1 DEF Catalog
      <3>3. List(c) /\ deep /\ pending' = pending
        BY <1>h, <2>2, <3>1 DEF ListTooDeep
      <3> HIDE DEF full
      <3> QED BY <1>1, <1>l, <3>2, <3>3
    <2>3. CASE ListOversize
      <3>1. PICK c : c = Oversize(catalog)
        OBVIOUS
      <3>2. /\ c \in Catalog /\ c.entries = catalog.entries
            /\ c.limit_reached = catalog.limit_reached
            /\ c.issues = Append(catalog.issues, issue)
        BY <1>2, <1>3, <3>1, CatalogReport DEF Oversize
      <3>3. List(c) /\ ~deep /\ large /\ Listed.directory /\ pending' = pending
        BY <1>2, <1>h, <2>3, <3>1 DEF ListOversize
      <3> HIDE DEF full, deep, large, issue
      <3> QED BY <1>1, <1>3, <1>l, <3>2, <3>3
    <2>4. CASE ListDirectory
      <3>1. List(catalog) /\ ~deep /\ ~large /\ Listed.directory /\ pending' = Append(pending, l)
        BY <1>2, <1>h, <2>4 DEF ListDirectory, QueuedLast
      <3> HIDE DEF full, deep, large, issue, l
      <3> QED BY <1>1, <1>3, <1>l, <3>1
    <2> QED BY <2>1, <2>2, <2>3, <2>4 DEF Listing
  <1>5. ~deep /\ Listed.directory => l.depth <= config.max_depth
    BY <1>2
  <1> HIDE DEF full, deep, large, l, issue
  <1>6. /\ Len(catalog'.entries) = Len(catalog.entries) + 1
        /\ catalog'.entries[Len(catalog.entries) + 1] = Listed
        /\ \A i \in 1..Len(catalog.entries) : catalog'.entries[i] = catalog.entries[i]
        /\ Len(catalog.entries) \in Nat
    BY <1>1, <1>3, <1>4
  <1> QED BY <1>1, <1>2, <1>3, <1>4, <1>5, <1>6 DEF full, deep, large, l, issue

-----------------------------------------------------------------------------
(***************************************************************************)
(* The listing and the reference tree.  OnRecord: the cursor stands on a   *)
(* record start and has skipped none.  InTree: what is queued, being read  *)
(* or listed is in the tree, at its depth.  Ordered: the queue never spans *)
(* more than two levels, so entries come level by level.  Parented: what   *)
(* is queued or being read, but for the root, was listed as a directory.   *)
(***************************************************************************)
\* A queued directory, as the tree has it.
AsEntry(l) == [path |-> l.path, extent |-> l.extent, directory |-> TRUE, depth |-> l.depth]

Underway == phase \in {"records", "progress"}

Starts == StartsOf(image.directories, Volume, directory)

OnRecord ==
    phase = "records" =>
        \/ cursor >= directory.extent.length
        \/ /\ cursor \in Starts
           /\ \A p \in Starts :
                 p < cursor =>
                     After(Cells(directory.extent), Volume.block_bytes, p) <= cursor

InTree ==
    catalog.volume # 0 =>
        /\ \A i \in 1..Len(pending) :
              pending[i].depth \in 0..config.max_depth
              /\ AsEntry(pending[i]) \in Tree[pending[i].depth]
        /\ Underway => /\ directory.depth \in 0..config.max_depth
                       /\ AsEntry(directory) \in Tree[directory.depth]
        /\ \A i \in 1..Len(catalog.entries) :
              catalog.entries[i].depth \in 1..config.max_depth + 1
              /\ catalog.entries[i] \in Tree[catalog.entries[i].depth]

\* Level n is being read: its directories and the next level's are queued.
Reading(n) ==
    /\ \A i \in 1..Len(pending) : pending[i].depth \in {n, n + 1}
    /\ \A i \in 1..Len(catalog.entries) : catalog.entries[i].depth <= n + 1
    /\ Underway => directory.depth = n

Ascending(s) == \A i \in 1..Len(s) : \A j \in 1..i : s[j].depth <= s[i].depth

Ordered ==
    /\ Ascending(pending)
    /\ Ascending(catalog.entries)
    /\ phase \in Walking => \E n \in 0..config.max_depth : Reading(n)

ListedBefore(l, n) ==
    \E j \in 1..n :
        /\ catalog.entries[j].directory
        /\ catalog.entries[j].path = l.path
        /\ catalog.entries[j].extent = l.extent

Parented ==
    /\ \A i \in 1..Len(catalog.entries) :
          \/ catalog.entries[i].depth = 1
          \/ \E j \in 1..i - 1 :
                /\ catalog.entries[j].directory
                /\ Append(catalog.entries[j].path,
                          catalog.entries[i].path[Len(catalog.entries[i].path)])
                       = catalog.entries[i].path
    /\ \A i \in 1..Len(pending) :
          pending[i].depth = 0 \/ ListedBefore(pending[i], Len(catalog.entries))
    /\ Underway => directory.depth = 0 \/ ListedBefore(directory, Len(catalog.entries))

\* The root is the first directory read, and waits alone.
Untouched ==
    IF visited = {} THEN Len(pending) <= 1 /\ ~Underway
    ELSE \A i \in 1..Len(pending) : pending[i].depth # 0

(***************************************************************************)
(* What is missing.  Accounted: for as long as no limit is reached, every  *)
(* directory known is waiting in the queue, or being read and accounted    *)
(* for up to the cursor, or settled for good.                              *)
(***************************************************************************)
Excused(p) == \E i \in 1..Len(catalog.issues) : Accounts(catalog.issues[i], p)

Found(e) == \E i \in 1..Len(catalog.entries) : catalog.entries[i] = e

Settled(q) ==
    Excused(q.path) \/ \A c \in Children(image.directories, Volume, q) : Found(c)

Waiting(q) ==
    \E i \in 1..Len(pending) : pending[i].path = q.path /\ pending[i].extent = q.extent

Scanned(q) ==
    /\ phase = "records"
    /\ directory.path = q.path /\ directory.extent = q.extent
    /\ \A p \in StartsOf(image.directories, Volume, q) :
          p < cursor /\ NamesChild(image.directories, Volume, q, p) =>
              Found(ChildAt(image.directories, Volume, q, p))

Folders ==
    {Top(Volume.root)}
    \cup {catalog.entries[i] : i \in {i \in 1..Len(catalog.entries) :
                                         catalog.entries[i].directory}}

Whole == result # "error" /\ ~catalog.cancelled /\ ~catalog.limit_reached

Accounted ==
    catalog.volume # 0 /\ Whole =>
        \A q \in Folders : Waiting(q) \/ Scanned(q) \/ Settled(q)

\* Only a limit ends the walk of a catalog that is not cancelled with directories
\* left in the queue.
Ended ==
    /\ phase # "returned" => result = "none"
    /\ result = "ok" /\ Whole => pending = <<>> /\ catalog.volume # 0
    /\ catalog.limit_reached =>
          \/ AtLimit
          \/ \E i \in 1..Len(catalog.entries) :
                catalog.entries[i].directory /\ catalog.entries[i].depth > config.max_depth

ListingInv ==
    /\ Chosen /\ OnRecord /\ InTree /\ Ordered /\ Parented /\ Untouched
    /\ Accounted /\ Ended

-----------------------------------------------------------------------------
LEMMA ChosenStep == ASSUME TypeOK, Chosen, [Next]_vars PROVE Chosen'
  <1>1. Unstarted'
    BY UnstartedStep DEF Chosen
  <1>2. CASE Scanning
    BY <1>1, <1>2, ScanFrame, InputType DEF Chosen
  <1>3. CASE Walk
    BY <1>1, <1>3, WalkFrame DEF Chosen
  <1>4. CASE Records
    BY <1>1, <1>4, ListFrame DEF Chosen
  <1>5. CASE Returned \/ UNCHANGED vars
    BY <1>1, <1>5 DEF Returned, vars, Chosen
  <1> QED BY <1>2, <1>3, <1>4, <1>5, NextSplit

\* The directory being read and its records.
LEMMA ReadingType ==
    ASSUME TypeOK, Underway
    PROVE  /\ directory.extent \in Extent /\ directory.extent.length \in Nat
           /\ catalog.volume # 0 /\ Volume.block_bytes \in Nat \ {0}
           /\ Cells(directory.extent) \in Seq(Cell)
           /\ Len(Cells(directory.extent)) = directory.extent.length
           /\ Starts = RecordStarts(Cells(directory.extent), Volume.block_bytes)
           /\ cursor \in Nat
           /\ \A p \in Starts : p \in 0..directory.extent.length - 1
  <1>1. directory.extent \in Extent /\ directory.extent.length \in Nat /\ cursor \in Nat
    BY DEF TypeOK, Location, Extent
  <1>2. catalog.volume # 0
    BY DEF TypeOK, Underway
  <1>3. /\ Cells(directory.extent) \in Seq(Cell)
        /\ Len(Cells(directory.extent)) = directory.extent.length
    BY <1>1, InputType
  <1>4. Volume.block_bytes \in Nat \ {0}
    BY <1>2, VolumeType
  <1>5. Starts = RecordStarts(Cells(directory.extent), Volume.block_bytes)
    BY DEF Starts, StartsOf, Cells
  <1> QED BY <1>1, <1>2, <1>3, <1>4, <1>5, StartsClosed

\* Where the cursor goes from a record start: to the one after it, to the end of the
\* directory, or, at padding that begins a block, nowhere.
LEMMA CursorStep ==
    ASSUME TypeOK, OnRecord, Records, phase = "records", phase' = "records"
    PROVE  /\ cursor \in Starts /\ AtRecord
           /\ \/ cursor' = cursor
              \/ cursor' = After(Cells(directory.extent), Volume.block_bytes, cursor)
              \/ /\ cursor' = directory.extent.length
                 /\ After(Cells(directory.extent), Volume.block_bytes, cursor) >= cursor'
  <1>r. /\ directory.extent.length \in Nat /\ cursor \in Nat
        /\ Volume.block_bytes \in Nat \ {0}
    BY ReadingType DEF Underway
  <1>1. /\ AtRecord
        /\ SkipPadding \/ (Here.form # "zero" /\ ~Truncated /\ cursor' = cursor + Here.size)
    BY DEF Records, SkipPadding, StopAtTruncated, SkipSelfOrParent, RejectRecord,
           Rejected, ListFile, ListTooDeep, ListOversize, ListDirectory, Listable,
           WholeRecord, AtRecord, List, EndOfDirectory, ReportProgress, Return
  <1>2. cursor \in Starts
    BY <1>1, <1>r DEF OnRecord, AtRecord
  <1>3. PICK next : next = After(Cells(directory.extent), Volume.block_bytes, cursor)
    OBVIOUS
  <1>4. CASE SkipPadding
    <2>1. next = (cursor \div Volume.block_bytes + 1) * Volume.block_bytes
      BY <1>3, <1>4 DEF SkipPadding, Here, After
    <2>2. next \in Nat /\ NextBlock(cursor, Volume.block_bytes) \in {cursor, next}
      BY <1>r, <2>1, NextBlockValue
    <2>3. cursor' = Least(NextBlock(cursor, Volume.block_bytes), directory.extent.length)
      BY <1>4 DEF SkipPadding
    <2>4. cursor < directory.extent.length
      BY <1>1 DEF AtRecord
    <2> QED BY <1>1, <1>2, <1>3, <1>r, <2>2, <2>3, <2>4 DEF Least
  <1>5. CASE Here.form # "zero" /\ ~Truncated /\ cursor' = cursor + Here.size
    <2>1. cursor' = next
      BY <1>3, <1>5 DEF Truncated, Here, After
    <2> QED BY <1>1, <1>2, <1>3, <2>1
  <1> QED BY <1>1, <1>4, <1>5

LEMMA OnRecordStep ==
    ASSUME TypeOK, Chosen, OnRecord, [Next]_vars
    PROVE  OnRecord'
  <1> SUFFICES ASSUME phase' = "records" PROVE OnRecord'
    BY DEF OnRecord
  <1>1. CASE Scanning
    BY <1>1, ScanFrame DEF Walking
  <1>2. CASE Walk
    <2>1. ReadDirectory /\ directory' = Head(pending) /\ cursor' = 0
          /\ UNCHANGED <<input, catalog.volume>> /\ catalog.volume # 0
      BY <1>2, WalkFrame
    <2>2. Head(pending).extent \in Extent
      BY <1>2, <2>1, PoppedQueue DEF ReadDirectory, ReturnCatalog, Popped
    <2>3. PICK e \in Extent : e = Head(pending).extent
      BY <2>2
    <2>4. PICK cells : cells = Cells(e)
      OBVIOUS
    <2>5. cells \in Seq(Cell) /\ Len(cells) = e.length /\ e.length \in Nat
      <3>1. e.length \in Nat
        BY DEF Extent
      <3> QED BY <2>4, <3>1, InputType
    <2>6. directory'.extent = e /\ image' = image /\ Volume' = Volume
          /\ Cells(directory.extent)' = cells
      <3>1. directory'.extent = e /\ image' = image /\ Volume' = Volume
        BY <2>1, <2>3, TreeFixed
      <3> QED BY <2>4, <3>1 DEF Cells
    <2>7. Volume.block_bytes \in Nat \ {0}
      BY <2>1, VolumeType
    <2>8. Starts' = RecordStarts(cells, Volume.block_bytes)
      BY <2>6 DEF Starts, StartsOf, Cells
    <2>9. e.length # 0 => 0 \in Starts'
      BY <2>5, <2>7, <2>8, StartsClosed DEF StartsIn
    <2>10. \A p \in Starts' : ~(p < 0)
      BY <2>5, <2>7, <2>8, StartsClosed
    <2> QED BY <2>1, <2>5, <2>6, <2>9, <2>10 DEF OnRecord
  <1>3. CASE Records
    <2>1. /\ phase = "records" /\ UNCHANGED <<input, catalog.volume, directory>>
          /\ Volume' = Volume /\ image' = image
      BY <1>3, ListFrame, TreeFixed
    <2>2. /\ directory.extent.length \in Nat /\ cursor \in Nat
          /\ Volume.block_bytes \in Nat \ {0}
      BY <2>1, ReadingType DEF Underway
    <2>3. PICK cells \in Seq(Cell) :
             /\ cells = Cells(directory.extent) /\ Len(cells) = directory.extent.length
             /\ Starts = RecordStarts(cells, Volume.block_bytes)
      BY <2>1, ReadingType DEF Underway
    <2>4. Cells(directory.extent)' = cells /\ Starts' = Starts
      BY <2>1, <2>3, TreeFixed DEF Starts, Cells
    <2>5. /\ cursor \in Starts /\ AtRecord
          /\ \/ cursor' = cursor
             \/ cursor' = After(cells, Volume.block_bytes, cursor)
             \/ cursor' = directory.extent.length
      BY <1>3, <2>1, <2>3, CursorStep
    <2>6. CASE cursor' = cursor
      BY <2>1, <2>3, <2>4, <2>6 DEF OnRecord
    <2>7. CASE cursor' = directory.extent.length
      BY <2>1, <2>2, <2>7 DEF OnRecord
    <2>8. CASE cursor' = After(cells, Volume.block_bytes, cursor) /\ cursor' # cursor
      <3>1. \A p \in Starts : p < cursor => After(cells, Volume.block_bytes, p) <= cursor
        BY <2>1, <2>2, <2>3, <2>5 DEF OnRecord, AtRecord
      <3>2. \A p \in Starts : p < cursor' => After(cells, Volume.block_bytes, p) <= cursor'
        BY <2>2, <2>3, <2>5, <2>8, <3>1, StartsChain
      <3>3. cursor' \in Nat /\ (cursor' < directory.extent.length => cursor' \in Starts)
        BY <2>2, <2>3, <2>5, <2>8, StartsClosed, AfterType DEF StartsIn
      <3>4. cursor' >= directory.extent.length \/ cursor' \in Starts
        BY <2>2, <3>3
      <3> QED BY <2>1, <2>4, <3>2, <3>4 DEF OnRecord
    <2> QED BY <2>5, <2>6, <2>7, <2>8
  <1>4. CASE Returned \/ UNCHANGED vars
    <2>1. UNCHANGED <<input, catalog, phase, directory, cursor>>
      BY <1>4 DEF Returned, vars
    <2>2. Volume' = Volume /\ image' = image
      BY <2>1, TreeFixed
    <2>3. Starts' = Starts /\ Cells(directory.extent)' = Cells(directory.extent)
      BY <2>1, <2>2 DEF Starts, Cells
    <2> QED BY <2>1, <2>2, <2>3 DEF OnRecord
  <1> QED BY <1>1, <1>2, <1>3, <1>4, NextSplit

\* The record at the cursor names a child of the directory exactly when it is listed,
\* and then the entry listed is that child.
LEMMA ListedChild ==
    ASSUME TypeOK, OnRecord, InTree, Listing
    PROVE  /\ Listed = ChildAt(image.directories, Volume, AsEntry(directory), cursor)
           /\ Listed \in Tree[directory.depth + 1]
           /\ Listed.depth = directory.depth + 1
           /\ directory.depth \in 0..config.max_depth
           /\ Len(directory.path) = directory.depth
           /\ Listed.path = Append(directory.path, Here.name)
  <1>1. AtRecord /\ Listable /\ phase = "records" /\ Underway
    BY ListStep DEF Underway
  <1>2. /\ catalog.volume # 0 /\ cursor < directory.extent.length /\ cursor \in Starts
        /\ directory.extent.length \in Nat /\ cursor \in Nat
    BY <1>1, ReadingType DEF OnRecord, AtRecord
  <1>3. directory.depth \in 0..config.max_depth /\ AsEntry(directory) \in Tree[directory.depth]
    BY <1>1, <1>2 DEF InTree
  <1>4. AsEntry(directory).path = directory.path /\ AsEntry(directory).directory = TRUE
        /\ AsEntry(directory).extent = directory.extent
    BY DEF AsEntry
  <1>5. Len(directory.path) = directory.depth
    <2>1. directory.depth \in 0..config.max_depth + 1
      BY <1>2, <1>3, TreeUnfold
    <2> QED BY <1>2, <1>3, <1>4, <2>1, TreeType
  <1>6. /\ Here = Contents(image.directories, AsEntry(directory).extent)[cursor + 1]
        /\ Cells(directory.extent) = Contents(image.directories, AsEntry(directory).extent)
        /\ Len(Cells(directory.extent)) = directory.extent.length
        /\ Starts = StartsOf(image.directories, Volume, AsEntry(directory))
    BY <1>1, <1>4, ReadingType DEF Here, Cells, Starts, StartsOf
  <1>7. Listed = ChildAt(image.directories, Volume, AsEntry(directory), cursor)
    BY <1>4, <1>5, <1>6 DEF Listed, ChildAt
  <1>8. /\ Here.form = "ok" /\ Inside(Listed.extent, Volume.volume_bytes)
        /\ cursor + Here.size <= directory.extent.length
    <2>1. Here \in Cell
      BY <1>1, RecordType
    <2>2. Here.size \in Nat
      BY <2>1 DEF Cell
    <2> QED BY <1>1, <1>2, <2>2 DEF Listable, Verdict, WholeRecord, Truncated
  <1>9. NamesChild(image.directories, Volume, AsEntry(directory), cursor)
    BY <1>6, <1>7, <1>8 DEF NamesChild
  <1>10. Listed \in Children(image.directories, Volume, AsEntry(directory))
    BY <1>2, <1>6, <1>7, <1>9, ChildrenForm
  <1>11. Listed \in Tree[directory.depth + 1]
    BY <1>2, <1>3, <1>4, <1>10, TreeChild
  <1> QED BY <1>3, <1>5, <1>7, <1>11 DEF Listed

LEMMA InTreeStep ==
    ASSUME TypeOK, Chosen, OnRecord, InTree, [Next]_vars
    PROVE  InTree'
  <1>1. CASE Scanning
    <2>1. CASE catalog'.volume = 0
      BY <2>1 DEF InTree
    <2>2. CASE /\ phase' = "walk" /\ catalog'.entries = <<>>
               /\ Volume' = image.descriptors[Selected]
               /\ pending' = <<[path |-> <<>>, extent |-> Volume'.root, depth |-> 0]>>
      <3>1. PICK v : v = image.descriptors[Selected]
        OBVIOUS
      <3>2. PICK l : l = [path |-> <<>>, extent |-> v.root, depth |-> 0]
        OBVIOUS
      <3>3. PICK T : T = Levels(image.directories, v, config.max_depth + 1)
        OBVIOUS
      <3>4. config.max_depth \in Nat /\ config.max_depth + 1 \in Nat
        BY InputType DEF Config
      <3>5. T[0] = {Top(v.root)}
        BY <3>3, <3>4, LevelsUnfold
      <3>6. image' = image /\ config' = config
        BY <1>1, ScanFrame DEF image, config
      <3>7. Tree' = T
        BY <2>2, <3>1, <3>3, <3>6 DEF Tree
      <3>8. pending' = <<l>> /\ l.depth = 0 /\ AsEntry(l) = Top(v.root)
        BY <2>2, <3>1, <3>2 DEF AsEntry, Top
      <3> HIDE DEF Tree
      <3>9. \A i \in 1..Len(pending') :
               /\ pending'[i].depth \in 0..config.max_depth
               /\ AsEntry(pending'[i]) \in T[pending'[i].depth]
        <4>1. Len(pending') = 1 /\ pending'[1] = l
          BY <3>8
        <4> QED BY <3>4, <3>5, <3>8, <4>1
      <3>10. Len(catalog'.entries) = 0 /\ ~Underway'
        BY <2>2 DEF Underway
      <3> QED BY <3>6, <3>7, <3>9, <3>10 DEF InTree, AsEntry
    <2> QED BY <1>1, <2>1, <2>2, ScanFrame
  <1>2. CASE Walk
    <2>1. /\ catalog.volume # 0 /\ catalog'.entries = catalog.entries
          /\ Tree' = Tree /\ config' = config
      BY <1>2, WalkFrame, TreeFixed 
    <2> HIDE DEF Tree
    <2>2. /\ \A i \in 1..Len(pending') :
                /\ pending'[i].depth \in 0..config.max_depth
                /\ AsEntry(pending'[i]) \in Tree[pending'[i].depth]
          /\ Underway' => /\ directory'.depth \in 0..config.max_depth
                          /\ AsEntry(directory') \in Tree[directory'.depth]
      <3>1. CASE ReturnCatalog
        BY <1>2, <2>1, <3>1, WalkFrame DEF ReturnCatalog, Return, InTree, Underway
      <3>2. CASE ~ReturnCatalog
        BY <1>2, <2>1, <3>2, PoppedQueue, WalkFrame DEF InTree, Underway
      <3> QED BY <3>1, <3>2
    <2> QED BY <2>1, <2>2 DEF InTree, AsEntry
  <1>3. CASE Records
    <2>1. /\ catalog.volume # 0 /\ Tree' = Tree /\ config' = config
          /\ directory' = directory /\ Underway
      BY <1>3, ListFrame, TreeFixed DEF Underway
    <2>2. CASE ~Listing
      <3>1. pending' = pending /\ catalog'.entries = catalog.entries
        BY <1>3, <2>2, ListFrame
      <3> HIDE DEF Tree
      <3> QED BY <2>1, <3>1 DEF InTree, AsEntry
    <2>3. CASE Listing
      <3> DEFINE l == [path |-> Listed.path, extent |-> Listed.extent, depth |-> Listed.depth]
      <3>1. /\ Listed \in Tree[Listed.depth] /\ Listed \in Entry
            /\ Listed.depth \in 1..config.max_depth + 1
        <4>1. config.max_depth \in Nat
          BY InputType DEF Config
        <4> HIDE DEF Tree
        <4> QED BY <2>3, <4>1, ListedChild, ListStep
      <3>2. Listed.directory => AsEntry(l) = Listed
        <4>1. Listed.directory \in BOOLEAN
          BY <3>1 DEF Entry
        <4> QED BY <4>1 DEF AsEntry, Listed
      <3>3. ASSUME NEW i \in 1..Len(catalog'.entries)
            PROVE  /\ catalog'.entries[i].depth \in 1..config.max_depth + 1
                   /\ catalog'.entries[i] \in Tree[catalog'.entries[i].depth]
        <4>1. Len(catalog.entries) \in Nat
          BY CatalogFields DEF TypeOK
        <4>2. i = Len(catalog.entries) + 1 \/ i \in 1..Len(catalog.entries)
          BY <2>3, <4>1, ListStep
        <4> HIDE DEF Tree
        <4> QED BY <2>1, <2>3, <3>1, <4>2, ListStep DEF InTree
      <3>4. ASSUME NEW i \in 1..Len(pending')
            PROVE  /\ pending'[i].depth \in 0..config.max_depth
                   /\ AsEntry(pending'[i]) \in Tree[pending'[i].depth]
        <4>1. CASE pending' = pending
          BY <2>1, <4>1, <3>4 DEF InTree
        <4>2. CASE pending' # pending
          <5>1. /\ pending' = Append(pending, l) /\ l.depth <= config.max_depth
                /\ Listed.directory /\ pending \in Seq(Location)
            BY <2>3, <4>2, ListStep DEF TypeOK
          <5>2. l.depth = Listed.depth /\ config.max_depth \in Nat
            BY InputType DEF Config
          <5>3. AsEntry(l) \in Tree[l.depth] /\ l.depth \in 0..config.max_depth
            BY <3>1, <3>2, <5>1, <5>2
          <5> HIDE DEF l, Tree
          <5>4. pending'[i] = l \/ (i \in 1..Len(pending) /\ pending'[i] = pending[i])
            BY <5>1
          <5> QED BY <2>1, <5>3, <5>4 DEF InTree
        <4> QED BY <4>1, <4>2
      <3>5. directory.depth \in 0..config.max_depth
            /\ AsEntry(directory) \in Tree[directory.depth]
        BY <2>1 DEF InTree
      <3> HIDE DEF Tree
      <3> QED BY <2>1, <3>3, <3>4, <3>5 DEF InTree, AsEntry
    <2> QED BY <2>2, <2>3
  <1>4. CASE Returned \/ UNCHANGED vars
    <2>1. UNCHANGED vars
      BY <1>4 DEF Returned
    <2>2. UNCHANGED <<catalog, pending, phase, directory>> /\ Tree' = Tree /\ config' = config
      BY <2>1, TreeFixed DEF vars
    <2> HIDE DEF Tree
    <2> QED BY <2>2 DEF InTree, AsEntry, Underway
  <1> QED BY <1>1, <1>2, <1>3, <1>4, NextSplit

LEMMA OrderedStep ==
    ASSUME TypeOK, Chosen, OnRecord, InTree, Ordered, [Next]_vars
    PROVE  Ordered'
  <1>c. config' = config /\ config.max_depth \in Nat
    BY InputFixed, InputType DEF Config
  <1>t. /\ pending \in Seq(Location) /\ catalog.entries \in Seq(Entry)
        /\ \A i \in 1..Len(pending) : pending[i].depth \in Nat
        /\ \A i \in 1..Len(catalog.entries) : catalog.entries[i].depth \in Nat
        /\ directory.depth \in Nat
        /\ Len(pending) \in Nat /\ Len(catalog.entries) \in Nat
    <2>1. pending \in Seq(Location) /\ catalog.entries \in Seq(Entry) /\ directory \in Location
      BY CatalogFields DEF TypeOK
    <2>2. \A l \in Location : l.depth \in Nat
      BY DEF Location
    <2>3. \A e \in Entry : e.depth \in Nat
      BY DEF Entry
    <2> QED BY <2>1, <2>2, <2>3
  <1>1. CASE Scanning
    <2>1. CASE /\ catalog'.entries = <<>> /\ pending' = <<>> /\ phase' \notin Walking
      <3>1. Len(catalog'.entries) = 0 /\ Len(pending') = 0
        BY <2>1
      <3> QED BY <2>1, <3>1 DEF Ordered, Ascending
    <2>2. CASE /\ phase' = "walk" /\ catalog'.entries = <<>>
               /\ pending' = <<[path |-> <<>>, extent |-> Volume'.root, depth |-> 0]>>
      <3>1. Len(catalog'.entries) = 0 /\ ~Underway'
        BY <2>2 DEF Underway
      <3>2. Len(pending') = 1 /\ pending'[1].depth = 0
        BY <2>2
      <3>3. Reading(0)'
        BY <3>1, <3>2 DEF Reading
      <3> QED BY <1>c, <3>1, <3>2, <3>3 DEF Ordered, Ascending
    <2> QED BY <1>1, <2>1, <2>2, ScanFrame
  <1>2. CASE Walk
    <2>1. catalog'.entries = catalog.entries /\ phase = "walk"
      BY <1>2, WalkFrame
    <2>2. PICK n \in 0..config.max_depth : Reading(n)
      BY <2>1 DEF Ordered, Walking
    <2>3. CASE ReturnCatalog
      BY <1>2, <2>1, <2>3 DEF ReturnCatalog, Return, Underway, Reading, Ordered, Ascending, Walking
    <2>4. CASE ~ReturnCatalog
      <3>1. /\ Len(pending') = Len(pending) - 1 /\ 1 \in 1..Len(pending)
            /\ Head(pending) = pending[1]
            /\ \A i \in 1..Len(pending') :
                  i + 1 \in 1..Len(pending) /\ pending'[i] = pending[i + 1]
        BY <1>2, <2>4, PoppedQueue
      <3>2. Ascending(pending)' /\ Ascending(catalog.entries)'
        <4>1. ASSUME NEW i \in 1..Len(pending'), NEW j \in 1..i
              PROVE  pending'[j].depth <= pending'[i].depth
          <5>1. i + 1 \in 1..Len(pending) /\ j \in 1..Len(pending') /\ j + 1 \in 1..i + 1
            BY <1>t, <3>1
          <5>2. pending[j + 1].depth <= pending[i + 1].depth
            BY <5>1 DEF Ordered, Ascending
          <5> QED BY <3>1, <5>1, <5>2
        <4> QED BY <2>1, <4>1 DEF Ordered, Ascending
      <3>3. CASE ~Underway'
        <4>1. Reading(n)'
          BY <2>1, <2>2, <3>1, <3>3 DEF Reading
        <4> QED BY <1>c, <3>2, <4>1 DEF Ordered
      <3>4. CASE directory' = Head(pending)
        <4>1. PICK m \in 0..config.max_depth : m = pending[1].depth
          BY <1>2, <3>1, WalkFrame DEF InTree
        <4>2. m \in {n, n + 1} /\ m <= n + 1 /\ n <= m
          BY <2>2, <3>1, <4>1 DEF Reading
        <4>3. ASSUME NEW i \in 1..Len(pending') PROVE pending'[i].depth \in {m, m + 1}
          <5>1. /\ i + 1 \in 1..Len(pending) /\ 1 \in 1..i + 1
                /\ pending'[i] = pending[i + 1]
            BY <1>t, <3>1
          <5>2. m <= pending[i + 1].depth
            BY <4>1, <5>1 DEF Ordered, Ascending
          <5>3. pending[i + 1].depth \in {n, n + 1}
            BY <2>2, <5>1 DEF Reading
          <5> QED BY <4>2, <5>1, <5>2, <5>3
        <4>4. \A i \in 1..Len(catalog'.entries) : catalog'.entries[i].depth <= m + 1
          <5>1. \A i \in 1..Len(catalog.entries) : catalog.entries[i].depth <= n + 1
            BY <2>2 DEF Reading
          <5> QED BY <1>t, <2>1, <4>1, <4>2, <5>1
        <4>5. Reading(m)'
          BY <3>1, <3>4, <4>1, <4>3, <4>4 DEF Reading
        <4> QED BY <1>c, <3>2, <4>1, <4>5 DEF Ordered
      <3> QED BY <1>2, <3>3, <3>4, WalkFrame DEF Underway
    <2> QED BY <2>3, <2>4
  <1>3. CASE Records
    <2>1. /\ phase \in Walking /\ directory' = directory /\ Underway
      BY <1>3, ListFrame DEF Underway, Walking
    <2>2. PICK n \in 0..config.max_depth : Reading(n)
      BY <2>1 DEF Ordered
    <2>3. directory.depth = n
      BY <2>1, <2>2 DEF Reading
    <2>4. CASE ~Listing
      <3>1. pending' = pending /\ catalog'.entries = catalog.entries
        BY <1>3, <2>4, ListFrame
      <3>2. Reading(n)'
        BY <2>1, <2>2, <2>3, <3>1 DEF Reading
      <3> QED BY <1>c, <3>1, <3>2 DEF Ordered, Ascending
    <2>5. CASE Listing
      <3>1. Listed.depth = n + 1
        BY <2>3, <2>5, ListedChild
      <3>2. /\ Len(catalog'.entries) = Len(catalog.entries) + 1
            /\ catalog'.entries[Len(catalog.entries) + 1] = Listed
            /\ \A i \in 1..Len(catalog.entries) : catalog'.entries[i] = catalog.entries[i]
        BY <2>5, ListStep
      <3>3. \A i \in 1..Len(catalog.entries) : catalog.entries[i].depth <= n + 1
        BY <2>2 DEF Reading
      <3>4. Ascending(catalog.entries)'
            /\ \A i \in 1..Len(catalog'.entries) : catalog'.entries[i].depth <= n + 1
        <4>1. ASSUME NEW i \in 1..Len(catalog'.entries), NEW j \in 1..i
              PROVE  catalog'.entries[j].depth <= catalog'.entries[i].depth
          <5>1. CASE i \in 1..Len(catalog.entries)
            <6>1. j \in 1..Len(catalog.entries)
              BY <1>t, <5>1
            <6> QED BY <3>2, <5>1, <6>1 DEF Ordered, Ascending
          <5>2. CASE i = Len(catalog.entries) + 1
            <6>1. j \in 1..Len(catalog.entries) \/ j = i
              BY <1>t, <5>2
            <6> QED BY <3>1, <3>2, <3>3, <5>2, <6>1
          <5> QED BY <1>t, <3>2, <5>1, <5>2
        <4>2. ASSUME NEW i \in 1..Len(catalog'.entries)
              PROVE  catalog'.entries[i].depth <= n + 1
          <5>1. i \in 1..Len(catalog.entries) \/ i = Len(catalog.entries) + 1
            BY <1>t, <3>2
          <5> QED BY <3>1, <3>2, <3>3, <5>1
        <4> QED BY <4>1, <4>2 DEF Ascending
      <3>5. Ascending(pending)' /\ \A i \in 1..Len(pending') : pending'[i].depth \in {n, n + 1}
        <4>1. \A i \in 1..Len(pending) : pending[i].depth \in {n, n + 1}
          BY <2>2 DEF Reading
        <4>2. CASE pending' = pending
          BY <4>1, <4>2 DEF Ordered, Ascending
        <4>3. CASE pending' # pending
          <5> DEFINE l == [path |-> Listed.path, extent |-> Listed.extent, depth |-> Listed.depth]
          <5>1. pending' = Append(pending, l) /\ l.depth = n + 1
            BY <2>5, <3>1, <4>3, ListStep
          <5> HIDE DEF l
          <5>2. /\ Len(pending') = Len(pending) + 1 /\ pending'[Len(pending) + 1] = l
                /\ \A i \in 1..Len(pending) : pending'[i] = pending[i]
            BY <1>t, <5>1
          <5>3. ASSUME NEW i \in 1..Len(pending'), NEW j \in 1..i
                PROVE  pending'[j].depth <= pending'[i].depth
            <6>1. CASE i \in 1..Len(pending)
              <7>1. j \in 1..Len(pending)
                BY <1>t, <6>1
              <7> QED BY <5>2, <6>1, <7>1 DEF Ordered, Ascending
            <6>2. CASE i = Len(pending) + 1
              <7>1. j \in 1..Len(pending) \/ j = i
                BY <1>t, <6>2
              <7> QED BY <4>1, <5>1, <5>2, <6>2, <7>1
            <6> QED BY <1>t, <5>2, <6>1, <6>2
          <5>4. ASSUME NEW i \in 1..Len(pending') PROVE pending'[i].depth \in {n, n + 1}
            <6>1. i \in 1..Len(pending) \/ i = Len(pending) + 1
              BY <1>t, <5>2
            <6> QED BY <4>1, <5>1, <5>2, <6>1
          <5> QED BY <5>3, <5>4 DEF Ascending
        <4> QED BY <4>2, <4>3
      <3>6. Reading(n)'
        BY <2>1, <2>3, <3>4, <3>5 DEF Reading
      <3> QED BY <1>c, <3>4, <3>5, <3>6 DEF Ordered
    <2> QED BY <2>4, <2>5
  <1>4. CASE Returned \/ UNCHANGED vars
    <2>1. UNCHANGED <<catalog, pending, phase, directory>>
      BY <1>4 DEF Returned, vars
    <2> QED BY <1>c, <2>1 DEF Ordered, Ascending, Reading, Underway
  <1> QED BY <1>1, <1>2, <1>3, <1>4, NextSplit

\* The lists of a catalog only grow, and then everything found stays found.
Grows ==
    /\ \A i \in 1..Len(catalog.entries) :
          i \in 1..Len(catalog'.entries) /\ catalog'.entries[i] = catalog.entries[i]
    /\ \A i \in 1..Len(catalog.issues) :
          i \in 1..Len(catalog'.issues) /\ catalog'.issues[i] = catalog.issues[i]

LEMMA SameGrows ==
    ASSUME TypeOK, catalog'.entries = catalog.entries, catalog'.issues = catalog.issues
    PROVE  Grows
  BY DEF Grows

LEMMA IssueGrows ==
    ASSUME NEW c \in Catalog, NEW issue \in Issue, catalog = c,
           catalog'.issues = Append(c.issues, issue), catalog'.entries = c.entries
    PROVE  /\ Grows
           /\ Len(catalog'.issues) \in 1..Len(catalog'.issues)
           /\ catalog'.issues[Len(catalog'.issues)] = issue
  <1>1. c.issues \in Seq(Issue) /\ Len(c.issues) \in Nat
    BY CatalogFields
  <1> QED BY <1>1 DEF Grows

LEMMA StaysFound ==
    ASSUME Grows, UNCHANGED <<input, catalog.volume>>
    PROVE  /\ \A p : Excused(p) => Excused(p)'
           /\ \A e : Found(e) => Found(e)'
           /\ \A q : Settled(q) => Settled(q)'
  <1>1. image' = image /\ Volume' = Volume
    BY TreeFixed
  <1>2. ASSUME NEW issue, NEW p, Accounts(issue, p) PROVE Accounts(issue, p)'
    <2>1. CASE issue.what \in {"truncated", "oversize"} /\ issue.path = p
      BY <2>1 DEF Accounts
    <2>2. CASE /\ issue.what = "traversed"
               /\ \E i \in 1..Len(catalog.entries) :
                     /\ catalog.entries[i].path = p
                     /\ catalog.entries[i].extent.offset = issue.offset
      BY <2>2 DEF Accounts, Grows
    <2> QED BY <1>2, <2>1, <2>2 DEF Accounts
  <1>3. ASSUME NEW p, Excused(p) PROVE Excused(p)'
    <2>1. PICK i \in 1..Len(catalog.issues) : Accounts(catalog.issues[i], p)
      BY <1>3 DEF Excused
    <2>2. i \in 1..Len(catalog'.issues) /\ catalog'.issues[i] = catalog.issues[i]
      BY DEF Grows
    <2>3. PICK x : x = catalog.issues[i]
      OBVIOUS
    <2>4. Accounts(x, p)'
      BY <1>2, <2>1, <2>3
    <2> QED BY <2>2, <2>3, <2>4 DEF Excused, Accounts
  <1>4. ASSUME NEW e, Found(e) PROVE Found(e)'
    BY <1>4 DEF Found, Grows
  <1>5. ASSUME NEW q, Settled(q) PROVE Settled(q)'
    BY <1>1, <1>3, <1>4, <1>5 DEF Settled
  <1> QED BY <1>3, <1>4, <1>5

\* What a step of the directory loop reports.
LEMMA WalkReport ==
    ASSUME TypeOK, Walk
    PROVE  /\ Grows
           /\ catalog.cancelled => catalog'.cancelled
           /\ catalog.limit_reached => catalog'.limit_reached
           /\ SkipVisited =>
                 /\ Len(catalog'.issues) \in 1..Len(catalog'.issues)
                 /\ catalog'.issues[Len(catalog'.issues)] =
                       [what |-> "traversed", offset |-> Head(pending).extent.offset]
           /\ ~StopAtLimit => catalog'.limit_reached = catalog.limit_reached
           /\ StopAtLimit => catalog'.directories_read = catalog.directories_read
  <1>1. catalog \in Catalog
    BY DEF TypeOK
  <1>2. CASE SkipVisited
    <2>1. ~StopAtLimit /\ ~ReturnCatalog
      BY <1>2 DEF SkipVisited, StopAtLimit, ReturnCatalog, Popped
    <2>2. Head(pending).extent \in Extent
      BY <1>2, <2>1, PoppedQueue
    <2>3. PICK issue : issue = [what |-> "traversed", offset |-> Head(pending).extent.offset]
      OBVIOUS
    <2>4. issue \in Issue
      BY <2>2, <2>3 DEF Issue, Extent
    <2>5. /\ catalog'.issues = Append(catalog.issues, issue)
          /\ catalog'.entries = catalog.entries
          /\ catalog'.cancelled = catalog.cancelled
          /\ catalog'.limit_reached = catalog.limit_reached
      BY <1>1, <1>2, <2>3, <2>4, CatalogReport DEF SkipVisited
    <2> QED BY <1>1, <2>1, <2>3, <2>4, <2>5, IssueGrows
  <1>3. CASE ReturnCatalog \/ CancelWalk \/ StopAtLimit \/ DirectoryReadFails \/ ReadDirectory
    <2>1. /\ catalog'.entries = catalog.entries /\ catalog'.issues = catalog.issues
          /\ catalog.cancelled => catalog'.cancelled
          /\ catalog.limit_reached => catalog'.limit_reached
          /\ ~StopAtLimit => catalog'.limit_reached = catalog.limit_reached
          /\ StopAtLimit => catalog'.directories_read = catalog.directories_read
      BY <1>1, <1>3 DEF ReturnCatalog, CancelWalk, StopAtLimit, DirectoryReadFails,
             ReadDirectory, Popped, Return, Fail, Catalog
    <2>2. CASE ~SkipVisited
      BY <2>1, <2>2, SameGrows
    <2> QED BY <1>2, <2>2
  <1> QED BY <1>2, <1>3 DEF Walk

\* What a step of the record loop reports.
LEMMA RecordsReport ==
    ASSUME TypeOK, Records
    PROVE  /\ Grows
           /\ catalog.limit_reached => catalog'.limit_reached
           /\ StopAtTruncated =>
                 /\ Len(catalog'.issues) \in 1..Len(catalog'.issues)
                 /\ catalog'.issues[Len(catalog'.issues)] =
                       [what |-> "truncated", path |-> directory.path]
  <1>1. catalog \in Catalog /\ catalog.limit_reached \in BOOLEAN
    BY CatalogFields DEF TypeOK
  <1>2. directory.path \in Path
    BY DEF TypeOK, Location
  <1>3. CASE SkipPadding \/ SkipSelfOrParent \/ EndOfDirectory \/ ReportProgress
    <2>1. catalog' = catalog
      BY <1>3 DEF SkipPadding, SkipSelfOrParent, EndOfDirectory, ReportProgress, Return
    <2>2. ~StopAtTruncated
      <3>1. cursor \in Nat /\ directory.extent.length \in Nat
        BY DEF TypeOK, Location, Extent
      <3>2. CASE SkipPadding \/ SkipSelfOrParent
        BY <3>2 DEF SkipPadding, SkipSelfOrParent, WholeRecord, StopAtTruncated
      <3>3. CASE EndOfDirectory \/ ReportProgress
        BY <3>1, <3>3 DEF EndOfDirectory, ReportProgress, StopAtTruncated, AtRecord
      <3> QED BY <1>3, <3>2, <3>3
    <2> QED BY <2>1, <2>2, SameGrows
  <1>t. ASSUME NEW what \in {"truncated", "outside"} \cup Malformed, NEW issue,
               issue = [what |-> what, path |-> directory.path],
               catalog' = [catalog EXCEPT !.issues = Append(@, issue)],
               StopAtTruncated => what = "truncated"
        PROVE  /\ Grows
               /\ catalog.limit_reached => catalog'.limit_reached
               /\ StopAtTruncated =>
                     /\ Len(catalog'.issues) \in 1..Len(catalog'.issues)
                     /\ catalog'.issues[Len(catalog'.issues)] =
                           [what |-> "truncated", path |-> directory.path]
    <2>1. issue \in Issue
      BY <1>2, <1>t DEF Issue
    <2>2. /\ catalog'.issues = Append(catalog.issues, issue)
          /\ catalog'.entries = catalog.entries
          /\ catalog'.limit_reached = catalog.limit_reached
      BY <1>1, <1>t, <2>1, CatalogReport
    <2> QED BY <1>1, <1>t, <2>1, <2>2, IssueGrows
  <1>4. CASE StopAtTruncated
    <2>1. PICK issue : issue = [what |-> "truncated", path |-> directory.path]
      OBVIOUS
    <2>2. catalog' = [catalog EXCEPT !.issues = Append(@, issue)]
      BY <1>4, <2>1 DEF StopAtTruncated
    <2> QED BY <1>t, <2>1, <2>2
  <1>6. CASE RejectRecord
    <2>1. ~StopAtTruncated /\ Verdict \in {"truncated", "outside"} \cup Malformed
      BY <1>6 DEF RejectRecord, Rejected, StopAtTruncated, WholeRecord
    <2>2. PICK issue : issue = [what |-> Verdict, path |-> directory.path]
      OBVIOUS
    <2>3. catalog' = [catalog EXCEPT !.issues = Append(@, issue)]
      BY <1>6, <2>2 DEF RejectRecord, Rejected
    <2> QED BY <1>t, <2>1, <2>2, <2>3
  <1>5. CASE Listing
    <2>1. ~StopAtTruncated
      BY <1>5, ListStep DEF StopAtTruncated, Listable, WholeRecord
    <2>2. /\ Len(catalog.entries) \in Nat
          /\ Len(catalog'.entries) = Len(catalog.entries) + 1
          /\ \A i \in 1..Len(catalog.entries) : catalog'.entries[i] = catalog.entries[i]
          /\ catalog.limit_reached => catalog'.limit_reached
          /\ Listed \in Entry
      BY <1>5, ListStep
    <2>3. catalog.issues \in Seq(Issue)
      BY <1>1, CatalogFields
    <2>4. catalog'.issues = catalog.issues
          \/ \E issue \in Issue : catalog'.issues = Append(catalog.issues, issue)
      <3>1. [what |-> "oversize", path |-> Listed.path] \in Issue
        BY <2>2 DEF Issue, Entry
      <3> QED BY <1>5, <3>1, ListStep
    <2>5. \A i \in 1..Len(catalog.issues) :
             i \in 1..Len(catalog'.issues) /\ catalog'.issues[i] = catalog.issues[i]
      BY <2>3, <2>4
    <2> QED BY <2>1, <2>2, <2>5 DEF Grows
  <1> QED BY <1>3, <1>4, <1>5, <1>6 DEF Records, Listing

LEMMA ParentedStep ==
    ASSUME TypeOK, Chosen, OnRecord, InTree, Parented, [Next]_vars
    PROVE  Parented'
  <1>t. pending \in Seq(Location) /\ Len(pending) \in Nat
    BY DEF TypeOK
  <1>1. CASE Scanning
    <2>1. Len(catalog'.entries) = 0
      BY <1>1, ScanFrame
    <2>2. ~Underway'
      BY <1>1, ScanFrame DEF Underway, Walking
    <2>3. \A i \in 1..Len(pending') : pending'[i].depth = 0
      <3>1. CASE pending' = <<>>
        <4>1. Len(pending') = 0
          BY <3>1
        <4> QED BY <4>1
      <3>2. ASSUME NEW l, pending' = <<l>>, l.depth = 0
            PROVE  \A i \in 1..Len(pending') : pending'[i].depth = 0
        <4>1. Len(pending') = 1 /\ pending'[1] = l
          BY <3>2
        <4> QED BY <3>2, <4>1
      <3>3. pending' = <<>> \/ \E l : pending' = <<l>> /\ l.depth = 0
        <4>1. PICK l : l = [path |-> <<>>, extent |-> Volume'.root, depth |-> 0]
          OBVIOUS
        <4>2. l.depth = 0
          BY <4>1
        <4>3. pending' = <<>> \/ pending' = <<l>>
          BY <1>1, <4>1, ScanFrame
        <4> QED BY <4>2, <4>3
      <3> QED BY <3>1, <3>2, <3>3
    <2> QED BY <2>1, <2>2, <2>3 DEF Parented
  <1>2. CASE Walk
    <2>1. catalog'.entries = catalog.entries /\ phase = "walk"
      BY <1>2, WalkFrame
    <2>2. CASE ReturnCatalog
      BY <2>1, <2>2 DEF ReturnCatalog, Return, Parented, ListedBefore, Underway
    <2>3. CASE ~ReturnCatalog
      <3>1. /\ 1 \in 1..Len(pending) /\ Head(pending) = pending[1]
            /\ \A i \in 1..Len(pending') :
                  i + 1 \in 1..Len(pending) /\ pending'[i] = pending[i + 1]
        BY <1>2, <2>3, PoppedQueue
      <3>2. \A l : ListedBefore(l, Len(catalog.entries)) =>
                \E j \in 1..Len(catalog'.entries) :
                    /\ catalog'.entries[j].directory
                    /\ catalog'.entries[j].path = l.path
                    /\ catalog'.entries[j].extent = l.extent
        BY <2>1 DEF ListedBefore
      <3>3. Underway' => directory' = Head(pending)
        BY <1>2, WalkFrame DEF Underway
      <3>4. \A i \in 1..Len(pending) :
               pending[i].depth = 0 \/ ListedBefore(pending[i], Len(catalog.entries))
        BY DEF Parented
      <3>5. \A i \in 1..Len(pending') :
               \/ pending'[i].depth = 0
               \/ \E j \in 1..Len(catalog'.entries) :
                    /\ catalog'.entries[j].directory
                    /\ catalog'.entries[j].path = pending'[i].path
                    /\ catalog'.entries[j].extent = pending'[i].extent
        <4> TAKE i \in 1..Len(pending')
        <4>1. PICK l : l = pending[i + 1]
          OBVIOUS
        <4>2. pending'[i] = l /\ (l.depth = 0 \/ ListedBefore(l, Len(catalog.entries)))
          BY <3>1, <3>4, <4>1
        <4> QED BY <3>2, <4>2
      <3>6. Underway' =>
               \/ directory'.depth = 0
               \/ \E j \in 1..Len(catalog'.entries) :
                    /\ catalog'.entries[j].directory
                    /\ catalog'.entries[j].path = directory'.path
                    /\ catalog'.entries[j].extent = directory'.extent
        BY <3>1, <3>2, <3>3, <3>4
      <3> QED BY <2>1, <3>5, <3>6 DEF Parented, ListedBefore
    <2> QED BY <2>2, <2>3
  <1>3. CASE Records
    <2>1. directory' = directory /\ Underway /\ Grows
      BY <1>3, ListFrame, RecordsReport DEF Underway
    <2>2. CASE ~Listing
      <3>1. pending' = pending /\ catalog'.entries = catalog.entries
        BY <1>3, <2>2, ListFrame
      <3> QED BY <2>1, <3>1 DEF Parented, ListedBefore
    <2>3. CASE Listing
      <3> DEFINE l == [path |-> Listed.path, extent |-> Listed.extent, depth |-> Listed.depth]
                 n == Len(catalog.entries)
      <3>1. /\ n \in Nat /\ Len(catalog'.entries) = n + 1
            /\ catalog'.entries[n + 1] = Listed
            /\ \A i \in 1..n : catalog'.entries[i] = catalog.entries[i]
        BY <2>3, ListStep
      <3>2. \A x : ListedBefore(x, n) =>
                \E j \in 1..Len(catalog'.entries) :
                    /\ catalog'.entries[j].directory
                    /\ catalog'.entries[j].path = x.path
                    /\ catalog'.entries[j].extent = x.extent
        BY <3>1 DEF ListedBefore
      <3>3. /\ Listed.depth = directory.depth + 1
            /\ Listed.path = Append(directory.path, Here.name)
            /\ directory.path \in Seq(Name)
            /\ Listed.path[Len(Listed.path)] = Here.name
        <4>1. directory.path \in Seq(Name)
          BY DEF TypeOK, Location, Path
        <4> QED BY <2>3, <4>1, ListedChild
      <3>4. directory.depth = 0 \/ ListedBefore(directory, n)
        BY <2>1 DEF Parented
      <3>5. ASSUME NEW i \in 1..Len(catalog'.entries)
            PROVE  \/ catalog'.entries[i].depth = 1
                   \/ \E j \in 1..i - 1 :
                        /\ catalog'.entries[j].directory
                        /\ Append(catalog'.entries[j].path,
                                  catalog'.entries[i].path[Len(catalog'.entries[i].path)])
                               = catalog'.entries[i].path
        <4>1. CASE i \in 1..n
          <5>1. \A j \in 1..i - 1 : j \in 1..n
            BY <3>1, <4>1
          <5>2. \/ catalog.entries[i].depth = 1
                \/ \E j \in 1..i - 1 :
                     /\ catalog.entries[j].directory
                     /\ Append(catalog.entries[j].path,
                               catalog.entries[i].path[Len(catalog.entries[i].path)])
                            = catalog.entries[i].path
            BY <4>1 DEF Parented
          <5> QED BY <3>1, <4>1, <5>1, <5>2
        <4>2. CASE i = n + 1
          <5>1. i - 1 = n /\ catalog'.entries[i] = Listed
            BY <3>1, <4>2
          <5>2. CASE directory.depth = 0
            BY <3>3, <5>1, <5>2
          <5>3. CASE ListedBefore(directory, n)
            <6>1. PICK j \in 1..n :
                     catalog.entries[j].directory /\ catalog.entries[j].path = directory.path
              BY <5>3 DEF ListedBefore
            <6>2. /\ j \in 1..i - 1 /\ catalog'.entries[j].directory
                  /\ catalog'.entries[j].path = directory.path
              BY <3>1, <5>1, <6>1
            <6>3. Append(directory.path, Listed.path[Len(Listed.path)]) = Listed.path
              BY <3>3
            <6> QED BY <5>1, <6>2, <6>3
          <5> QED BY <3>4, <5>2, <5>3
        <4> QED BY <3>1, <4>1, <4>2
      <3>6. ASSUME NEW i \in 1..Len(pending')
            PROVE  \/ pending'[i].depth = 0
                   \/ \E j \in 1..Len(catalog'.entries) :
                        /\ catalog'.entries[j].directory
                        /\ catalog'.entries[j].path = pending'[i].path
                        /\ catalog'.entries[j].extent = pending'[i].extent
        <4>1. CASE i \in 1..Len(pending) /\ pending'[i] = pending[i]
          BY <3>2, <4>1 DEF Parented
        <4>2. CASE pending'[i] = l /\ Listed.directory
          <5>1. n + 1 \in 1..Len(catalog'.entries)
            BY <3>1
          <5> QED BY <3>1, <4>2, <5>1
        <4>3. \/ (i \in 1..Len(pending) /\ pending'[i] = pending[i])
              \/ (pending'[i] = l /\ Listed.directory)
          <5>1. (pending' = Append(pending, l) /\ Listed.directory) \/ pending' = pending
            BY <2>3, ListStep
          <5> HIDE DEF l
          <5> QED BY <1>t, <5>1
        <4> QED BY <4>1, <4>2, <4>3
      <3>7. \/ directory'.depth = 0
            \/ \E j \in 1..Len(catalog'.entries) :
                 /\ catalog'.entries[j].directory
                 /\ catalog'.entries[j].path = directory'.path
                 /\ catalog'.entries[j].extent = directory'.extent
        BY <2>1, <3>2, <3>4
      <3> QED BY <3>5, <3>6, <3>7 DEF Parented, ListedBefore
    <2> QED BY <2>2, <2>3
  <1>4. CASE Returned \/ UNCHANGED vars
    <2>1. UNCHANGED <<catalog, pending, phase, directory>>
      BY <1>4 DEF Returned, vars
    <2> QED BY <2>1 DEF Parented, ListedBefore, Underway
  <1> QED BY <1>1, <1>2, <1>3, <1>4, NextSplit

LEMMA UntouchedStep ==
    ASSUME TypeOK, Chosen, OnRecord, InTree, Untouched, [Next]_vars
    PROVE  Untouched'
  <1>1. CASE Scanning
    <2>1. visited' = {} /\ ~Underway'
      BY <1>1, ScanFrame DEF Underway, Walking
    <2>2. Len(pending') <= 1
      <3>1. CASE pending' = <<>>
        <4>1. Len(pending') = 0
          BY <3>1
        <4> QED BY <4>1
      <3>2. ASSUME NEW l, pending' = <<l>> PROVE Len(pending') <= 1
        <4>1. Len(pending') = 1
          BY <3>2
        <4> QED BY <4>1
      <3> QED BY <1>1, <3>1, <3>2, ScanFrame
    <2> QED BY <2>1, <2>2 DEF Untouched
  <1>2. CASE Walk
    <2>1. phase = "walk" /\ visited \subseteq visited'
      BY <1>2, WalkFrame
    <2>2. CASE ReturnCatalog
      BY <2>1, <2>2 DEF ReturnCatalog, Return, Untouched, Underway
    <2>3. CASE ~ReturnCatalog
      <3>1. /\ Len(pending') = Len(pending) - 1 /\ Len(pending) \in Nat
            /\ \A i \in 1..Len(pending') :
                  i + 1 \in 1..Len(pending) /\ pending'[i] = pending[i + 1]
        BY <1>2, <2>3, PoppedQueue
      <3>2. CASE visited # {}
        <4>1. \A i \in 1..Len(pending') : pending'[i].depth # 0
          BY <3>1, <3>2 DEF Untouched
        <4> QED BY <2>1, <3>2, <4>1 DEF Untouched
      <3>3. CASE visited = {}
        <4>1. Len(pending') <= 0
          BY <3>1, <3>3 DEF Untouched
        <4>2. visited' = {} => ~Underway'
          BY <1>2, WalkFrame DEF ReadDirectory, Underway
        <4>3. Len(pending') <= 1 /\ 1..Len(pending') = {}
          BY <3>1, <4>1
        <4> QED BY <4>2, <4>3 DEF Untouched
      <3> QED BY <3>2, <3>3
    <2> QED BY <2>2, <2>3
  <1>3. CASE Records
    <2>1. visited # {} /\ visited' = visited
      BY <1>3, ListFrame DEF Untouched, Underway
    <2>2. CASE ~Listing
      <3>1. pending' = pending
        BY <1>3, <2>2, ListFrame
      <3> QED BY <2>1, <3>1 DEF Untouched
    <2>3. CASE Listing
      <3> DEFINE l == [path |-> Listed.path, extent |-> Listed.extent, depth |-> Listed.depth]
      <3>1. l.depth # 0
        <4>1. Listed.depth = directory.depth + 1 /\ directory.depth \in Nat
          BY <2>3, ListedChild DEF TypeOK, Location
        <4> QED BY <4>1
      <3>2. pending' = Append(pending, l) \/ pending' = pending
        BY <2>3, ListStep
      <3>3. pending \in Seq(Location)
        BY DEF TypeOK
      <3> HIDE DEF l
      <3>4. \A i \in 1..Len(pending') :
               (i \in 1..Len(pending) /\ pending'[i] = pending[i]) \/ pending'[i] = l
        BY <3>2, <3>3
      <3>5. \A i \in 1..Len(pending') : pending'[i].depth # 0
        BY <2>1, <3>1, <3>4 DEF Untouched
      <3> QED BY <2>1, <3>5 DEF Untouched
    <2> QED BY <2>2, <2>3
  <1>4. CASE Returned \/ UNCHANGED vars
    <2>1. UNCHANGED <<pending, visited, phase>>
      BY <1>4 DEF Returned, vars
    <2> QED BY <2>1 DEF Untouched, Underway
  <1> QED BY <1>1, <1>2, <1>3, <1>4, NextSplit

LEMMA EndedStep ==
    ASSUME TypeOK, Chosen, Ended, [Next]_vars
    PROVE  Ended'
  <1>c. config' = config /\ catalog \in Catalog /\ config.max_entries \in Nat
    BY InputFixed, InputType DEF TypeOK, Config
  <1> DEFINE deep == \E i \in 1..Len(catalog.entries) :
               catalog.entries[i].directory /\ catalog.entries[i].depth > config.max_depth
  <1>1. CASE Scanning
    <2>1. phase # "returned" /\ result = "none"
      BY <1>1, ScanFrame DEF Ended
    <2>2. phase' # "returned" => result' = "none"
      BY <1>1, <2>1, ScanFrame
    <2>3. ~catalog'.limit_reached /\ (result' \in {"none", "error"} \/ catalog'.cancelled)
      BY <1>1, <2>1, ScanFrame
    <2> QED BY <2>2, <2>3 DEF Ended, Whole
  <1>2. CASE Walk
    <2>1. /\ phase = "walk" /\ result = "none" /\ catalog'.entries = catalog.entries
          /\ catalog.volume # 0 /\ catalog'.volume = catalog.volume
      BY <1>2, WalkFrame DEF Ended
    <2>2. phase' # "returned" => result' = "none"
      BY <1>2, <2>1 DEF Walk, ReturnCatalog, CancelWalk, StopAtLimit, SkipVisited,
             DirectoryReadFails, ReadDirectory, Fail, Return
    <2>3. result' = "ok" /\ Whole' => pending' = <<>>
      BY <1>c, <1>2, <2>1 DEF Walk, ReturnCatalog, CancelWalk, StopAtLimit, SkipVisited,
             DirectoryReadFails, ReadDirectory, Fail, Return, Whole, Catalog
    <2>4. catalog'.limit_reached => AtLimit' \/ deep'
      <3>1. CASE StopAtLimit
        <4>1. catalog'.directories_read = catalog.directories_read /\ AtLimit
          BY <1>2, <3>1, WalkReport DEF StopAtLimit
        <4> QED BY <1>c, <2>1, <4>1 DEF AtLimit
      <3>2. CASE ReadDirectory
        <4>1. ~AtLimit /\ ~StopAtLimit
          BY <3>2 DEF ReadDirectory, StopAtLimit
        <4> QED BY <1>c, <1>2, <2>1, <4>1, WalkReport DEF Ended
      <3>3. CASE ~StopAtLimit /\ ~ReadDirectory
        <4>1. catalog'.directories_read = catalog.directories_read
          BY <1>c, <1>2, <3>3 DEF Walk, ReturnCatalog, CancelWalk, SkipVisited,
                 DirectoryReadFails, Fail, Return, Catalog
        <4> QED BY <1>c, <1>2, <2>1, <3>3, <4>1, WalkReport DEF Ended, AtLimit
      <3> QED BY <3>1, <3>2, <3>3
    <2> QED BY <2>1, <2>2, <2>3, <2>4 DEF Ended
  <1>3. CASE Records
    <2>1. /\ phase \in {"records", "progress"} /\ result = "none"
          /\ catalog'.directories_read = catalog.directories_read /\ Grows
      BY <1>3, ListFrame, RecordsReport DEF Ended
    <2>2. phase' # "returned" => result' = "none"
      BY <1>3, <2>1 DEF Records, SkipPadding, StopAtTruncated, SkipSelfOrParent,
             RejectRecord, Rejected, ListFile, ListTooDeep, ListOversize, ListDirectory,
             EndOfDirectory, ReportProgress, Return
    <2>3. result' = "ok" => catalog'.limit_reached
      BY <1>3, <2>1 DEF Records, SkipPadding, StopAtTruncated, SkipSelfOrParent,
             RejectRecord, Rejected, ListFile, ListTooDeep, ListOversize, ListDirectory,
             EndOfDirectory, ReportProgress, Return
    <2>n. catalog.entries \in Seq(Entry) /\ Len(catalog.entries) \in Nat
      BY <1>c, CatalogFields
    <2>4. catalog'.limit_reached => AtLimit' \/ deep'
      <3>1. CASE catalog.limit_reached
        <4>1. AtLimit \/ deep
          BY <3>1 DEF Ended
        <4>2. CASE deep
          BY <1>c, <2>1, <4>2 DEF Grows
        <4>3. CASE AtLimit
          <5>1. Len(catalog'.entries) \in Nat /\ Len(catalog'.entries) >= Len(catalog.entries)
            <6>1. CASE Listing
              BY <2>n, <6>1, ListStep
            <6>2. CASE ~Listing
              <7>1. catalog'.entries = catalog.entries
                BY <1>3, <6>2, ListFrame
              <7> QED BY <2>n, <7>1
            <6> QED BY <6>1, <6>2
          <5>2. CASE Len(catalog.entries) >= config.max_entries
            <6>1. Len(catalog'.entries) >= config.max_entries
              BY <1>c, <2>n, <5>1, <5>2
            <6> QED BY <1>c, <6>1 DEF AtLimit
          <5>3. CASE catalog.directories_read >= config.max_directories
            BY <1>c, <2>1, <5>3 DEF AtLimit
          <5> QED BY <4>3, <5>2, <5>3 DEF AtLimit
        <4> QED BY <4>1, <4>2, <4>3
      <3>2. CASE ~catalog.limit_reached /\ catalog'.limit_reached
        <4>1. Listing
          BY <1>3, <3>2, ListFrame
        <4>2. Len(catalog.entries) + 1 \in 1..Len(catalog'.entries)
              /\ catalog'.entries[Len(catalog.entries) + 1] = Listed
              /\ Len(catalog'.entries) = Len(catalog.entries) + 1
          BY <2>n, <4>1, ListStep
        <4>3. \/ Len(catalog.entries) + 1 >= config.max_entries
              \/ Listed.directory /\ Listed.depth > config.max_depth
          BY <3>2, <4>1, ListStep
        <4> QED BY <1>c, <4>2, <4>3 DEF AtLimit
      <3> QED BY <3>1, <3>2
    <2> QED BY <2>2, <2>3, <2>4 DEF Ended, Whole
  <1>4. CASE Returned \/ UNCHANGED vars
    <2>1. UNCHANGED <<catalog, pending, result, phase>>
      BY <1>4 DEF Returned, vars
    <2> QED BY <1>c, <2>1 DEF Ended, Whole, AtLimit
  <1> QED BY <1>1, <1>2, <1>3, <1>4, NextSplit

\* The directories known are the same while nothing is listed.
LEMMA FoldersSame ==
    ASSUME UNCHANGED <<input, catalog.volume>>, catalog'.entries = catalog.entries
    PROVE  Folders' = Folders
  BY TreeFixed DEF Folders, Top

LEMMA WalkAccounted ==
    ASSUME TypeOK, Chosen, Parented, Untouched, Accounted, Ended, Walk, Whole'
    PROVE  \A q \in Folders' : (Waiting(q) \/ Scanned(q) \/ Settled(q))'
  <1>1. /\ phase = "walk" /\ catalog.volume # 0 /\ UNCHANGED <<input, catalog.volume>>
        /\ catalog'.entries = catalog.entries /\ Grows
    BY WalkFrame, WalkReport
  <1>2. Folders' = Folders
    BY <1>1, FoldersSame
  <1>3. Whole
    BY <1>1, WalkReport DEF Whole, Ended
  <1> SUFFICES ASSUME NEW q \in Folders
               PROVE  Waiting(q)' \/ Scanned(q)' \/ Settled(q)'
    BY <1>2
  <1>4. Waiting(q) \/ Settled(q)
    BY <1>1, <1>3 DEF Accounted, Scanned
  <1>5. CASE Settled(q)
    BY <1>1, <1>5, StaysFound
  <1>6. CASE Waiting(q)
    <2>1. PICK i \in 1..Len(pending) :
             pending[i].path = q.path /\ pending[i].extent = q.extent
      BY <1>6 DEF Waiting
    <2>2. CASE ReturnCatalog
      <3>1. Len(pending) = 0
        BY <2>2 DEF ReturnCatalog
      <3> QED BY <2>1, <3>1
    <2>3. CASE ~ReturnCatalog
      <3>1. /\ Head(pending) = pending[1] /\ Len(pending) \in Nat
            /\ Len(pending') = Len(pending) - 1
            /\ Head(pending).extent \in Extent
            /\ \A j \in 1..Len(pending') :
                  j + 1 \in 1..Len(pending) /\ pending'[j] = pending[j + 1]
        BY <2>3, PoppedQueue
      <3>2. CASE i # 1
        <4>1. i - 1 \in 1..Len(pending') /\ (i - 1) + 1 = i
          BY <3>1, <3>2
        <4>2. pending'[i - 1] = pending[i]
          BY <3>1, <4>1
        <4> QED BY <2>1, <4>1, <4>2 DEF Waiting
      <3>3. CASE i = 1
        <4>1. Head(pending).path = q.path /\ Head(pending).extent = q.extent
          BY <2>1, <3>1, <3>3
        <4>2. CASE CancelWalk \/ StopAtLimit \/ DirectoryReadFails
          BY <4>2 DEF CancelWalk, StopAtLimit, DirectoryReadFails, Fail, Return, Whole,
                      TypeOK, Catalog
        <4>3. CASE ReadDirectory
          <5>1. directory' = Head(pending) /\ cursor' = 0 /\ phase' = "records"
            BY <4>3 DEF ReadDirectory
          <5>2. image' = image /\ Volume' = Volume
            BY <1>1, TreeFixed
          <5>3. \A p \in StartsOf(image.directories, Volume, q) : ~(p < 0)
            <6>1. PICK cells : cells = Contents(image.directories, q.extent)
              OBVIOUS
            <6>2. cells \in Seq(Cell) /\ Volume.block_bytes \in Nat \ {0}
              BY <1>1, <3>1, <4>1, <6>1, ContentsType, VolumeType
            <6>3. StartsOf(image.directories, Volume, q)
                     = RecordStarts(cells, Volume.block_bytes)
              BY <6>1 DEF StartsOf
            <6> QED BY <6>2, <6>3, StartsClosed
          <5>4. \A p \in StartsOf(image.directories, Volume, q)' : ~(p < cursor')
            BY <5>1, <5>2, <5>3
          <5> QED BY <4>1, <5>1, <5>2, <5>4 DEF Scanned
        <4>4. CASE SkipVisited
          <5>1. PICK issue : issue = [what |-> "traversed", offset |-> q.extent.offset]
            OBVIOUS
          <5>2. /\ Len(catalog'.issues) \in 1..Len(catalog'.issues)
                /\ catalog'.issues[Len(catalog'.issues)] = issue
            BY <4>1, <4>4, <5>1, WalkReport
          <5>3. visited # {}
            BY <4>4 DEF SkipVisited, Fresh
          <5>4. ListedBefore(pending[i], Len(catalog.entries))
            BY <5>3 DEF Untouched, Parented
          <5>5. PICK j \in 1..Len(catalog.entries) :
                   catalog.entries[j].path = q.path /\ catalog.entries[j].extent = q.extent
            BY <2>1, <5>4 DEF ListedBefore
          <5>6. Accounts(issue, q.path)'
            BY <1>1, <5>1, <5>5 DEF Accounts
          <5> QED BY <5>2, <5>6 DEF Settled, Excused, Accounts
        <4> QED BY <2>3, <4>2, <4>3, <4>4 DEF Walk
      <3> QED BY <3>2, <3>3
    <2> QED BY <2>2, <2>3
  <1> QED BY <1>4, <1>5, <1>6

\* The cursor passes one record start at a time.
LEMMA Passed ==
    ASSUME TypeOK, OnRecord, Records, phase = "records", phase' = "records"
    PROVE  \A p \in Starts : p < cursor' => p < cursor \/ p = cursor
  <1>1. /\ directory.extent.length \in Nat /\ cursor \in Nat
        /\ Volume.block_bytes \in Nat \ {0}
        /\ \A p \in Starts : p \in 0..directory.extent.length - 1
    BY ReadingType DEF Underway
  <1>2. PICK cells \in Seq(Cell) :
           /\ cells = Cells(directory.extent) /\ Len(cells) = directory.extent.length
           /\ Starts = RecordStarts(cells, Volume.block_bytes)
    BY ReadingType DEF Underway
  <1>3. PICK next : next = After(cells, Volume.block_bytes, cursor)
    OBVIOUS
  <1>4. /\ cursor \in Starts /\ AtRecord
        /\ \/ cursor' = cursor
           \/ cursor' = next
           \/ cursor' = directory.extent.length /\ next >= cursor'
    BY <1>2, <1>3, CursorStep
  <1>5. \A p \in Starts : p < cursor => After(cells, Volume.block_bytes, p) <= cursor
    BY <1>1, <1>2, <1>4 DEF OnRecord, AtRecord
  <1>6. \A p \in Starts : p < next => p <= cursor
    BY <1>1, <1>2, <1>3, <1>4, <1>5, StartsChain
  <1>7. next \in Nat
    BY <1>1, <1>2, <1>3, <1>4, AfterType
  <1> SUFFICES ASSUME NEW p \in Starts, p < cursor' PROVE p < cursor \/ p = cursor
    OBVIOUS
  <1>8. p \in Nat /\ (cursor' = cursor \/ p < next)
    BY <1>1, <1>4, <1>7
  <1> QED BY <1>1, <1>6, <1>8

\* A child that the record at the cursor names is listed by the step that passes it.
LEMMA RecordAccounted ==
    ASSUME TypeOK, ParsedVolumes, OnRecord, InTree,
           SkipPadding \/ SkipSelfOrParent \/ RejectRecord \/ Listing,
           NEW q, q.path = directory.path, q.extent = directory.extent,
           NEW p, p = cursor, NamesChild(image.directories, Volume, q, p)
    PROVE  Found(ChildAt(image.directories, Volume, q, p))'
  <1>1. AtRecord /\ Records /\ Underway
    BY DEF SkipPadding, SkipSelfOrParent, RejectRecord, Rejected, Listing, ListFile,
           ListTooDeep, ListOversize, ListDirectory, Listable, WholeRecord, Records,
           AtRecord, Underway
  <1>2. /\ image' = image /\ Volume' = Volume /\ catalog.volume # 0
    BY <1>1, ListFrame, TreeFixed
  <1>3. PICK c : c = ChildAt(image.directories, Volume, q, p)
    OBVIOUS
  <1>4. /\ Here = Contents(image.directories, q.extent)[p + 1]
        /\ Len(Contents(image.directories, q.extent)) = directory.extent.length
    BY <1>1, ReadingType DEF Here, Cells
  <1>5. Here.form = "ok" /\ cursor + Here.size <= directory.extent.length
    BY <1>4 DEF NamesChild
  <1>6. Listed.extent = c.extent /\ Inside(c.extent, Volume.volume_bytes)
    BY <1>3, <1>4 DEF Listed, ChildAt, NamesChild
  <1>7. Inside(Listed.extent, config.total_bytes)
    <2>1. Volume.volume_bytes <= config.total_bytes
      BY <1>2 DEF ParsedVolumes, Parses
    <2>2. Volume.volume_bytes \in Nat /\ config.total_bytes \in Nat
      BY <1>1, RecordType, InputType DEF Descriptor, Config
    <2>3. Listed.extent \in Extent
      BY <1>1, RecordType DEF Entry
    <2>4. Listed.extent.offset \in Nat /\ Listed.extent.length \in Nat
      BY <2>3 DEF Extent
    <2> QED BY <1>6, <2>1, <2>2, <2>4 DEF Inside
  <1>8. Verdict = "ok" /\ ~Truncated
    <2>1. Here.size \in Nat /\ cursor \in Nat /\ directory.extent.length \in Nat
      <3>1. Here \in Cell
        BY <1>1, RecordType
      <3> QED BY <1>1, <3>1, ReadingType DEF Cell
    <2> QED BY <1>5, <1>6, <1>7, <2>1 DEF Verdict, Truncated
  <1>9. Listing
    BY <1>5, <1>8 DEF SkipPadding, SkipSelfOrParent, RejectRecord, Rejected, Malformed
  <1>10. c = Listed
    <2>1. Listed = ChildAt(image.directories, Volume, AsEntry(directory), cursor)
      BY <1>9, ListedChild
    <2> QED BY <1>3, <2>1 DEF ChildAt, AsEntry
  <1>11. /\ Len(catalog.entries) + 1 \in 1..Len(catalog'.entries)
         /\ catalog'.entries[Len(catalog.entries) + 1] = c
    BY <1>9, <1>10, ListStep
  <1>12. Found(c)'
    BY <1>11 DEF Found
  <1> QED BY <1>2, <1>3, <1>12 DEF Found, ChildAt

LEMMA RecordsAccounted ==
    ASSUME TypeOK, ParsedVolumes, OnRecord, InTree, Accounted, Ended, Records, Whole'
    PROVE  \A q \in Folders' : (Waiting(q) \/ Scanned(q) \/ Settled(q))'
  <1>1. /\ Underway /\ catalog.volume # 0 /\ Grows
        /\ UNCHANGED <<input, catalog.volume, directory>>
    BY ListFrame, RecordsReport DEF Underway
  <1>2. Whole
    BY <1>1, ListFrame, RecordsReport DEF Whole, Ended, Underway
  <1>3. image' = image /\ Volume' = Volume
    BY <1>1, TreeFixed
  <1>4. /\ pending \in Seq(Location) /\ Len(catalog.entries) \in Nat /\ cursor \in Nat
        /\ directory.extent.length \in Nat
    <2>1. Len(catalog.entries) \in Nat /\ pending \in Seq(Location)
      BY CatalogFields DEF TypeOK
    <2> QED BY <1>1, <2>1, ReadingType
  <1>5. \A i \in 1..Len(pending) : i \in 1..Len(pending') /\ pending'[i] = pending[i]
    <2>1. CASE pending' = pending
      BY <2>1
    <2>2. CASE pending' # pending
      <3> DEFINE l == [path |-> Listed.path, extent |-> Listed.extent, depth |-> Listed.depth]
      <3>1. pending' = Append(pending, l)
        BY <2>2, ListFrame, ListStep
      <3> HIDE DEF l
      <3> QED BY <1>4, <3>1
    <2> QED BY <2>1, <2>2
  <1>6. ASSUME NEW q \in Folders
        PROVE  Waiting(q)' \/ Scanned(q)' \/ Settled(q)'
    <2>1. CASE Waiting(q)
      BY <1>5, <2>1 DEF Waiting
    <2>2. CASE Settled(q)
      BY <1>1, <2>2, StaysFound
    <2>3. CASE Scanned(q)
      <3>1. /\ phase = "records" /\ directory.path = q.path /\ directory.extent = q.extent
            /\ \A p \in StartsOf(image.directories, Volume, q) :
                  p < cursor /\ NamesChild(image.directories, Volume, q, p) =>
                      Found(ChildAt(image.directories, Volume, q, p))
        BY <2>3 DEF Scanned
      <3>2. ASSUME NEW e, Found(e) PROVE Found(e)'
        BY <1>1, <3>2, StaysFound
      <3>3. Starts = StartsOf(image.directories, Volume, q)
            /\ \A p \in Starts : p \in 0..directory.extent.length - 1
        BY <1>1, <3>1, ReadingType DEF Starts, StartsOf
      <3>4. CASE ReportProgress
        BY <3>1, <3>4 DEF ReportProgress
      <3>5. CASE StopAtTruncated
        <4>1. PICK issue : issue = [what |-> "truncated", path |-> directory.path]
          OBVIOUS
        <4>2. /\ Len(catalog'.issues) \in 1..Len(catalog'.issues)
              /\ catalog'.issues[Len(catalog'.issues)] = issue
          BY <3>5, <4>1, RecordsReport
        <4>3. Accounts(issue, q.path)'
          BY <3>1, <4>1 DEF Accounts
        <4> QED BY <4>2, <4>3 DEF Settled, Excused, Accounts
      <3>6. CASE EndOfDirectory
        <4>1. \A p \in Starts : p < cursor
          BY <1>4, <3>3, <3>6 DEF EndOfDirectory
        <4>2. ASSUME NEW c \in Children(image.directories, Volume, q) PROVE Found(c)'
          <5>1. PICK p \in StartsOf(image.directories, Volume, q) :
                   /\ c = ChildAt(image.directories, Volume, q, p)
                   /\ NamesChild(image.directories, Volume, q, p)
            BY ChildrenForm
          <5>2. Found(c)
            BY <3>1, <3>3, <4>1, <5>1
          <5> QED BY <3>2, <5>2
        <4> QED BY <1>3, <4>2 DEF Settled, Found
      <3>7. CASE SkipPadding \/ SkipSelfOrParent \/ RejectRecord \/ Listing
        <4>1. phase' = "records"
          <5>1. CASE Listing
            BY <5>1, ListStep DEF Whole
          <5>2. CASE SkipPadding \/ SkipSelfOrParent \/ RejectRecord
            BY <3>1, <5>2 DEF SkipPadding, SkipSelfOrParent, RejectRecord, Rejected
          <5> QED BY <3>7, <5>1, <5>2
        <4>2. ASSUME NEW p \in StartsOf(image.directories, Volume, q), p < cursor',
                     NEW c, c = ChildAt(image.directories, Volume, q, p),
                     NamesChild(image.directories, Volume, q, p)
              PROVE  Found(c)'
          <5>1. CASE p < cursor
            BY <3>1, <3>2, <4>2, <5>1
          <5>2. CASE p = cursor
            <6>1. Found(ChildAt(image.directories, Volume, q, p))'
              BY <3>1, <3>7, <4>2, <5>2, RecordAccounted
            <6> QED BY <1>3, <4>2, <6>1 DEF Found, ChildAt
          <5> QED BY <3>1, <3>3, <4>1, <4>2, <5>1, <5>2, Passed
        <4>3. \A p \in StartsOf(image.directories, Volume, q)' :
                 p < cursor' /\ NamesChild(image.directories, Volume, q, p)' =>
                     Found(ChildAt(image.directories, Volume, q, p))'
          <5>1. ASSUME NEW p \in StartsOf(image.directories, Volume, q), p < cursor',
                       NamesChild(image.directories, Volume, q, p)
                PROVE  Found(ChildAt(image.directories, Volume, q, p))'
            <6>1. PICK c : c = ChildAt(image.directories, Volume, q, p)
              OBVIOUS
            <6>2. Found(c)'
              BY <4>2, <5>1, <6>1
            <6> QED BY <1>3, <6>1, <6>2 DEF Found, ChildAt
          <5>2. StartsOf(image.directories, Volume, q)' = StartsOf(image.directories, Volume, q)
                /\ \A p : NamesChild(image.directories, Volume, q, p)'
                              => NamesChild(image.directories, Volume, q, p)
            BY <1>3 DEF StartsOf, NamesChild, ChildAt
          <5> QED BY <5>1, <5>2
        <4> QED BY <1>1, <3>1, <4>1, <4>3 DEF Scanned
      <3> QED BY <3>4, <3>5, <3>6, <3>7 DEF Records, Listing
    <2> QED BY <1>1, <1>2, <2>1, <2>2, <2>3 DEF Accounted
  <1>7. CASE ~Listing
    <2>1. Folders' = Folders
      BY <1>1, <1>7, ListFrame, FoldersSame
    <2> QED BY <1>6, <2>1
  <1>8. CASE Listing
    <2> DEFINE l == [path |-> Listed.path, extent |-> Listed.extent, depth |-> Listed.depth]
    <2>1. ASSUME NEW q \in Folders'
          PROVE  q \in Folders \/ (q = Listed /\ Listed.directory)
      <3>1. CASE q = Top(Volume.root)
        BY <3>1 DEF Folders
      <3>2. CASE q # Top(Volume.root)
        <4>1. PICK i \in 1..Len(catalog'.entries) :
                 q = catalog'.entries[i] /\ catalog'.entries[i].directory
          BY <1>3, <2>1, <3>2 DEF Folders, Top
        <4>2. i \in 1..Len(catalog.entries) \/ i = Len(catalog.entries) + 1
          BY <1>4, <1>8, ListStep
        <4> QED BY <1>8, <4>1, <4>2, ListStep DEF Folders
      <3> QED BY <3>1, <3>2
    <2>2. ASSUME NEW q, q = Listed, Listed.directory PROVE Waiting(q)' \/ Settled(q)'
      <3>1. ~catalog'.limit_reached
        BY DEF Whole
      <3>2. CASE Listed.extent.length > config.max_directory_bytes
        <4>1. PICK issue : issue = [what |-> "oversize", path |-> Listed.path]
          OBVIOUS
        <4>2. catalog'.issues = Append(catalog.issues, issue)
          BY <1>8, <2>2, <3>1, <3>2, <4>1, ListStep
        <4>3. catalog.issues \in Seq(Issue)
          BY CatalogFields DEF TypeOK
        <4>4. /\ Len(catalog'.issues) \in 1..Len(catalog'.issues)
              /\ catalog'.issues[Len(catalog'.issues)] = issue
          BY <4>2, <4>3
        <4>5. Accounts(issue, q.path)'
          BY <2>2, <4>1 DEF Accounts
        <4> QED BY <4>4, <4>5 DEF Settled, Excused, Accounts
      <3>3. CASE ~(Listed.extent.length > config.max_directory_bytes)
        <4>1. pending' = Append(pending, l)
          BY <1>8, <2>2, <3>1, <3>3, ListStep
        <4>2. l.path = q.path /\ l.extent = q.extent
          BY <2>2
        <4> HIDE DEF l
        <4>3. Len(pending) + 1 \in 1..Len(pending') /\ pending'[Len(pending) + 1] = l
          BY <1>4, <4>1
        <4> QED BY <4>2, <4>3 DEF Waiting
      <3> QED BY <3>2, <3>3
    <2> QED BY <1>6, <2>1, <2>2
  <1> QED BY <1>7, <1>8

LEMMA AccountedStep ==
    ASSUME TypeOK, ParsedVolumes, Chosen, OnRecord, InTree, Parented, Untouched, Accounted,
           Ended, [Next]_vars
    PROVE  Accounted'
  <1>1. CASE Scanning
    <2>1. CASE catalog'.volume = 0
      BY <2>1 DEF Accounted
    <2>2. CASE /\ catalog'.entries = <<>>
               /\ pending' = <<[path |-> <<>>, extent |-> Volume'.root, depth |-> 0]>>
      <3>1. PICK l : l = [path |-> <<>>, extent |-> Volume'.root, depth |-> 0]
        OBVIOUS
      <3>2. PICK q : q = Top(Volume'.root)
        OBVIOUS
      <3>3. 1..Len(catalog'.entries) = {}
        <4>1. Len(catalog'.entries) = 0
          BY <2>2
        <4> QED BY <4>1
      <3>4. Folders' = {q}
        BY <3>2, <3>3 DEF Folders, Top
      <3>5. q.path = l.path /\ q.extent = l.extent
        BY <3>1, <3>2 DEF Top
      <3>6. 1 \in 1..Len(pending') /\ pending'[1] = l
        <4>1. pending' = <<l>>
          BY <2>2, <3>1
        <4> QED BY <4>1
      <3>7. Waiting(q)'
        BY <3>5, <3>6 DEF Waiting
      <3> QED BY <3>4, <3>7 DEF Accounted
    <2> QED BY <1>1, <2>1, <2>2, ScanFrame
  <1>2. CASE Walk
    BY <1>2, WalkAccounted DEF Accounted
  <1>3. CASE Records
    BY <1>3, RecordsAccounted DEF Accounted
  <1>4. CASE Returned \/ UNCHANGED vars
    <2>1. /\ UNCHANGED <<catalog, pending, phase, directory, cursor, result, input>>
          /\ UNCHANGED <<input, catalog.volume>>
      BY <1>4 DEF Returned, vars
    <2>2. image' = image /\ Volume' = Volume
      BY <2>1, TreeFixed
    <2>3. Folders' = Folders
      BY <2>1, FoldersSame
    <2>4. ASSUME NEW q \in Folders, Waiting(q) \/ Scanned(q) \/ Settled(q)
          PROVE  Waiting(q)' \/ Scanned(q)' \/ Settled(q)'
      <3>1. Grows
        BY <2>1 DEF Grows
      <3>2. CASE Settled(q)
        BY <2>1, <3>1, <3>2, StaysFound
      <3>3. CASE Waiting(q)
        BY <2>1, <3>3 DEF Waiting
      <3>4. CASE Scanned(q)
        <4>1. ASSUME NEW e, Found(e) PROVE Found(e)'
          BY <2>1, <4>1 DEF Found
        <4>2. StartsOf(image.directories, Volume, q)' = StartsOf(image.directories, Volume, q)
              /\ \A p : NamesChild(image.directories, Volume, q, p)'
                            => NamesChild(image.directories, Volume, q, p)
          BY <2>2 DEF StartsOf, NamesChild, ChildAt
        <4>3. ASSUME NEW p \in StartsOf(image.directories, Volume, q), p < cursor,
                     NamesChild(image.directories, Volume, q, p)
              PROVE  Found(ChildAt(image.directories, Volume, q, p))'
          <5>1. PICK c : c = ChildAt(image.directories, Volume, q, p)
            OBVIOUS
          <5>2. Found(c)'
            BY <3>4, <4>1, <4>3, <5>1 DEF Scanned
          <5> QED BY <2>2, <5>1, <5>2 DEF Found, ChildAt
        <4> QED BY <2>1, <3>4, <4>2, <4>3 DEF Scanned
      <3> QED BY <2>4, <3>2, <3>3, <3>4
    <2> QED BY <2>1, <2>3, <2>4 DEF Accounted, Whole
  <1> QED BY <1>1, <1>2, <1>3, <1>4, NextSplit

LEMMA ListingAlways == Spec => [](TypeOK /\ Safe /\ ListingInv)
  <1>1. Init => ListingInv
    <2> SUFFICES ASSUME Init PROVE ListingInv
      OBVIOUS
    <2>1. /\ catalog.volume = 0 /\ Len(catalog.entries) = 0 /\ Len(pending) = 0
          /\ catalog.limit_reached = FALSE
      BY DEF Init, EmptyCatalog
    <2>2. phase = "config" /\ result = "none" /\ visited = {}
      BY DEF Init
    <2>3. Unstarted
      BY DEF Init, Unstarted, EmptyCatalog
    <2> QED BY <2>1, <2>2, <2>3
         DEF ListingInv, Chosen, OnRecord, InTree, Ordered, Ascending, Parented, Untouched,
             Accounted, Ended, Whole, Underway, Walking
  <1>2. TypeOK /\ Safe /\ ListingInv /\ [Next]_vars => ListingInv'
    BY ChosenStep, OnRecordStep, InTreeStep, OrderedStep, ParentedStep, UntouchedStep,
       AccountedStep, EndedStep DEF ListingInv, Safe
  <1> QED BY <1>1, <1>2, SafeAlways, PTL DEF Spec

\* A part of the tree that is missing is accounted for above its path.
Covered(e) ==
    \/ \E i \in 1..Len(catalog.entries) : catalog.entries[i] = e
    \/ \E i \in 1..Len(catalog.issues), n \in 0..Len(e.path) - 1 :
          Accounts(catalog.issues[i], SubSeq(e.path, 1, n))

\* Once the queue is empty every directory known is settled, so by induction on the
\* depth everything in the tree is covered.
LEMMA AllCovered ==
    ASSUME TypeOK, ListingInv, Walked, result = "ok", Whole, phase = "returned"
    PROVE  \A d \in 1..config.max_depth + 1 : \A e \in Tree[d] : Covered(e)
  <1>1. catalog.volume # 0 /\ pending = <<>> /\ config.max_depth \in Nat
    BY TreeUnfold DEF ListingInv, Ended, Walked
  <1>2. \A q \in Folders : Settled(q)
    <2>1. Len(pending) = 0
      BY <1>1
    <2>2. \A q : ~Waiting(q) /\ ~Scanned(q)
      BY <2>1 DEF Waiting, Scanned
    <2> QED BY <1>1, <2>2 DEF ListingInv, Accounted
  <1> DEFINE T == {d \in 1..config.max_depth + 1 : ~\A e \in Tree[d] : Covered(e)}
  <1> SUFFICES ASSUME T # {} PROVE FALSE
    OBVIOUS
  <1>3. PICK d \in T : \A m \in T : d <= m
    <2>1. T \in SUBSET Nat
      <3> HIDE DEF Tree
      <3> QED BY <1>1
    <2> HIDE DEF T
    <2> QED BY <2>1, LeastElement
  <1>4. d \in 1..config.max_depth + 1 /\ d - 1 \in 0..config.max_depth
    <2>1. d \in 1..config.max_depth + 1
      <3> HIDE DEF Tree
      <3> QED OBVIOUS
    <2> HIDE DEF T, Tree
    <2> QED BY <1>1, <2>1
  <1>5. PICK c \in Tree[d] : ~Covered(c)
    <2> HIDE DEF Tree, Covered
    <2> QED OBVIOUS
  <1>6. PICK e \in Tree[d - 1] :
           e.directory /\ c \in Children(image.directories, Volume, e)
    <2>1. Tree[d] = Below(image.directories, Volume, Tree[d - 1])
      BY <1>1, <1>4, TreeUnfold
    <2> HIDE DEF Tree, T
    <2> QED BY <1>5, <2>1 DEF Below
  <1>7. e \in Entry /\ Len(e.path) = d - 1 /\ c \in Entry
        /\ \E x \in Name : c.path = Append(e.path, x)
    <2>1. d - 1 \in 0..config.max_depth + 1
      BY <1>1, <1>4
    <2>2. e \in Entry /\ Len(e.path) = d - 1
      BY <1>1, <1>6, <2>1, TreeType
    <2>3. e.path \in Seq(Name) /\ e.extent \in Extent
      BY <2>2 DEF Entry, Path
    <2> QED BY <1>1, <1>6, <2>2, <2>3, ChildType
  <1>8. PICK x \in Name : c.path = Append(e.path, x)
    BY <1>7
  <1>9. /\ e.path \in Seq(Name) /\ Len(e.path) \in 0..Len(c.path) - 1
        /\ \A n \in 0..Len(e.path) : n \in 0..Len(c.path) - 1
                                     /\ SubSeq(c.path, 1, n) = SubSeq(e.path, 1, n)
        /\ SubSeq(e.path, 1, Len(e.path)) = e.path
    <2>1. e.path \in Seq(Name) /\ c.path \in Seq(Name)
      BY <1>7 DEF Entry, Path
    <2>2. Len(c.path) = Len(e.path) + 1 /\ \A i \in 1..Len(e.path) : c.path[i] = e.path[i]
      BY <1>8, <2>1
    <2>3. SubSeq(e.path, 1, Len(e.path)) = e.path
      BY <2>1
    <2>4. ASSUME NEW n \in 0..Len(e.path)
          PROVE  n \in 0..Len(c.path) - 1 /\ SubSeq(c.path, 1, n) = SubSeq(e.path, 1, n)
      <3>1. n \in 0..Len(c.path) - 1 /\ n \in Nat /\ Len(e.path) \in Nat
        BY <2>1, <2>2
      <3>2. \A i \in 1..n : c.path[i] = e.path[i]
        BY <2>2, <3>1
      <3> QED BY <2>1, <3>1, <3>2
    <2>5. Len(e.path) \in 0..Len(c.path) - 1
      BY <2>1, <2>2
    <2> QED BY <2>1, <2>3, <2>4, <2>5
  <1>10. ~Found(c)
    BY <1>5 DEF Covered, Found
  <1>11. e \in Folders
    <2>1. CASE d = 1
      <3>1. e = Top(Volume.root)
        <4>1. Tree[0] = {Top(Volume.root)} /\ d - 1 = 0
          BY <1>1, <2>1, TreeUnfold
        <4> HIDE DEF Tree
        <4> QED BY <1>6, <4>1
      <3> QED BY <3>1 DEF Folders
    <2>2. CASE d # 1
      <3>1. d - 1 \in 1..config.max_depth + 1 /\ ~(d <= d - 1)
        BY <1>1, <1>4, <2>2
      <3>2. Covered(e)
        <4>1. d - 1 \notin T
          <5> HIDE DEF T
          <5> QED BY <1>3, <3>1
        <4> HIDE DEF Tree, Covered
        <4> QED BY <1>6, <3>1, <4>1
      <3>3. ASSUME NEW i \in 1..Len(catalog.issues), NEW n \in 0..Len(e.path) - 1,
                   Accounts(catalog.issues[i], SubSeq(e.path, 1, n))
            PROVE  FALSE
        <4>1. n \in 0..Len(e.path)
          BY <1>9
        <4>2. n \in 0..Len(c.path) - 1 /\ SubSeq(c.path, 1, n) = SubSeq(e.path, 1, n)
          BY <1>9, <4>1
        <4>3. Covered(c)
          BY <3>3, <4>2 DEF Covered
        <4> QED BY <1>5, <4>3
      <3> QED BY <1>6, <3>2, <3>3 DEF Covered, Folders
    <2> QED BY <2>1, <2>2
  <1>12. Excused(e.path)
    BY <1>2, <1>6, <1>10, <1>11 DEF Settled
  <1>13. Covered(c)
    <2>1. SubSeq(c.path, 1, Len(e.path)) = e.path
      <3>1. Len(e.path) \in 0..Len(e.path)
        BY <1>9
      <3> QED BY <1>9, <3>1
    <2> QED BY <1>9, <1>12, <2>1 DEF Excused, Covered
  <1> QED BY <1>5, <1>13

\* A catalog that is neither cancelled nor cut at a limit lacks nothing of the tree
\* without an issue that names a directory above it; one that is cut at a limit had
\* a reason.
THEOREM OmissionsAreReported == Spec => []OmissionsReported
  <1>1. TypeOK /\ ListingInv => OmissionsReported
    <2> SUFFICES ASSUME TypeOK, ListingInv, Walked, ~catalog.cancelled
                 PROVE  OmissionsReported
      BY DEF OmissionsReported
    <2>1. result = "ok" /\ phase = "returned"
      BY DEF Walked, ListingInv, Ended
    <2>2. CASE catalog.limit_reached
      BY <2>2 DEF OmissionsReported, ListingInv, Ended
    <2>3. CASE ~catalog.limit_reached
      <3>1. ASSUME NEW e \in ReferenceListing PROVE Covered(e)
        <4>1. PICK d \in 1..config.max_depth + 1 : e \in Tree[d]
          <5> HIDE DEF Tree
          <5> QED BY DEF ReferenceListing
        <4>2. Whole
          BY <2>1, <2>3 DEF Whole
        <4> HIDE DEF Tree
        <4> QED BY <2>1, <4>1, <4>2, AllCovered
      <3> QED BY <2>3, <3>1 DEF OmissionsReported, Covered
    <2> QED BY <2>2, <2>3
  <1> QED BY <1>1, ListingAlways, PTL
-----------------------------------------------------------------------------
(***************************************************************************)
(* The volume that is walked.                                              *)
(***************************************************************************)
KindAt(i) == image.descriptors[i].kind

\* Of the descriptors scanned so far the last of its kind is remembered, and the scan
\* has not gone past a terminator.
LastOf(kind, latest) ==
    /\ latest # 0 => KindAt(latest) = kind
    /\ \A i \in 1..index : KindAt(i) = kind => i <= latest

ScannedInOrder ==
    /\ LastOf("primary", primary)
    /\ LastOf("joliet", joliet)
    /\ phase \in {"config", "descriptors"} =>
          \A i \in 1..index : KindAt(i) # "terminator"
    /\ phase = "select" =>
          /\ index # 0 /\ KindAt(index) = "terminator"
          /\ \A i \in 1..index - 1 : KindAt(i) # "terminator"

\* Only two steps matter: one descriptor more, and the choice.
LEMMA VolumeFrame ==
    ASSUME TypeOK, Chosen, [Next]_vars
    PROVE  /\ UNCHANGED image
           /\ \/ ReadDescriptor
              \/ SelectVolume
              \/ /\ UNCHANGED <<index, primary, joliet>>
                 /\ catalog'.volume \in {catalog.volume, 0}
                 /\ phase' \in {"config", "descriptors"} => phase \in {"config", "descriptors"}
                 /\ phase' = "select" => phase = "select"
  <1>1. CASE Scanning
    <2>1. UNCHANGED image
      BY <1>1, ScanFrame DEF image
    <2>2. CASE CancelScan
      BY <2>1, <2>2 DEF CancelScan, Return, EmptyCatalog
    <2>3. CASE ~ReadDescriptor /\ ~SelectVolume /\ ~CancelScan
      BY <1>1, <2>1, <2>3
         DEF Scanning, Scan, RejectConfig, AcceptConfig, DescriptorOutsideSource,
             DescriptorReadFails, NoTerminator, RejectVolume, Fail
    <2> QED BY <2>1, <2>2, <2>3
  <1>2. CASE Walk
    <2>1. UNCHANGED image /\ UNCHANGED catalog.volume
          /\ phase' \notin {"config", "descriptors", "select"}
      BY <1>2, WalkFrame DEF image
    <2>2. UNCHANGED <<index, primary, joliet>>
      BY <1>2 DEF Walk, ReturnCatalog, CancelWalk, StopAtLimit, SkipVisited,
                  DirectoryReadFails, ReadDirectory
    <2> QED BY <2>1, <2>2
  <1>3. CASE Records
    <2>1. UNCHANGED image /\ UNCHANGED catalog.volume
          /\ phase' \notin {"config", "descriptors", "select"}
      BY <1>3, ListFrame DEF image
    <2>2. UNCHANGED <<index, primary, joliet>>
      BY <1>3 DEF Records, SkipPadding, StopAtTruncated, SkipSelfOrParent, RejectRecord,
                  ListFile, ListTooDeep, ListOversize, ListDirectory, EndOfDirectory,
                  ReportProgress
    <2> QED BY <2>1, <2>2
  <1>4. CASE Returned \/ UNCHANGED vars
    BY <1>4 DEF Returned, vars, image
  <1> QED BY <1>1, <1>2, <1>3, <1>4, NextSplit

LEMMA OrderStep ==
    ASSUME TypeOK, Chosen, ScannedInOrder, [Next]_vars
    PROVE  ScannedInOrder'
  <1>1. UNCHANGED image
    BY VolumeFrame
  <1>2. index \in Nat /\ primary \in 0..index /\ joliet \in 0..index
    BY DEF TypeOK
  <1>3. CASE ReadDescriptor /\ UNCHANGED index
    <2>1. UNCHANGED <<primary, joliet>> /\ phase' \notin {"config", "descriptors", "select"}
      BY <1>2, <1>3 DEF ReadDescriptor, Fail
    <2> QED BY <1>1, <1>3, <2>1 DEF ScannedInOrder, LastOf, KindAt
  <1>4. CASE ReadDescriptor /\ ~UNCHANGED index
    <2>1. PICK k : k = KindAt(index + 1)
      OBVIOUS
    <2>2. /\ phase = "descriptors" /\ index' = index + 1
          /\ phase' = IF k = "terminator" THEN "select" ELSE phase
          /\ primary' = IF k = "primary" THEN index + 1 ELSE primary
          /\ joliet' = IF k = "joliet" THEN index + 1 ELSE joliet
      BY <1>4, <2>1 DEF ReadDescriptor, MoreDescriptors, KindAt
    <2>3. \A i \in 1..index : KindAt(i) # "terminator"
      BY <2>2 DEF ScannedInOrder
    <2>4. \A i : KindAt(i)' = KindAt(i)
      BY <1>1 DEF KindAt
    <2>5. \A i \in 1..index' : i \in 1..index \/ (i = index + 1 /\ KindAt(i) = k)
      BY <1>2, <2>1, <2>2
    <2>6. LastOf("primary", primary)'
      BY <1>2, <2>1, <2>2, <2>4, <2>5 DEF ScannedInOrder, LastOf
    <2>7. LastOf("joliet", joliet)'
      BY <1>2, <2>1, <2>2, <2>4, <2>5 DEF ScannedInOrder, LastOf
    <2>8. phase' \in {"config", "descriptors"} =>
             \A i \in 1..index' : KindAt(i)' # "terminator"
      BY <2>2, <2>3, <2>4, <2>5
    <2>9. phase' = "select" =>
             /\ index' # 0 /\ KindAt(index)' = "terminator"
             /\ \A i \in 1..index' - 1 : KindAt(i)' # "terminator"
      <3>1. index' # 0 /\ index' - 1 = index
        BY <1>2, <2>2
      <3>2. KindAt(index)' = k
        BY <1>1, <2>1, <2>2 DEF KindAt
      <3> QED BY <2>2, <2>3, <2>4, <3>1, <3>2
    <2> QED BY <2>6, <2>7, <2>8, <2>9 DEF ScannedInOrder
  <1>5. CASE SelectVolume
    <2>1. UNCHANGED <<index, primary, joliet>> /\ phase' = "walk"
      BY <1>5 DEF SelectVolume
    <2> QED BY <1>1, <2>1 DEF ScannedInOrder, LastOf, KindAt
  <1>6. CASE /\ UNCHANGED <<index, primary, joliet>>
             /\ phase' \in {"config", "descriptors"} => phase \in {"config", "descriptors"}
             /\ phase' = "select" => phase = "select"
    BY <1>1, <1>6 DEF ScannedInOrder, LastOf, KindAt
  <1> QED BY <1>3, <1>4, <1>5, <1>6, VolumeFrame

\* When the choice is made the descriptors announced are those scanned.
LEMMA AnnouncedAreScanned ==
    ASSUME TypeOK, ScannedInOrder, phase = "select", NEW kind \in {"primary", "joliet"}
    PROVE  Announced(kind) = {i \in 1..index : KindAt(i) = kind}
  <1>1. index \in Nat /\ Len(image.descriptors) \in Nat /\ index <= Len(image.descriptors)
    BY InputType DEF TypeOK
  <1>2. /\ index # 0 /\ KindAt(index) = "terminator"
        /\ \A i \in 1..index - 1 : KindAt(i) # "terminator"
    BY DEF ScannedInOrder
  <1>3. ASSUME NEW i \in Announced(kind) PROVE i \in 1..index /\ KindAt(i) = kind
    <2>1. i \in 1..Len(image.descriptors) /\ KindAt(i) = kind
      BY DEF Announced, KindAt
    <2>2. \A j \in 1..i - 1 : KindAt(j) # "terminator"
      BY DEF Announced, KindAt
    <2>3. ~(index \in 1..i - 1)
      BY <1>2, <2>2
    <2> QED BY <1>1, <1>2, <2>1, <2>3
  <1>4. ASSUME NEW i \in 1..index, KindAt(i) = kind PROVE i \in Announced(kind)
    <2>1. i # index
      BY <1>2, <1>4
    <2>2. \A j \in 1..i - 1 : j \in 1..index - 1
      BY <1>1, <2>1
    <2>3. \A j \in 1..i - 1 : KindAt(j) # "terminator"
      BY <1>2, <2>2
    <2>4. i \in 1..Len(image.descriptors)
      BY <1>1
    <2> QED BY <1>4, <2>3, <2>4 DEF Announced, KindAt
  <1> QED BY <1>3, <1>4

LEMMA PreferredStep ==
    ASSUME TypeOK, Chosen, ScannedInOrder, VolumePreferred, [Next]_vars
    PROVE  VolumePreferred'
  <1>1. \A kind : Announced(kind)' = Announced(kind)
    BY VolumeFrame DEF Announced
  <1>2. CASE SelectVolume
    <2>1. /\ phase = "select" /\ primary # 0 /\ catalog'.volume = Selected
      BY <1>2, ScanFrame DEF SelectVolume, Scanning, Scan
    <2>2. index \in Nat /\ primary \in 0..index /\ joliet \in 0..index
      BY DEF TypeOK
    <2>3. /\ Announced("primary") = {i \in 1..index : KindAt(i) = "primary"}
          /\ Announced("joliet") = {i \in 1..index : KindAt(i) = "joliet"}
      BY <2>1, AnnouncedAreScanned
    <2>4. LastOf("primary", primary) /\ LastOf("joliet", joliet)
      BY DEF ScannedInOrder
    <2>5. primary \in Announced("primary") /\ \A i \in Announced("primary") : i <= primary
      BY <2>1, <2>2, <2>3, <2>4 DEF LastOf
    <2>6. joliet # 0 =>
             joliet \in Announced("joliet") /\ \A i \in Announced("joliet") : i <= joliet
      BY <2>2, <2>3, <2>4 DEF LastOf
    <2>7. joliet = 0 => Announced("joliet") = {}
      BY <2>2, <2>3, <2>4 DEF LastOf
    <2> QED BY <1>1, <2>1, <2>5, <2>6, <2>7 DEF VolumePreferred, Selected
  <1>3. CASE ReadDescriptor
    <2>1. catalog'.volume = catalog.volume
      BY <1>3 DEF ReadDescriptor, TypeOK, Catalog
    <2> QED BY <1>1, <2>1 DEF VolumePreferred
  <1>4. CASE catalog'.volume \in {catalog.volume, 0}
    BY <1>1, <1>4 DEF VolumePreferred
  <1> QED BY <1>2, <1>3, <1>4, VolumeFrame

\* In whatever order an image announces its volumes, the one that is walked is the last
\* Joliet volume before the end of the descriptor set, and the last primary one where
\* there is no Joliet volume; without a primary volume none is walked.
THEOREM JolietIsPreferred == Spec => []VolumePreferred
  <1>1. Init => ScannedInOrder /\ VolumePreferred
    BY DEF Init, EmptyCatalog, ScannedInOrder, LastOf, VolumePreferred
  <1>2. /\ TypeOK /\ ListingInv /\ ScannedInOrder /\ VolumePreferred /\ [Next]_vars
        => ScannedInOrder' /\ VolumePreferred'
    BY OrderStep, PreferredStep DEF ListingInv
  <1> QED BY <1>1, <1>2, ListingAlways, PTL DEF Spec

\* Whatever the directories link to, a listed entry is in the tree of the preferred
\* volume, under its path and at its depth; parents come before children, and entries are
\* listed level by level.
THEOREM ListedIsInTheTree == Spec => []ListingIsSound
  <1>1. TypeOK /\ ListingInv /\ VolumePreferred => ListingIsSound
    <2> SUFFICES ASSUME TypeOK, ListingInv, VolumePreferred, catalog.volume # 0,
                        NEW i \in 1..Len(catalog.entries)
                 PROVE  /\ catalog.entries[i] \in ReferenceListing
                        /\ \A j \in 1..i : catalog.entries[j].depth <= catalog.entries[i].depth
                        /\ \/ catalog.entries[i].depth = 1
                           \/ \E j \in 1..i - 1 :
                                /\ catalog.entries[j].directory
                                /\ Append(catalog.entries[j].path,
                                          catalog.entries[i].path[Len(catalog.entries[i].path)])
                                       = catalog.entries[i].path
      BY DEF ListingIsSound, Walked
    <2>1. /\ catalog.entries[i].depth \in 1..config.max_depth + 1
          /\ catalog.entries[i] \in Tree[catalog.entries[i].depth]
      BY DEF ListingInv, InTree
    <2>2. catalog.entries[i] \in ReferenceListing
      <3> HIDE DEF Tree
      <3> QED BY <2>1 DEF ReferenceListing
    <2> QED BY <2>2 DEF ListingInv, Ordered, Ascending, Parented
  <1> QED BY <1>1, ListingAlways, JolietIsPreferred, PTL
=============================================================================
