-------------------------- MODULE UdfCatalogProofs --------------------------
(***************************************************************************)
(* Proofs about UdfCatalog, for every image and every configuration.       *)
(***************************************************************************)
EXTENDS UdfCatalog, SequenceTheorems, WellFoundedInduction, TLAPS

Walking == {"walk", "records", "progress"}

TypeOK ==
    /\ input \in Inputs
    /\ phase \in {"config", "recognition", "anchor", "backup", "descriptors", "volume",
                  "returned"} \cup Walking
    /\ index \in Nat \ {0}
    /\ seen \subseteq {"BEA", "NSR"}
    /\ partition \in 0..Len(image.descriptors)
    /\ logical \in 0..Len(image.descriptors)
    /\ catalog \in Catalog
    /\ pending \in Seq(Location)
    /\ visited \subseteq Icb
    /\ directory \in Location
    /\ cursor \in Nat \ {0}
    /\ result \in {"none", "ok", "error"}
    /\ phase \in {"records", "progress"} => Readable(directory.icb)

\* Nothing is queued, visited or listed before a volume is chosen, and then it is
\* the volume of the logical volume descriptor.
Chosen ==
    /\ phase \notin Walking \cup {"returned"} => catalog.volume = 0
    /\ phase \in Walking => catalog.volume # 0
    /\ catalog.volume = 0 => catalog = EmptyCatalog /\ pending = <<>> /\ visited = {}
    /\ catalog.volume # 0 => catalog.volume = logical

-----------------------------------------------------------------------------
(* What the arguments and the parts of the state look like.                *)

LEMMA InputType ==
    ASSUME TypeOK
    PROVE  /\ config \in Config
           /\ image.recognition \in Seq({"BEA", "NSR", "TEA", "other"})
           /\ image.descriptor_extent \in [offset : Nat, length : Nat]
           /\ image.descriptors \in Seq(Descriptor)
           /\ \A icb \in DOMAIN image.entries :
                 icb \in Icb /\ image.entries[icb] \in FileEntry
  BY InputsAssumption DEF TypeOK, config, image

LEMMA InputFixed ==
    ASSUME [Next]_vars
    PROVE  input' = input /\ config' = config /\ image' = image
  BY DEF Next, vars, Start, ReadFails, ReadRecognition, NoRecognition, ReadAnchor,
         TryBackup, NoBackup, ReadDescriptor, NoTerminator, SelectVolume, FinishWalk,
         CancelWalk, SkipVisited, StopAtLimit, DirectoryFails, SkipDirectory,
         ReadDirectory, BrokenRecord, SkipRecord, RejectRecord, RefuseName, ListRecord,
         EndOfDirectory, ReportProgress, Returned, Fail, Return, config, image

LEMMA CatalogFields ==
    ASSUME NEW c \in Catalog
    PROVE  /\ c.volume \in Nat /\ c.entries \in Seq(Entry)
           /\ c.directories_read \in Nat
           /\ c.cancelled \in BOOLEAN /\ c.limit_reached \in BOOLEAN
           /\ c.issues \in Seq(Issue)
  BY DEF Catalog

\* How the walk updates a catalog, field by field.
LEMMA CatalogReport ==
    ASSUME NEW c \in Catalog, NEW issue \in Issue
    PROVE  /\ Report(c, issue) \in Catalog
           /\ Report(c, issue) = [c EXCEPT !.issues = Append(c.issues, issue)]
           /\ Report(c, issue).issues = Append(c.issues, issue)
           /\ Report(c, issue).volume = c.volume
           /\ Report(c, issue).entries = c.entries
           /\ Report(c, issue).directories_read = c.directories_read
           /\ Report(c, issue).cancelled = c.cancelled
           /\ Report(c, issue).limit_reached = c.limit_reached
  <1>1. Append(c.issues, issue) \in Seq(Issue)
    BY CatalogFields
  <1> QED BY <1>1 DEF Catalog, Report

LEMMA CatalogEntry ==
    ASSUME NEW c \in Catalog, NEW entry \in Entry, NEW b \in BOOLEAN
    PROVE  LET d == [c EXCEPT !.entries = Append(@, entry), !.limit_reached = b]
           IN  /\ d \in Catalog
               /\ d.entries = Append(c.entries, entry)
               /\ d.volume = c.volume
               /\ d.directories_read = c.directories_read
               /\ d.cancelled = c.cancelled
               /\ d.limit_reached = b
               /\ d.issues = c.issues
  <1>1. Append(c.entries, entry) \in Seq(Entry)
    BY CatalogFields
  <1> QED BY <1>1 DEF Catalog

\* The head of the queue.
LEMMA PoppedType ==
    ASSUME TypeOK, Popped
    PROVE  /\ Head(pending) \in Location /\ Head(pending).icb \in Icb
           /\ pending' \in Seq(Location)
           /\ pending \in Seq(Location) /\ pending # <<>>
           /\ Head(pending) = pending[1] /\ 1 \in 1..Len(pending)
           /\ Len(pending') = Len(pending) - 1
           /\ \A i \in 1..Len(pending') : pending'[i] = pending[i + 1]
  <1>1. pending \in Seq(Location) /\ pending # <<>> /\ pending' = Tail(pending)
    BY DEF TypeOK, Popped
  <1>2. Head(pending) \in Location /\ Tail(pending) \in Seq(Location)
    BY <1>1, HeadTailProperties
  <1>3. Head(pending).icb \in Icb
    BY <1>2 DEF Location
  <1> QED BY <1>1, <1>2, <1>3

\* The record at the cursor, and the entry it would be listed as.
LEMMA RecordType ==
    ASSUME TypeOK, AtRecord
    PROVE  /\ Records \in Seq(Record)
           /\ cursor \in 1..Len(Records)
           /\ Identifier \in Record
           /\ Identifier.name \in Name /\ Identifier.icb \in Icb
           /\ directory.path \in Seq(Name) /\ directory.depth \in Nat
           /\ Append(directory.path, Identifier.name) \in Seq(Name)
           /\ Readable(Identifier.icb) => Listed \in Entry
  <1>1. directory.icb \in DOMAIN image.entries
    BY DEF TypeOK, AtRecord, Readable, Known
  <1>2. Records \in Seq(Record)
    BY <1>1, InputType DEF Records, FileEntry
  <1>3. cursor \in 1..Len(Records)
    BY <1>2 DEF TypeOK, AtRecord
  <1>4. Identifier \in Record
    BY <1>2, <1>3 DEF Identifier
  <1>5. Identifier.name \in Name /\ Identifier.icb \in Icb
    BY <1>4 DEF Record
  <1>6. directory.path \in Seq(Name) /\ directory.depth \in Nat
    BY DEF TypeOK, Location
  <1>7. Append(directory.path, Identifier.name) \in Seq(Name)
    BY <1>5, <1>6
  <1>8. ASSUME Readable(Identifier.icb) PROVE Listed \in Entry
    <2>1. image.entries[Identifier.icb] \in FileEntry
      BY <1>8, InputType DEF Readable, Known
    <2>2. image.entries[Identifier.icb].directory \in BOOLEAN
      BY <2>1 DEF FileEntry
    <2> QED BY <2>2, <1>5, <1>6, <1>7 DEF Listed, Entry
  <1> QED BY <1>2, <1>3, <1>4, <1>5, <1>6, <1>7, <1>8

-----------------------------------------------------------------------------
(* Type correctness, one lemma for each of the three loops.                *)

Scanning ==
    \/ Start \/ ReadFails \/ ReadRecognition \/ NoRecognition \/ ReadAnchor
    \/ TryBackup \/ NoBackup \/ ReadDescriptor \/ NoTerminator \/ SelectVolume

Visiting ==
    \/ FinishWalk \/ CancelWalk \/ SkipVisited \/ StopAtLimit \/ DirectoryFails
    \/ SkipDirectory \/ ReadDirectory

Listing ==
    \/ BrokenRecord \/ SkipRecord \/ RejectRecord \/ ListRecord
    \/ EndOfDirectory \/ ReportProgress

Typed == TypeOK /\ Chosen

LEMMA InitType == Init => Typed
  <1> SUFFICES ASSUME Init PROVE Typed
    OBVIOUS
  <1>1. catalog \in Catalog /\ catalog.volume = 0 /\ catalog = EmptyCatalog
    BY DEF Init, EmptyCatalog, Catalog
  <1>2. image.descriptors \in Seq(Descriptor)
    BY InputsAssumption DEF Init, image
  <1>3. directory \in Location
    BY DEF Init, Location, Icb
  <1>4. 0 \in 0..Len(image.descriptors)
    BY <1>2
  <1>5. TypeOK
    BY <1>1, <1>3, <1>4 DEF Init, TypeOK, Walking
  <1> QED BY <1>1, <1>5 DEF Init, Typed, Chosen, Walking

\* A scan changes the catalog and the queue only when it chooses the volume.
LEMMA ScanFrame ==
    ASSUME Typed, Scanning
    PROVE  /\ phase \notin Walking \cup {"returned"}
           /\ UNCHANGED <<input, visited, directory, cursor>>
           /\ \/ /\ ~SelectVolume \/ phase' = "returned"
                 /\ UNCHANGED <<catalog, pending>>
                 /\ phase' \notin Walking
                 /\ result' = result \/ (phase' = "returned" /\ result' = "error")
              \/ /\ Usable /\ phase' = "walk" /\ result' = result
                 /\ UNCHANGED <<partition, logical, index>>
                 /\ logical # 0 /\ partition # 0
                 /\ catalog' = [EmptyCatalog EXCEPT !.volume = logical]
                 /\ pending' = <<RootLocation>>
  <1>1. phase \notin Walking \cup {"returned"}
    BY DEF Scanning, Start, ReadFails, ReadRecognition, NoRecognition, ReadAnchor,
           TryBackup, NoBackup, ReadDescriptor, NoTerminator, SelectVolume, Walking
  <1>2. UNCHANGED <<input, visited, directory, cursor>>
    BY DEF Scanning, Start, ReadFails, ReadRecognition, NoRecognition, ReadAnchor,
           TryBackup, NoBackup, ReadDescriptor, NoTerminator, SelectVolume, Fail, walk
  <1>3. CASE SelectVolume /\ Usable
    <2>1. catalog = EmptyCatalog
      BY <1>1 DEF Typed, Chosen
    <2> QED BY <1>1, <1>2, <1>3, <2>1 DEF SelectVolume, Usable, scan
  <1>4. CASE ~(SelectVolume /\ Usable)
    <2>1. UNCHANGED <<catalog, pending>> /\ phase' \notin Walking
      BY <1>1, <1>4
         DEF Scanning, Start, ReadFails, ReadRecognition, NoRecognition, ReadAnchor, TryBackup,
             NoBackup, ReadDescriptor, NoTerminator, SelectVolume, Fail, Enter, walk, Walking
    <2>2. result' = result \/ (phase' = "returned" /\ result' = "error")
      BY <1>4
         DEF Scanning, Start, ReadFails, ReadRecognition, NoRecognition, ReadAnchor, TryBackup,
             NoBackup, ReadDescriptor, NoTerminator, SelectVolume, Fail, Enter
    <2>3. ~SelectVolume \/ phase' = "returned"
      BY <1>4 DEF SelectVolume, Fail
    <2> QED BY <1>1, <1>2, <2>1, <2>2, <2>3
  <1> QED BY <1>3, <1>4

LEMMA ScanType == ASSUME Typed, Scanning PROVE Typed'
  <1>1. image' = image /\ input' \in Inputs
    BY ScanFrame DEF image, Typed, TypeOK
  <1>2. Len(image.descriptors) \in Nat /\ index \in Nat \ {0}
    BY InputType DEF Typed, TypeOK
  <1>3. /\ phase' \in {"config", "recognition", "anchor", "backup", "descriptors", "volume",
                      "walk", "returned"}
        /\ index' \in Nat \ {0}
        /\ seen' \subseteq {"BEA", "NSR"}
        /\ result' \in {"none", "ok", "error"}
    BY <1>2
       DEF Typed, TypeOK, Scanning, Start, ReadFails, ReadRecognition, NoRecognition, ReadAnchor,
           TryBackup, NoBackup, ReadDescriptor, NoTerminator, SelectVolume, Fail, Enter,
           Recognises, scan
  <1>4. partition' \in 0..Len(image.descriptors) /\ logical' \in 0..Len(image.descriptors)
    <2>1. CASE ReadDescriptor
      <3>1. Here.valid => index \in 0..Len(image.descriptors)
        BY <1>2 DEF Here
      <3> QED BY <2>1, <3>1 DEF ReadDescriptor, Typed, TypeOK
    <2>2. CASE ~ReadDescriptor
      BY <2>2
         DEF Typed, TypeOK, Scanning, Start, ReadFails, ReadRecognition, NoRecognition,
             ReadAnchor, TryBackup, NoBackup, NoTerminator, SelectVolume, scan
    <2> QED BY <2>1, <2>2
  <1>5. CASE UNCHANGED <<catalog, pending>> /\ phase' \notin Walking
    <2>1. catalog.volume = 0 /\ catalog = EmptyCatalog /\ pending = <<>> /\ visited = {}
      BY ScanFrame DEF Typed, Chosen
    <2> QED BY <1>1, <1>3, <1>4, <1>5, <2>1, ScanFrame DEF Typed, TypeOK, Chosen, Walking
  <1>6. CASE /\ Usable /\ phase' = "walk"
             /\ UNCHANGED <<partition, logical>>
             /\ logical # 0
             /\ catalog' = [EmptyCatalog EXCEPT !.volume = logical]
             /\ pending' = <<RootLocation>>
    <2>1. logical \in 1..Len(image.descriptors) /\ logical \in Nat
      BY <1>2, <1>6 DEF Typed, TypeOK
    <2>2. RootLocation \in Location
      <3>1. image.descriptors[logical] \in Descriptor
        BY <2>1, InputType DEF Typed
      <3> QED BY <3>1 DEF RootLocation, Location, Descriptor
    <2>3. catalog' \in Catalog /\ catalog'.volume = logical
      <3>1. EmptyCatalog \in Catalog
        BY DEF Catalog, EmptyCatalog
      <3> QED BY <1>6, <2>1, <3>1 DEF Catalog
    <2>4. pending' \in Seq(Location)
      BY <1>6, <2>2
    <2>5. TypeOK'
      BY <1>1, <1>3, <1>4, <1>6, <2>3, <2>4, ScanFrame DEF Typed, TypeOK, Walking
    <2>6. Chosen'
      BY <1>6, <2>1, <2>3 DEF Chosen, Walking
    <2> QED BY <2>5, <2>6 DEF Typed
  <1> QED BY <1>5, <1>6, ScanFrame

\* Reading directories neither lists anything nor leaves the volume.
LEMMA VisitFrame ==
    ASSUME Typed, Visiting
    PROVE  /\ phase = "walk" /\ phase' \in {"walk", "records", "returned"}
           /\ UNCHANGED <<input, scan, catalog.volume, catalog.entries>>
           /\ logical # 0 /\ catalog.volume = logical
           /\ phase' # "records" => catalog'.directories_read = catalog.directories_read
  <1>1. phase = "walk" /\ phase' \in {"walk", "records", "returned"}
    BY DEF Visiting, FinishWalk, CancelWalk, SkipVisited, StopAtLimit, DirectoryFails,
           SkipDirectory, ReadDirectory, Visit, Popped, Fail, Return
  <1>2. UNCHANGED <<input, scan>>
    BY DEF Visiting, FinishWalk, CancelWalk, SkipVisited, StopAtLimit, DirectoryFails,
           SkipDirectory, ReadDirectory, Visit, Popped, Fail, Return
  <1>c. catalog \in Catalog
    BY DEF Typed, TypeOK
  <1>3. /\ UNCHANGED <<catalog.volume, catalog.entries>>
        /\ phase' # "records" => catalog'.directories_read = catalog.directories_read
    <2>1. CASE FinishWalk \/ CancelWalk \/ StopAtLimit \/ DirectoryFails \/ ReadDirectory
      BY <1>c, <2>1 DEF FinishWalk, CancelWalk, StopAtLimit, DirectoryFails,
             ReadDirectory, Visit, Popped, Fail, Return, Catalog
    <2>2. CASE SkipVisited \/ SkipDirectory
      BY <1>c, <2>2 DEF SkipVisited, SkipDirectory, RefuseOversize, Report, Catalog
    <2> QED BY <2>1, <2>2 DEF Visiting
  <1>4. catalog.volume # 0 /\ catalog.volume = logical
    BY <1>1 DEF Typed, Chosen, Walking
  <1> QED BY <1>1, <1>2, <1>3, <1>4

LEMMA VisitType == ASSUME Typed, Visiting PROVE Typed'
  <1>1. image' = image /\ input' \in Inputs
    BY VisitFrame DEF image, Typed, TypeOK
  <1>2. catalog \in Catalog /\ directory \in Location /\ visited \subseteq Icb
        /\ pending \in Seq(Location) /\ cursor \in Nat \ {0}
    BY DEF Typed, TypeOK
  <1>3. /\ pending' \in Seq(Location) /\ visited' \subseteq Icb
        /\ directory' \in Location /\ cursor' \in Nat \ {0}
        /\ result' \in {"none", "ok", "error"}
    <2>1. CASE FinishWalk
      BY <1>2, <2>1 DEF FinishWalk, Return, walk
    <2>2. CASE ~FinishWalk
      <3>1. Popped
        BY <2>2 DEF Visiting, CancelWalk, SkipVisited, StopAtLimit, DirectoryFails,
                    SkipDirectory, ReadDirectory, Visit
      <3>2. pending' \in Seq(Location) /\ Head(pending) \in Location
            /\ Head(pending).icb \in Icb
        BY <3>1, PoppedType DEF Typed
      <3> QED BY <1>2, <2>2, <3>2
              DEF Visiting, CancelWalk, SkipVisited, StopAtLimit, DirectoryFails,
                  SkipDirectory, ReadDirectory, Visit, Fail, Return, Typed, TypeOK
    <2> QED BY <2>1, <2>2
  <1>4. catalog' \in Catalog
    <2>1. CASE FinishWalk \/ DirectoryFails
      BY <1>2, <2>1 DEF FinishWalk, DirectoryFails, Fail, Return
    <2>4. CASE CancelWalk \/ StopAtLimit
      BY <1>2, <2>4 DEF CancelWalk, StopAtLimit, Return, Catalog
    <2>5. CASE ReadDirectory
      <3>1. catalog.directories_read + 1 \in Nat
        BY <1>2, CatalogFields
      <3> QED BY <1>2, <2>5, <3>1 DEF ReadDirectory, Catalog
    <2>2. CASE SkipVisited
      <3>1. [what |-> "traversed", icb |-> Head(pending).icb] \in Issue
        BY <2>2, PoppedType DEF SkipVisited, Issue, Typed
      <3> QED BY <1>2, <2>2, <3>1, CatalogReport DEF SkipVisited
    <2>3. CASE SkipDirectory
      <3>1. [what |-> "oversize", path |-> Head(pending).path] \in Issue
        BY <2>3, PoppedType DEF SkipDirectory, Visit, Issue, Location, Typed
      <3> QED BY <1>2, <2>3, <3>1, CatalogReport DEF SkipDirectory, RefuseOversize
    <2> QED BY <2>1, <2>2, <2>3, <2>4, <2>5 DEF Visiting
  <1>5. phase' \in {"records", "progress"} => Readable(directory'.icb)
    BY VisitFrame DEF Visiting, FinishWalk, CancelWalk, StopAtLimit, DirectoryFails, SkipVisited,
             SkipDirectory, ReadDirectory, Visit, Popped, Fail, Return, ReadableDirectory
  <1>6. Readable(directory.icb)' <=> Readable(directory'.icb)
    BY <1>1, VisitFrame DEF Readable, Known, Maps, scan
  <1>7. TypeOK'
    BY <1>1, <1>3, <1>4, <1>5, <1>6, VisitFrame DEF Typed, TypeOK, scan, Walking
  <1>8. Chosen'
    BY VisitFrame DEF Chosen, Walking, scan
  <1> QED BY <1>7, <1>8 DEF Typed

\* Scanning the records of a directory visits nothing and stays in the volume.
LEMMA ListFrame ==
    ASSUME Typed, Listing
    PROVE  /\ phase \in {"records", "progress"}
           /\ phase' \in Walking \cup {"returned"}
           /\ UNCHANGED <<input, scan, visited, directory>>
           /\ UNCHANGED <<catalog.volume, catalog.directories_read>>
           /\ logical # 0 /\ catalog.volume = logical
           /\ ~ListRecord => UNCHANGED <<pending, catalog.entries>>
  <1>1. /\ phase \in {"records", "progress"}
        /\ phase' \in Walking \cup {"returned"}
        /\ UNCHANGED <<input, scan, visited, directory>>
        /\ ~ListRecord => UNCHANGED pending
    BY DEF Listing, BrokenRecord, SkipRecord, RejectRecord, RefuseName, ListRecord, EndOfDirectory,
           ReportProgress, AtRecord, Fail, Return, walk, Walking
  <1>c. catalog \in Catalog
    BY DEF Typed, TypeOK
  <1>2. /\ UNCHANGED <<catalog.volume, catalog.directories_read>>
        /\ ~ListRecord => UNCHANGED catalog.entries
    <2>1. CASE BrokenRecord \/ SkipRecord \/ ReportProgress
      BY <2>1 DEF BrokenRecord, SkipRecord, ReportProgress, Fail, Return
    <2>2. CASE RejectRecord \/ EndOfDirectory
      BY <1>c, <2>2 DEF RejectRecord, RefuseName, EndOfDirectory, Report, Catalog
    <2>3. CASE ListRecord
      BY <1>c, <2>3 DEF ListRecord, Catalog
    <2> QED BY <2>1, <2>2, <2>3 DEF Listing
  <1>3. catalog.volume # 0 /\ catalog.volume = logical
    BY <1>1 DEF Typed, Chosen, Walking
  <1> QED BY <1>1, <1>2, <1>3

LEMMA ListType == ASSUME Typed, Listing PROVE Typed'
  <1>1. image' = image /\ input' \in Inputs
    BY ListFrame DEF image, Typed, TypeOK
  <1>2. catalog \in Catalog /\ directory \in Location
        /\ pending \in Seq(Location) /\ cursor \in Nat \ {0}
        /\ directory.path \in Seq(Name)
    BY DEF Typed, TypeOK, Location
  <1>3. cursor' \in Nat \ {0} /\ result' \in {"none", "ok", "error"}
    BY <1>2 DEF Listing, BrokenRecord, SkipRecord, RejectRecord, RefuseName, ListRecord, EndOfDirectory,
           ReportProgress, AtRecord, AfterRecord, Fail, Return, walk, Typed, TypeOK
  <1>4. catalog' \in Catalog /\ pending' \in Seq(Location)
    <2>1. CASE BrokenRecord \/ SkipRecord \/ ReportProgress
      BY <1>2, <2>1 DEF BrokenRecord, SkipRecord, ReportProgress, Fail, Return, walk
    <2>2. CASE RejectRecord
      <3>1. PICK issue \in Issue : catalog' = Report(catalog, issue)
        <4>1. AtRecord
          BY <2>2 DEF RejectRecord, RefuseName
        <4>2. /\ [what |-> "name", path |-> directory.path] \in Issue
              /\ [what |-> "map", path |-> directory.path] \in Issue
              /\ [what |-> "entry", path |-> Append(directory.path, Identifier.name)] \in Issue
          BY <1>2, <4>1, RecordType DEF Issue, Typed
        <4> QED BY <2>2, <4>2 DEF RejectRecord, RefuseName
      <3> QED BY <1>2, <2>2, <3>1, CatalogReport DEF RejectRecord, RefuseName
    <2>3. CASE EndOfDirectory
      <3>1. [what |-> "tail", path |-> directory.path] \in Issue
        BY <1>2 DEF Issue
      <3> QED BY <1>2, <2>3, <3>1, CatalogReport DEF EndOfDirectory, walk
    <2>4. CASE ListRecord
      <3>1. Listed \in Entry
        BY <2>4, RecordType DEF ListRecord, Typed
      <3>2. PICK b \in BOOLEAN :
               catalog' = [catalog EXCEPT !.entries = Append(@, Listed), !.limit_reached = b]
        BY <1>2, <2>4, CatalogFields DEF ListRecord
      <3>3. catalog' \in Catalog
        BY <1>2, <3>1, <3>2, CatalogEntry
      <3>4. [path |-> Listed.path, icb |-> Listed.icb, depth |-> Listed.depth] \in Location
        BY <3>1 DEF Entry, Location
      <3>5. pending' \in Seq(Location)
        BY <1>2, <2>4, <3>4 DEF ListRecord, QueueLast
      <3> QED BY <3>3, <3>5
    <2> QED BY <2>1, <2>2, <2>3, <2>4 DEF Listing
  <1>5. Readable(directory.icb)'
    <2>1. Readable(directory.icb)
      BY ListFrame DEF Typed, TypeOK
    <2> QED BY <1>1, <2>1, ListFrame DEF Readable, Known, Maps, scan
  <1>6. TypeOK'
    BY <1>1, <1>2, <1>3, <1>4, <1>5, ListFrame DEF Typed, TypeOK, scan, Walking
  <1>7. Chosen'
    BY ListFrame DEF Chosen, Walking, scan
  <1> QED BY <1>6, <1>7 DEF Typed

\* What listing an entry does: a directory is queued last, unless the entry fills the
\* budget or the directory is too deep, and either of these is a limit reached.
LEMMA ListStep ==
    ASSUME Typed, ListRecord
    PROVE  LET full == Len(catalog.entries) + 1 >= config.max_entries
               deep == Listed.directory /\ Listed.depth > config.max_depth
               l == [path |-> Listed.path, icb |-> Listed.icb, depth |-> Listed.depth]
           IN  /\ phase = "records" /\ Listed \in Entry /\ l \in Location
               /\ catalog'.entries = Append(catalog.entries, Listed)
               /\ Len(catalog'.entries) = Len(catalog.entries) + 1
               /\ catalog'.entries[Len(catalog.entries) + 1] = Listed
               /\ \A i \in 1..Len(catalog.entries) :
                     catalog'.entries[i] = catalog.entries[i]
               /\ catalog'.issues = catalog.issues
               /\ catalog'.cancelled = catalog.cancelled
               /\ catalog'.limit_reached = (catalog.limit_reached \/ full \/ deep)
               /\ phase' = IF full THEN "progress" ELSE "records"
               /\ IF Listed.directory /\ ~full /\ ~deep
                  THEN pending' = Append(pending, l) /\ l.depth <= config.max_depth
                  ELSE pending' = pending
  <1> DEFINE full == Len(catalog.entries) + 1 >= config.max_entries
             deep == Listed.directory /\ Listed.depth > config.max_depth
             l == [path |-> Listed.path, icb |-> Listed.icb, depth |-> Listed.depth]
  <1>1. phase = "records" /\ Listed \in Entry
    BY RecordType DEF ListRecord, AtRecord, Typed
  <1>2. l \in Location /\ l.depth \in Nat /\ config.max_depth \in Nat
    BY <1>1, InputType DEF Entry, Location, Config, Typed
  <1>3. catalog \in Catalog /\ catalog.entries \in Seq(Entry)
        /\ catalog.limit_reached \in BOOLEAN
    BY CatalogFields DEF Typed, TypeOK
  <1>4. catalog' = [catalog EXCEPT !.entries = Append(@, Listed),
                                   !.limit_reached = @ \/ full \/ deep]
    BY DEF ListRecord, TooDeep
  <1>5. (catalog.limit_reached \/ full \/ deep) \in BOOLEAN
    BY <1>3
  <1>6. /\ phase' = IF full THEN "progress" ELSE "records"
        /\ IF Listed.directory /\ ~full /\ ~deep
           THEN pending' = Append(pending, l) /\ l.depth <= config.max_depth
           ELSE pending' = pending
    BY <1>1, <1>2 DEF ListRecord, TooDeep, QueueLast
  <1> HIDE DEF full, deep, l
  <1>7. /\ catalog'.entries = Append(catalog.entries, Listed)
        /\ catalog'.issues = catalog.issues
        /\ catalog'.cancelled = catalog.cancelled
        /\ catalog'.limit_reached = (catalog.limit_reached \/ full \/ deep)
    BY <1>3, <1>4, <1>5 DEF Catalog
  <1>8. /\ Len(catalog'.entries) = Len(catalog.entries) + 1
        /\ catalog'.entries[Len(catalog.entries) + 1] = Listed
        /\ \A i \in 1..Len(catalog.entries) : catalog'.entries[i] = catalog.entries[i]
    BY <1>1, <1>3, <1>7
  <1> QED BY <1>1, <1>2, <1>6, <1>7, <1>8 DEF full, deep, l

LEMMA NextSplit == Next <=> Scanning \/ Visiting \/ Listing \/ Returned
  BY DEF Next, Scanning, Visiting, Listing

\* Every variable keeps its type, whatever the image contains: in particular no
\* record is read outside the directory, and the volume walked is the one chosen.
THEOREM TypeCorrect == Spec => []Typed
  <1>1. Typed /\ [Next]_vars => Typed'
    <2> SUFFICES ASSUME Typed, [Next]_vars PROVE Typed'
      OBVIOUS
    <2>1. CASE Returned \/ UNCHANGED vars
      <3>1. UNCHANGED vars
        BY <2>1 DEF Returned
      <3>2. UNCHANGED <<input, phase, index, seen, partition, logical, catalog, pending,
                        visited, directory, cursor, result, image>>
        BY <3>1 DEF vars, scan, walk, image
      <3> QED BY <3>2 DEF Typed, TypeOK, Chosen, Readable, Known, Maps
    <2> QED BY <2>1, ScanType, VisitType, ListType, NextSplit
  <1> QED BY InitType, <1>1, PTL DEF Spec
-----------------------------------------------------------------------------
(***************************************************************************)
(* The volume.  What a scan has established is kept as a fact about the    *)
(* blocks it has passed: Recognising for the recognition sequence and Best *)
(* for the descriptors of one tag.                                         *)
(***************************************************************************)
Met(kind, n, first) == \E i \in 1..n : kind[i] = first

MetInOrder(kind, n) == \E i, j \in 1..n : i < j /\ kind[i] = "BEA" /\ kind[j] = "NSR"

\* Among the first n descriptors, current is the prevailing one with this tag.
Best(d, tag, current, n) ==
    /\ current \in 0..n
    /\ current = 0 => \A j \in 1..n : d[j].tag # tag
    /\ current # 0 =>
          /\ d[current].tag = tag
          /\ \A j \in 1..n : d[j].tag = tag =>
                \/ d[j].sequence < d[current].sequence
                \/ d[j].sequence = d[current].sequence /\ current <= j

NoneEnds(d, n) == \A i \in 1..n : d[i].tag # 8

Recognising ==
    /\ phase = "config" => seen = {}
    /\ phase = "recognition" =>
          /\ "BEA" \in seen => Met(image.recognition, index - 1, "BEA")
          /\ "NSR" \in seen => MetInOrder(image.recognition, index - 1)
    /\ phase \notin {"config", "recognition", "returned"} => RecognisedInOrder

Confirming == phase \in {"descriptors", "volume"} \cup Walking => Confirmed

Selecting ==
    /\ phase \in {"config", "recognition", "anchor", "backup"} => partition = 0 /\ logical = 0
    /\ phase \in {"descriptors", "volume"} \cup Walking =>
          /\ index - 1 \in 0..Len(image.descriptors)
          /\ Best(image.descriptors, 5, partition, index - 1)
          /\ Best(image.descriptors, 6, logical, index - 1)
    /\ phase = "descriptors" => NoneEnds(image.descriptors, index - 1)
    /\ phase \in {"volume"} \cup Walking =>
          /\ index - 1 \in 1..DescriptorCount
          /\ image.descriptors[index - 1].tag = 8
          /\ NoneEnds(image.descriptors, index - 2)
    /\ phase \in Walking => partition # 0

VolumeInv == Recognising /\ Confirming /\ Selecting

LEMMA RecognisingStep ==
    ASSUME Typed, Recognising, [Next]_vars
    PROVE  Recognising'
  <1>f. image' = image
    BY InputFixed
  <1>k. image.recognition \in Seq({"BEA", "NSR", "TEA", "other"}) /\ index \in Nat \ {0}
    BY InputType DEF Typed, TypeOK
  <1>1. CASE ReadRecognition
    <2> DEFINE kind == image.recognition
    <2>1. /\ phase = "recognition" /\ index \in 1..Len(kind)
          /\ "BEA" \in seen => Met(kind, index - 1, "BEA")
          /\ "NSR" \in seen => MetInOrder(kind, index - 1)
      BY <1>1, <1>k DEF ReadRecognition, Recognising
    <2>2. CASE kind[index] = "TEA" /\ "NSR" \in seen
      <3>1. PICK i, j \in 1..index - 1 : i < j /\ kind[i] = "BEA" /\ kind[j] = "NSR"
        BY <2>1, <2>2 DEF MetInOrder
      <3>2. /\ i \in 1..Len(kind) /\ j \in 1..Len(kind) /\ index \in 1..Len(kind)
            /\ i < j /\ j < index
        BY <1>k, <2>1, <3>1
      <3>3. RecognisedInOrder
        BY <2>2, <3>1, <3>2 DEF RecognisedInOrder
      <3>4. RecognisedInOrder' /\ phase' = "anchor"
        BY <1>1, <1>f, <2>2, <3>3 DEF RecognisedInOrder, ReadRecognition, Enter
      <3> QED BY <3>4 DEF Recognising
    <2>3. CASE ~(kind[index] = "TEA" /\ "NSR" \in seen)
      <3>1. /\ index' = index + 1 /\ phase' = "recognition"
            /\ seen' = IF Recognises(kind[index], seen) THEN seen \cup {kind[index]} ELSE seen
        BY <1>1, <2>1, <2>3 DEF ReadRecognition
      <3>2. index' - 1 = index /\ index \in 1..index /\ 1..index - 1 \subseteq 1..index
        BY <1>k, <3>1
      <3>3. "BEA" \in seen' => Met(kind, index, "BEA")
        BY <2>1, <3>1, <3>2 DEF Recognises, Met
      <3>4. "NSR" \in seen' => MetInOrder(kind, index)
        <4>1. CASE "NSR" \in seen
          BY <2>1, <3>2, <4>1 DEF MetInOrder
        <4>2. CASE "NSR" \in seen' /\ "NSR" \notin seen
          <5>1. kind[index] = "NSR" /\ "BEA" \in seen
            BY <3>1, <4>2 DEF Recognises
          <5>2. PICK i \in 1..index - 1 : kind[i] = "BEA"
            BY <2>1, <5>1 DEF Met
          <5>3. i \in 1..index /\ i < index
            BY <1>k
          <5> QED BY <3>2, <5>1, <5>2, <5>3 DEF MetInOrder
        <4> QED BY <4>1, <4>2
      <3> QED BY <1>f, <3>1, <3>2, <3>3, <3>4 DEF Recognising
    <2> QED BY <2>2, <2>3
  <1>2. CASE Start
    BY <1>2, <1>f DEF Start, Enter, Fail, Recognising
  <1>3. ASSUME ~ReadRecognition, ~Start
        PROVE  \/ phase' = "returned"
               \/ phase \notin {"config", "recognition", "returned"}
                     /\ phase' \notin {"config", "recognition"}
               \/ UNCHANGED <<phase, seen, index>>
    BY <1>3, VisitFrame, ListFrame, NextSplit
       DEF Scanning, ReadFails, NoRecognition, ReadAnchor, TryBackup,
           NoBackup, ReadDescriptor, NoTerminator, SelectVolume, Fail, Enter, Walking,
           Returned, vars, scan, Typed
  <1> QED BY <1>1, <1>2, <1>3, <1>f DEF Recognising, RecognisedInOrder

LEMMA ConfirmingStep ==
    ASSUME Typed, Confirming, [Next]_vars
    PROVE  Confirming'
  <1>f. image' = image /\ config' = config
    BY InputFixed
  <1>c. Confirmed' <=> Confirmed
    BY <1>f DEF Confirmed, Agrees, LastSector
  <1>1. CASE TryBackup
    <2>1. CASE Agrees(Candidates[index]) /\ index <= Len(Candidates)
      <3>1. config.total_bytes \in Nat /\ SectorBytes \in Nat \ {0}
            /\ AnchorSector \in Nat \ {0} /\ index \in Nat \ {0}
        BY InputType, ConstantsAssumption DEF Typed, TypeOK, Config
      <3>2. LastSector \in Int
        BY <3>1 DEF LastSector
      <3>3. \/ Candidates[index] = LastSector
            \/ Candidates[index] = LastSector - AnchorSector
        BY <2>1, <3>1, <3>2 DEF Candidates
      <3>4. Candidates[index] = AnchorSector => LastSector \in {AnchorSector, 2 * AnchorSector}
        BY <3>1, <3>2, <3>3
      <3>5. Confirmed
        BY <2>1, <3>3, <3>4 DEF Confirmed
      <3> QED BY <1>c, <3>5 DEF Confirming
    <2>2. CASE ~(Agrees(Candidates[index]) /\ index <= Len(Candidates))
      BY <1>1, <2>2 DEF TryBackup, Confirming, Walking
    <2> QED BY <2>1, <2>2
  <1>2. CASE ~TryBackup
    <2>1. \/ phase' \notin {"descriptors", "volume"} \cup Walking
          \/ phase \in {"descriptors", "volume"} \cup Walking
      BY <1>2, VisitFrame, ListFrame, NextSplit
         DEF Scanning, Start, ReadFails, ReadRecognition, NoRecognition, ReadAnchor,
             NoBackup, ReadDescriptor, NoTerminator, SelectVolume, Fail, Enter, Walking,
             Returned, vars, scan, Typed
    <2> QED BY <1>c, <2>1 DEF Confirming
  <1> QED BY <1>1, <1>2

\* One more descriptor: it takes over if it has the tag and prevails.
LEMMA BestStep ==
    ASSUME NEW d \in Seq(Descriptor), NEW n \in Nat, n + 1 \in 1..Len(d), NEW tag \in Nat,
           NEW current, NEW next, Best(d, tag, current, n),
           next = IF d[n + 1].tag = tag
                     /\ (current = 0 \/ d[n + 1].sequence > d[current].sequence)
                  THEN n + 1 ELSE current
    PROVE  Best(d, tag, next, n + 1)
  <1>1. ASSUME NEW i \in 1..n + 1 PROVE i \in 1..Len(d) /\ d[i].sequence \in Nat
    <2>1. i \in 1..Len(d)
      OBVIOUS
    <2>2. d[i] \in Descriptor
      BY <2>1
    <2> QED BY <2>1, <2>2 DEF Descriptor
  <1>2. current \in 0..n /\ (current # 0 => current \in 1..n)
    BY DEF Best
  <1>3. \A j \in 1..n + 1 : j \in 1..n \/ j = n + 1
    OBVIOUS
  <1>4. CASE next = n + 1 /\ current = 0 /\ d[n + 1].tag = tag
    BY <1>3, <1>4 DEF Best
  <1>5. CASE next = n + 1 /\ current # 0 /\ d[n + 1].tag = tag
             /\ d[n + 1].sequence > d[current].sequence
    <2>1. ASSUME NEW j \in 1..n, d[j].tag = tag PROVE d[j].sequence < d[n + 1].sequence
      <3>1. d[j].sequence <= d[current].sequence
        BY <1>1, <1>2, <1>5, <2>1 DEF Best
      <3>2. /\ d[j].sequence \in Nat /\ d[n + 1].sequence \in Nat
            /\ d[current].sequence \in Nat
        BY <1>1, <1>2, <1>5
      <3> QED BY <1>5, <3>1, <3>2
    <2> QED BY <1>3, <1>5, <2>1 DEF Best
  <1>6. CASE next = current /\ d[n + 1].tag # tag
    BY <1>2, <1>3, <1>6 DEF Best
  <1>7. CASE next = current /\ current # 0 /\ ~(d[n + 1].sequence > d[current].sequence)
    <2>1. d[n + 1].sequence <= d[current].sequence /\ current <= n + 1
      BY <1>1, <1>2, <1>7
    <2> QED BY <1>1, <1>2, <1>3, <1>7, <2>1 DEF Best
  <1> QED BY <1>4, <1>5, <1>6, <1>7

LEMMA SelectingStep ==
    ASSUME Typed, Selecting, [Next]_vars
    PROVE  Selecting'
  <1>f. image' = image /\ DescriptorCount' = DescriptorCount
    BY InputFixed DEF DescriptorCount
  <1>d. image.descriptors \in Seq(Descriptor) /\ index \in Nat \ {0}
    BY InputType DEF Typed, TypeOK
  <1>1. CASE ReadDescriptor
    <2>1. CASE ~Here.valid
      BY <1>1, <2>1 DEF ReadDescriptor, Fail, Selecting, Walking
    <2>2. CASE Here.valid
      <3> DEFINE d == image.descriptors
      <3>1. index \in 1..Len(d) /\ Here = d[index]
        BY <1>d, <2>2 DEF Here
      <3>2. /\ phase = "descriptors" /\ index <= DescriptorCount /\ index' = index + 1
            /\ phase' = IF d[index].tag = 8 THEN "volume" ELSE "descriptors"
        BY <1>1, <2>2, <3>1 DEF ReadDescriptor
      <3>3. Best(d, 5, partition, index - 1) /\ Best(d, 6, logical, index - 1)
            /\ NoneEnds(d, index - 1)
        BY <3>2 DEF Selecting
      <3>4. (index - 1) + 1 = index /\ index - 1 \in Nat /\ index' - 1 = index
            /\ index' - 2 = index - 1
        BY <1>d, <3>2
      <3>5. /\ partition' = IF d[index].tag = 5
                               /\ (partition = 0 \/ d[index].sequence > d[partition].sequence)
                            THEN index ELSE partition
            /\ logical' = IF d[index].tag = 6
                             /\ (logical = 0 \/ d[index].sequence > d[logical].sequence)
                          THEN index ELSE logical
        BY <1>1, <2>2, <3>1 DEF ReadDescriptor, Prevails
      <3>6. Best(d, 5, partition', index) /\ Best(d, 6, logical', index)
        <4> HIDE DEF d
        <4>1. d \in Seq(Descriptor)
          BY <1>d DEF d
        <4>2. Best(d, 5, partition', index)
          BY <3>1, <3>3, <3>4, <3>5, <4>1, BestStep
        <4>3. Best(d, 6, logical', index)
          BY <3>1, <3>3, <3>4, <3>5, <4>1, BestStep
        <4> QED BY <4>2, <4>3
      <3>7. d[index].tag # 8 => NoneEnds(d, index)
        BY <1>d, <3>3 DEF NoneEnds
      <3>8. index \in 0..Len(d) /\ index \in 1..DescriptorCount
        <4>1. DescriptorCount \in Int
          BY InputType, ConstantsAssumption DEF DescriptorCount, Typed
        <4> QED BY <1>d, <3>1, <3>2, <4>1
      <3> QED BY <1>f, <3>2, <3>3, <3>4, <3>6, <3>7, <3>8 DEF Selecting, Walking
    <2> QED BY <2>1, <2>2
  <1>2. CASE TryBackup
    <2>1. partition = 0 /\ logical = 0 /\ UNCHANGED <<partition, logical>>
      BY <1>2 DEF TryBackup, Selecting
    <2>2. \/ phase' \in {"backup", "returned"}
          \/ phase' = "descriptors" /\ index' = 1
      BY <1>2 DEF TryBackup, Enter, Fail
    <2>3. Best(image.descriptors, 5, 0, 0) /\ Best(image.descriptors, 6, 0, 0)
          /\ NoneEnds(image.descriptors, 0) /\ 0 \in 0..Len(image.descriptors)
      BY <1>d DEF Best, NoneEnds
    <2> QED BY <1>f, <2>1, <2>2, <2>3 DEF Selecting, Walking
  <1>3. ASSUME ~ReadDescriptor, ~TryBackup
        PROVE  \/ phase' = "returned"
               \/ /\ phase \in {"config", "recognition", "anchor"}
                  /\ phase' \in {"config", "recognition", "anchor", "backup"}
                  /\ UNCHANGED <<partition, logical>>
               \/ /\ phase \in {"volume"} \cup Walking
                  /\ phase' \in {"volume"} \cup Walking
                  /\ phase = "volume" => partition # 0
                  /\ UNCHANGED scan
               \/ UNCHANGED <<phase, scan>>
    BY <1>3, VisitFrame, ListFrame, NextSplit
       DEF Scanning, Start, ReadFails, ReadRecognition, NoRecognition, ReadAnchor,
           NoBackup, NoTerminator, SelectVolume, Usable, Fail, Enter, Walking,
           Returned, vars, scan, Typed
  <1>4. CASE phase' = "returned"
    BY <1>4 DEF Selecting, Walking
  <1>5. CASE /\ phase \in {"config", "recognition", "anchor"}
             /\ phase' \in {"config", "recognition", "anchor", "backup"}
             /\ UNCHANGED <<partition, logical>>
    BY <1>5 DEF Selecting, Walking
  <1>6. CASE /\ phase \in {"volume"} \cup Walking
             /\ phase' \in {"volume"} \cup Walking
             /\ phase = "volume" => partition # 0
             /\ UNCHANGED scan
    BY <1>6, <1>f DEF Selecting, Walking, scan
  <1>7. CASE UNCHANGED <<phase, scan>>
    BY <1>7, <1>f DEF Selecting, scan
  <1> QED BY <1>1, <1>2, <1>3, <1>4, <1>5, <1>6, <1>7

LEMMA VolumeAlways == Spec => [](Typed /\ VolumeInv)
  <1>1. Init => VolumeInv
    BY DEF Init, VolumeInv, Recognising, Confirming, Selecting, Walking
  <1>2. Typed /\ VolumeInv /\ [Next]_vars => VolumeInv'
    BY RecognisingStep, ConfirmingStep, SelectingStep DEF VolumeInv
  <1> QED BY <1>1, <1>2, TypeCorrect, PTL DEF Spec

\* Whatever the source holds, catalog_udf reads a directory only behind a recognition
\* sequence in order, an anchor, and another anchor that agrees with it.
THEOREM VolumeIsVouchedFor == Spec => []VolumeVouchedFor
  <1>1. VolumeInv => VolumeVouchedFor
    BY DEF VolumeInv, Recognising, Confirming, VolumeVouchedFor, Walking
  <1> QED BY <1>1, VolumeAlways, PTL

\* The partition and the logical volume that are walked are the prevailing ones: the
\* highest sequence number before the first terminator, the earliest of equals.
THEOREM DescriptorsPrevail == Spec => []PrevailingDescriptors
  <1>1. Typed /\ VolumeInv => PrevailingDescriptors
    <2> SUFFICES ASSUME Typed, VolumeInv, phase = "walk" PROVE PrevailingDescriptors
      BY DEF PrevailingDescriptors
    <2> DEFINE d == image.descriptors
               n == index - 1
               end == CHOOSE e \in 1..DescriptorCount :
                         d[e].tag = 8 /\ \A i \in 1..e - 1 : d[i].tag # 8
               best(tag) == CHOOSE i \in 1..end :
                   /\ d[i].tag = tag
                   /\ \A j \in 1..end : d[j].tag = tag =>
                         \/ d[j].sequence < d[i].sequence
                         \/ (d[j].sequence = d[i].sequence /\ i <= j)
    <2>1. /\ n \in 1..DescriptorCount /\ n \in 0..Len(d)
          /\ d[n].tag = 8 /\ NoneEnds(d, n - 1)
          /\ Best(d, 5, partition, n) /\ Best(d, 6, logical, n)
      <3>1. index - 2 = n - 1
        BY DEF Typed, TypeOK
      <3> QED BY <3>1 DEF VolumeInv, Selecting, Walking
    <2>2. partition # 0 /\ logical # 0
      BY DEF Typed, Chosen, VolumeInv, Selecting, Walking
    <2>3. end = n
      <3>1. \A e \in 1..DescriptorCount :
               (d[e].tag = 8 /\ \A i \in 1..e - 1 : d[i].tag # 8) => e = n
        BY <2>1 DEF NoneEnds
      <3>2. \A i \in 1..n - 1 : d[i].tag # 8
        BY <2>1 DEF NoneEnds
      <3> QED BY <2>1, <3>1, <3>2
    <2>4. ASSUME NEW tag, NEW current, current # 0, Best(d, tag, current, n)
          PROVE  best(tag) = current
      <3>1. \A i \in 1..n : d[i].sequence \in Nat
        <4>1. d \in Seq(Descriptor)
          BY InputType DEF Typed
        <4> HIDE DEF d, n
        <4>2. \A i \in 1..n : d[i] \in Descriptor
          BY <2>1, <4>1
        <4> QED BY <4>2 DEF Descriptor
      <3> HIDE DEF d, n, end
      <3>2. current \in 1..n
        BY <2>1, <2>4 DEF Best
      <3> DEFINE IsBest(i) ==
                   /\ d[i].tag = tag
                   /\ \A j \in 1..n : d[j].tag = tag =>
                         \/ d[j].sequence < d[i].sequence
                         \/ (d[j].sequence = d[i].sequence /\ i <= j)
      <3>3. IsBest(current)
        BY <2>4 DEF Best
      <3>4. ASSUME NEW i \in 1..n, IsBest(i) PROVE i = current
        <4>1. /\ d[current].sequence < d[i].sequence
                 \/ (d[current].sequence = d[i].sequence /\ i <= current)
              /\ d[i].sequence < d[current].sequence
                 \/ (d[i].sequence = d[current].sequence /\ current <= i)
          BY <3>2, <3>3, <3>4
        <4>2. d[i].sequence \in Nat /\ d[current].sequence \in Nat /\ i \in Int /\ current \in Int
          BY <3>1, <3>2
        <4> QED BY <4>1, <4>2
      <3>5. best(tag) = CHOOSE i \in 1..n : IsBest(i)
        BY <2>3
      <3> HIDE DEF IsBest, best
      <3> QED BY <3>2, <3>3, <3>4, <3>5
    <2>5. best(5) = partition /\ best(6) = logical
      <3> HIDE DEF best, d, n, end
      <3> QED BY <2>1, <2>2, <2>4
    <2> QED BY <2>5 DEF PrevailingDescriptors
  <1> QED BY <1>1, VolumeAlways, PTL

-----------------------------------------------------------------------------
(***************************************************************************)
(* The budgets.  Len(entries) stays below max_entries for as long as the   *)
(* next record may be listed: the entry that fills the budget ends the     *)
(* directory, and the walk.                                                *)
(***************************************************************************)
Room == Len(catalog.entries) < config.max_entries

Budgets ==
    /\ phase \notin {"config", "returned"} => config.max_entries # 0
    /\ phase \in {"walk", "records"} => Room
    /\ phase = "progress" => Room \/ catalog.limit_reached
    /\ phase = "walk" => ~catalog.limit_reached
    /\ BudgetsHold

LEMMA ScanBudgets == ASSUME Typed, Budgets, Scanning PROVE Budgets'
  <1>1. config' = config /\ config.max_depth \in Nat /\ config.max_entries \in Nat
        /\ config.max_directories \in Nat
    BY ScanFrame, InputType DEF config, Config, Typed
  <1>2. phase' \notin {"config", "returned"} => config.max_entries # 0
    BY <1>1 DEF Budgets, Scanning, Start, ReadFails, ReadRecognition, NoRecognition,
           ReadAnchor, TryBackup, NoBackup, ReadDescriptor, NoTerminator, SelectVolume,
           Fail, Enter, ValidConfig
  <1>3. catalog = EmptyCatalog
    BY ScanFrame DEF Typed, Chosen
  <1>4. CASE UNCHANGED <<catalog, pending>> /\ phase' \notin Walking
    BY <1>1, <1>2, <1>4 DEF Budgets, BudgetsHold, Walking
  <1>5. CASE /\ phase' = "walk"
             /\ catalog' = [EmptyCatalog EXCEPT !.volume = logical]
             /\ pending' = <<RootLocation>>
    <2>1. /\ catalog'.entries = <<>> /\ catalog'.directories_read = 0
          /\ catalog'.limit_reached = FALSE
      BY <1>5 DEF EmptyCatalog
    <2>2. Len(pending') = 1 /\ pending'[1].depth = 0
      BY <1>5 DEF RootLocation
    <2>3. BudgetsHold'
      BY <1>1, <2>1, <2>2 DEF BudgetsHold
    <2> QED BY <1>1, <1>2, <1>5, <2>1, <2>3 DEF Budgets, Room
  <1> QED BY <1>4, <1>5, ScanFrame

LEMMA VisitBudgets == ASSUME Typed, Budgets, Visiting PROVE Budgets'
  <1>1. /\ config' = config /\ config.max_directories \in Nat
        /\ catalog \in Catalog /\ catalog.directories_read \in Nat
    BY VisitFrame, InputType, CatalogFields DEF config, Config, Typed, TypeOK
  <1>2. Room /\ Room' /\ config.max_entries # 0
    BY <1>1, VisitFrame DEF Budgets, Room
  <1>3. catalog'.directories_read <= config.max_directories
    <2>1. CASE ReadDirectory
      <3>1. catalog'.directories_read = catalog.directories_read + 1
        BY <1>1, <2>1 DEF ReadDirectory, Catalog
      <3> QED BY <1>1, <2>1, <3>1 DEF ReadDirectory, DirectoryLimit
    <2>2. CASE ~ReadDirectory
      <3>1. phase' # "records"
        BY <2>2 DEF Visiting, FinishWalk, CancelWalk, SkipVisited, StopAtLimit,
                    DirectoryFails, SkipDirectory, Visit, Popped, Fail, Return
      <3> QED BY <3>1, VisitFrame DEF Budgets, BudgetsHold
    <2> QED BY <2>1, <2>2
  <1>4. \A i \in 1..Len(pending') : pending'[i].depth <= config.max_depth
    <2>1. CASE FinishWalk
      BY <2>1 DEF FinishWalk, walk, Budgets, BudgetsHold
    <2>2. CASE ~FinishWalk
      <3>1. Popped
        BY <2>2 DEF Visiting, CancelWalk, SkipVisited, StopAtLimit, DirectoryFails,
                    SkipDirectory, ReadDirectory, Visit
      <3>2. \A i \in 1..Len(pending') : pending'[i] = pending[i + 1]
                                       /\ i + 1 \in 1..Len(pending)
        BY <3>1, PoppedType DEF Typed
      <3> QED BY <3>2 DEF Budgets, BudgetsHold
    <2> QED BY <2>1, <2>2
  <1>5. phase' = "walk" => ~catalog'.limit_reached
    BY <1>1 DEF Budgets, Visiting, FinishWalk, CancelWalk, StopAtLimit, SkipVisited,
           DirectoryFails, SkipDirectory, ReadDirectory, RefuseOversize, Visit, Popped,
           Fail, Return, Report, Catalog
  <1>6. BudgetsHold'
    BY <1>1, <1>3, <1>4, VisitFrame DEF Budgets, BudgetsHold
  <1> QED BY <1>1, <1>2, <1>5, <1>6, VisitFrame DEF Budgets

LEMMA ListBudgets == ASSUME Typed, Budgets, Listing PROVE Budgets'
  <1>1. /\ config' = config /\ config.max_entries \in Nat /\ config.max_depth \in Nat
        /\ catalog \in Catalog /\ Len(catalog.entries) \in Nat
        /\ phase \in {"records", "progress"} /\ config.max_entries # 0
    BY ListFrame, InputType, CatalogFields DEF config, Config, Typed, TypeOK, Budgets
  <1>2. CASE ListRecord
    <2>1. Room
      BY <1>2 DEF ListRecord, AtRecord, Budgets
    <2>3. catalog'.directories_read = catalog.directories_read
      BY ListFrame
    <2>4. Len(catalog'.entries) = Len(catalog.entries) + 1
      BY <1>2, ListStep
    <2>5. IF Len(catalog.entries) + 1 >= config.max_entries
          THEN phase' = "progress" /\ catalog'.limit_reached
          ELSE phase' = "records"
      BY <1>2, ListStep
    <2>6. \A i \in 1..Len(pending') : pending'[i].depth <= config.max_depth
      <3>1. CASE pending' = pending
        BY <3>1 DEF Budgets, BudgetsHold
      <3>2. CASE pending' # pending
        <4> DEFINE l == [path |-> Listed.path, icb |-> Listed.icb, depth |-> Listed.depth]
        <4>1. pending' = Append(pending, l) /\ l \in Location
              /\ l.depth <= config.max_depth
          BY <1>2, <3>2, ListStep DEF Typed
        <4>3. pending \in Seq(Location)
          BY DEF Typed, TypeOK
        <4> HIDE DEF l
        <4>4. \A i \in 1..Len(pending') :
                 pending'[i] = l \/ (i \in 1..Len(pending) /\ pending'[i] = pending[i])
          BY <4>1, <4>3
        <4> QED BY <4>1, <4>4 DEF Budgets, BudgetsHold
      <3> QED BY <3>1, <3>2
    <2>7. BudgetsHold'
      BY <1>1, <2>1, <2>3, <2>4, <2>6 DEF Budgets, BudgetsHold, Room
    <2> QED BY <1>1, <2>1, <2>4, <2>5, <2>7 DEF Budgets, Room
  <1>3. CASE ~ListRecord
    <2>1. /\ catalog'.entries = catalog.entries /\ pending' = pending
          /\ catalog'.directories_read = catalog.directories_read
      BY <1>3, ListFrame
    <2>2. BudgetsHold'
      BY <1>1, <2>1 DEF Budgets, BudgetsHold
    <2>3. Room' <=> Room
      BY <1>1, <2>1 DEF Room
    <2>4. \/ phase' = "records" /\ phase = "records"
          \/ phase' = "progress" /\ phase = "records"
          \/ phase' = "returned"
          \/ phase' = "walk" /\ phase = "progress" /\ ~catalog.limit_reached
                /\ catalog' = catalog
      BY <1>3 DEF Listing, BrokenRecord, SkipRecord, RejectRecord, RefuseName, EndOfDirectory,
                  ReportProgress, AtRecord, Fail, Return
    <2> QED BY <1>1, <2>2, <2>3, <2>4 DEF Budgets
  <1> QED BY <1>2, <1>3

LEMMA BudgetsAlways == Spec => [](Typed /\ Budgets)
  <1>1. Init /\ Typed => Budgets
    <2> SUFFICES ASSUME Init, Typed PROVE Budgets
      OBVIOUS
    <2>1. Len(catalog.entries) = 0 /\ catalog.directories_read = 0 /\ Len(pending) = 0
      BY DEF Init, EmptyCatalog
    <2>2. config.max_entries \in Nat /\ config.max_directories \in Nat
      BY InputType DEF Config, Typed
    <2> QED BY <2>1, <2>2 DEF Init, Budgets, BudgetsHold
  <1>2. Typed /\ Budgets /\ [Next]_vars => Budgets'
    <2> SUFFICES ASSUME Typed, Budgets, [Next]_vars PROVE Budgets'
      OBVIOUS
    <2>1. CASE Returned \/ UNCHANGED vars
      <3>1. UNCHANGED <<phase, catalog, pending, config>>
        BY <2>1 DEF Returned, vars, walk, config
      <3> QED BY <3>1 DEF Budgets, BudgetsHold, Room
    <2> QED BY <2>1, ScanBudgets, VisitBudgets, ListBudgets, NextSplit
  <1> QED BY <1>1, <1>2, TypeCorrect, PTL DEF Spec

\* However the image is linked, the walk never lists more entries, reads more
\* directories or queues a deeper directory than the configuration allows.
THEOREM BudgetsKept == Spec => []BudgetsHold
  <1>1. Budgets => BudgetsHold
    BY DEF Budgets
  <1> QED BY <1>1, BudgetsAlways, PTL

-----------------------------------------------------------------------------
(***************************************************************************)
(* catalog_udf implements Traversal: each of its steps is one of           *)
(* Traversal's, or changes nothing Traversal speaks of.                    *)
(***************************************************************************)
\* The mapping of the queue, and of what was queued once a volume is chosen.
Front == [i \in 1..Len(pending) |-> pending[i].icb]

Queueable(e) == e.directory /\ e.depth <= config.max_depth

QueuedOf(entries) ==
    {entries[i].icb : i \in {i \in 1..Len(entries) :
                                Queueable(entries[i]) /\ i < config.max_entries}}

LEMMA QueuedForm ==
    Queued = IF catalog.volume = 0 THEN {}
             ELSE {RootLocation.icb} \cup QueuedOf(catalog.entries)
  BY DEF Queued, QueuedOf, Queueable

LEMMA QueuedOfAppend ==
    ASSUME NEW s \in Seq(Entry), NEW e \in Entry
    PROVE  QueuedOf(Append(s, e)) =
               QueuedOf(s) \cup (IF Queueable(e) /\ Len(s) + 1 < config.max_entries
                                 THEN {e.icb} ELSE {})
  <1>1. /\ Len(Append(s, e)) = Len(s) + 1 /\ Len(s) \in Nat
        /\ \A i \in 1..Len(s) : Append(s, e)[i] = s[i]
        /\ Append(s, e)[Len(s) + 1] = e
    OBVIOUS
  <1> HIDE DEF Queueable
  <1> DEFINE Fits(i) == i < config.max_entries
  <1> HIDE DEF Fits
  <1>d. \A t : QueuedOf(t) =
            {t[i].icb : i \in {i \in 1..Len(t) : Queueable(t[i]) /\ Fits(i)}}
    BY DEF QueuedOf, Fits
  <1>2. ASSUME NEW x \in QueuedOf(Append(s, e))
        PROVE  x \in QueuedOf(s) \cup (IF Queueable(e) /\ Fits(Len(s) + 1)
                                       THEN {e.icb} ELSE {})
    <2>1. PICK i \in 1..Len(s) + 1 :
              Queueable(Append(s, e)[i]) /\ Fits(i) /\ x = Append(s, e)[i].icb
      BY <1>1, <1>2, <1>d
    <2>2. CASE i \in 1..Len(s)
      BY <1>1, <1>d, <2>1, <2>2
    <2>3. CASE i = Len(s) + 1
      BY <1>1, <2>1, <2>3
    <2> QED BY <1>1, <2>2, <2>3
  <1>3. ASSUME NEW x \in QueuedOf(s) PROVE x \in QueuedOf(Append(s, e))
    <2>1. PICK i \in 1..Len(s) : Queueable(s[i]) /\ Fits(i) /\ x = s[i].icb
      BY <1>3, <1>d
    <2>2. i \in 1..Len(Append(s, e)) /\ Append(s, e)[i] = s[i]
      BY <1>1
    <2> QED BY <1>d, <2>1, <2>2
  <1>4. Queueable(e) /\ Fits(Len(s) + 1) => e.icb \in QueuedOf(Append(s, e))
    <2>1. Len(s) + 1 \in 1..Len(Append(s, e))
      BY <1>1
    <2> QED BY <1>1, <1>d, <2>1
  <1>5. QueuedOf(Append(s, e)) = QueuedOf(s) \cup
            (IF Queueable(e) /\ Fits(Len(s) + 1) THEN {e.icb} ELSE {})
    BY <1>2, <1>3, <1>4
  <1> QED BY <1>5 DEF Fits

LEMMA LocationIcb == \A l \in Location : l.icb \in Icb
  BY DEF Location

\* The queue's head and tail are the frontier's.
LEMMA FrontTail ==
    ASSUME Typed, Popped
    PROVE  /\ Front # <<>>
           /\ Head(Front) = Head(pending).icb
           /\ Front' = Tail(Front)
  <1>1. pending \in Seq(Location) /\ Len(pending) \in Nat \ {0}
    BY PoppedType DEF Typed
  <1>2. \A i \in 1..Len(pending) : pending[i].icb \in Icb
    BY <1>1, LocationIcb
  <1>3. Front \in Seq(Icb) /\ Len(Front) = Len(pending)
    BY <1>1, <1>2 DEF Front
  <1>4. /\ Len(pending') = Len(pending) - 1
        /\ Len(Tail(Front)) = Len(pending) - 1
        /\ \A i \in 1..Len(pending') :
              pending'[i] = pending[i + 1] /\ Tail(Front)[i] = Front[i + 1]
    BY <1>1, <1>3, PoppedType DEF Typed
  <1>5. \A i \in 1..Len(pending) : Front[i] = pending[i].icb
    BY DEF Front
  <1> DEFINE G == [i \in 1..Len(pending') |-> pending'[i].icb]
  <1>6. G \in Seq(Icb) /\ Len(G) = Len(pending) - 1
    <2>1. \A i \in 1..Len(pending') : pending'[i].icb \in Icb
      BY <1>1, <1>2, <1>4
    <2>2. Len(pending') \in Nat
      BY <1>1, <1>4
    <2> QED BY <1>4, <2>1, <2>2
  <1>7. Tail(Front) \in Seq(Icb)
    BY <1>1, <1>3
  <1>8. \A i \in 1..Len(pending') : G[i] = Tail(Front)[i]
    BY <1>1, <1>4, <1>5
  <1>9. G = Tail(Front)
    <2> HIDE DEF G
    <2> QED BY <1>4, <1>6, <1>7, <1>8, SeqEqual
  <1>10. Head(Front) = Front[1] /\ Head(pending) = pending[1]
    BY <1>1, <1>3, PoppedType DEF Typed
  <1>11. Front # <<>> /\ Front' = G
    BY <1>1, <1>3 DEF Front
  <1> QED BY <1>1, <1>5, <1>9, <1>10, <1>11

LEMMA FrontAppend ==
    ASSUME Typed, NEW l \in Location, pending' = Append(pending, l)
    PROVE  Front' = Append(Front, l.icb) /\ Front' # <<>>
           /\ Front'[Len(Front')] = l.icb
  <1>1. pending \in Seq(Location) /\ Len(pending) \in Nat /\ l.icb \in Icb
    BY DEF Typed, TypeOK, Location
  <1>2. /\ Len(pending') = Len(pending) + 1
        /\ \A i \in 1..Len(pending) : pending'[i] = pending[i]
        /\ pending'[Len(pending) + 1] = l
    BY <1>1
  <1>3. \A i \in 1..Len(pending) : pending[i].icb \in Icb
    BY <1>1, LocationIcb
  <1>4. Front \in Seq(Icb) /\ Len(Front) = Len(pending)
    BY <1>1, <1>3 DEF Front
  <1> DEFINE G == [i \in 1..Len(pending) + 1 |-> pending'[i].icb]
  <1>5. G \in Seq(Icb) /\ Len(G) = Len(pending) + 1
    <2>1. \A i \in 1..Len(pending) + 1 : pending'[i].icb \in Icb
      BY <1>1, <1>2, <1>3
    <2> QED BY <1>1, <2>1
  <1>6. Append(Front, l.icb) \in Seq(Icb) /\ Len(Append(Front, l.icb)) = Len(pending) + 1
    BY <1>1, <1>4
  <1>7. \A i \in 1..Len(pending) + 1 : G[i] = Append(Front, l.icb)[i]
    BY <1>1, <1>2, <1>4 DEF Front
  <1>8. G = Append(Front, l.icb)
    <2> HIDE DEF G
    <2> QED BY <1>5, <1>6, <1>7, SeqEqual
  <1>9. Front' = G
    BY <1>2 DEF Front
  <1>10. Front' = Append(Front, l.icb)
    BY <1>8, <1>9
  <1> HIDE DEF G
  <1>11. Front' # <<>> /\ Front'[Len(Front')] = l.icb
    BY <1>1, <1>4, <1>10
  <1> QED BY <1>10, <1>11

\* What was queued stays what it is while no entry is listed.
LEMMA QueuedSteady ==
    ASSUME UNCHANGED <<input, logical>>, catalog'.volume = catalog.volume,
           catalog'.entries = catalog.entries
    PROVE  Queued' = Queued
  <1>1. config' = config /\ image' = image
    BY DEF config, image
  <1> QED BY <1>1 DEF Queued, RootLocation

\* The scans: they give up, go on, or choose a volume.
LEMMA ScanRefines == ASSUME Typed, Scanning PROVE [Abstract!Next]_(Abstract!vars)
  <1>1. /\ catalog.volume = 0 /\ catalog = EmptyCatalog /\ pending = <<>>
        /\ phase # "returned"
    BY ScanFrame DEF Typed, Chosen
  <1>2. Stage = "selecting" /\ Queued = {} /\ UNCHANGED visited
    BY <1>1, ScanFrame DEF Stage, Queued, Walking
  <1>3. CASE /\ phase' = "walk"
             /\ UNCHANGED logical /\ logical # 0
             /\ catalog' = [EmptyCatalog EXCEPT !.volume = logical]
             /\ pending' = <<RootLocation>>
    <2>1. catalog'.volume = logical /\ catalog'.entries = <<>>
      BY <1>3 DEF EmptyCatalog
    <2>2. Len(pending') = 1 /\ pending'[1] = RootLocation /\ Typed'
      BY <1>3, ScanType
    <2>3. RootLocation' = RootLocation
      BY <1>3, ScanFrame DEF RootLocation, image
    <2>4. Front' = <<RootLocation.icb>>
      BY <2>2 DEF Front
    <2>5. Queued' = {RootLocation.icb}
      <3>1. QueuedOf(catalog.entries)' = {}
        BY <2>1 DEF QueuedOf
      <3>2. Queued' = IF catalog'.volume = 0 THEN {}
                      ELSE {RootLocation'.icb} \cup QueuedOf(catalog.entries)'
        BY DEF Queued, QueuedOf, Queueable
      <3> QED BY <1>3, <2>1, <2>3, <3>1, <3>2
    <2>6. RootLocation.icb \in Icb
      <3>1. pending' \in Seq(Location)
        BY <2>2 DEF Typed, TypeOK
      <3>2. RootLocation \in Location
        BY <2>2, <3>1
      <3> QED BY <3>2, LocationIcb
    <2>7. Stage' = "walking"
      BY <1>3 DEF Stage
    <2> HIDE DEF RootLocation
    <2>8. Abstract!Choose
      BY <1>2, <2>4, <2>5, <2>6, <2>7 DEF Abstract!Choose, Front
    <2> QED BY <2>8 DEF Abstract!Next
  <1>4. CASE /\ UNCHANGED <<catalog, pending>> /\ phase' \notin Walking
             /\ result' = result \/ (phase' = "returned" /\ result' = "error")
    <2>1. Front' = Front /\ Queued' = Queued
      BY <1>1, <1>4, <1>2 DEF Front, Queued
    <2>2. CASE phase' = "returned" /\ result' = "error"
      <3>1. Stage' = "failed"
        BY <2>2 DEF Stage
      <3>2. Abstract!GiveUp
        BY <1>2, <2>1, <3>1 DEF Abstract!GiveUp, Front
      <3> QED BY <3>2 DEF Abstract!Next
    <2>3. CASE phase' # "returned"
      <3>1. Stage' = "selecting"
        BY <1>4, <2>3 DEF Stage, Walking
      <3> QED BY <1>2, <2>1, <3>1 DEF Abstract!vars, Front
    <2>4. phase' = "returned" => result' = "error"
      BY <1>1, <1>4, ScanFrame
         DEF Scanning, Start, ReadFails, ReadRecognition, NoRecognition, ReadAnchor,
             TryBackup, NoBackup, ReadDescriptor, NoTerminator, SelectVolume, Fail, Enter,
             Walking
    <2> QED BY <2>2, <2>3, <2>4
  <1> QED BY <1>3, <1>4, ScanFrame

\* The directory loop: it finishes, gives up, drops a directory that was read, or
\* takes one off the queue for good.
LEMMA VisitRefines == ASSUME Typed, Visiting PROVE [Abstract!Next]_(Abstract!vars)
  <1>1. /\ phase = "walk" /\ catalog.volume # 0 /\ catalog \in Catalog
        /\ Stage = "walking" /\ Queued' = Queued
    BY VisitFrame, QueuedSteady DEF Stage, scan, Typed, TypeOK
  <1>2. CASE FinishWalk
    <2>1. /\ pending = <<>> /\ UNCHANGED <<pending, visited>>
          /\ phase' = "returned" /\ result' = "ok"
      BY <1>2 DEF FinishWalk, Return, walk
    <2>2. Front = <<>> /\ Front' = Front
      BY <2>1 DEF Front
    <2>3. Stage' \in {"partial", "complete"}
      BY <2>1 DEF Stage
    <2>4. Abstract!Finish \/ Abstract!GiveUp
      BY <1>1, <2>1, <2>2, <2>3 DEF Abstract!Finish, Abstract!GiveUp, Front
    <2> QED BY <2>4 DEF Abstract!Next
  <1>3. CASE CancelWalk \/ StopAtLimit \/ DirectoryFails
    <2>1. Popped
      BY <1>3 DEF CancelWalk, StopAtLimit, DirectoryFails, Visit
    <2>2. Front # <<>> /\ Front' = Tail(Front) /\ Head(Front) = Head(pending).icb
      BY <2>1, FrontTail
    <2>3. visited' \in {visited, visited \cup {Head(pending).icb}}
      BY <1>3 DEF CancelWalk, StopAtLimit, DirectoryFails, Visit
    <2>4. Stage' \in {"partial", "failed"}
      BY <1>1, <1>3 DEF CancelWalk, StopAtLimit, DirectoryFails, Visit, Return, Fail,
                        Stage, Catalog
    <2>5. Abstract!GiveUp
      BY <1>1, <2>2, <2>3, <2>4 DEF Abstract!GiveUp, Front
    <2> QED BY <2>5 DEF Abstract!Next
  <1>4. CASE SkipVisited
    <2>1. Front # <<>> /\ Front' = Tail(Front) /\ Head(Front) = Head(pending).icb
      BY <1>4, FrontTail DEF SkipVisited
    <2>2. phase' = "walk" /\ UNCHANGED visited /\ Head(pending).icb \in visited
      BY <1>1, <1>4 DEF SkipVisited, Fresh
    <2>3. Stage' = Stage
      BY <1>1, <2>2 DEF Stage
    <2>4. Abstract!Revisit
      BY <1>1, <2>1, <2>2, <2>3 DEF Abstract!Revisit, Front
    <2> QED BY <2>4 DEF Abstract!Next
  <1>5. CASE SkipDirectory \/ ReadDirectory
    <2>1. Popped
      BY <1>5 DEF SkipDirectory, ReadDirectory, Visit
    <2>2. Front # <<>> /\ Front' = Tail(Front) /\ Head(Front) = Head(pending).icb
      BY <2>1, FrontTail
    <2>3. /\ phase' \in {"walk", "records"} /\ Head(pending).icb \notin visited
          /\ visited' = visited \cup {Head(pending).icb}
      BY <1>1, <1>5 DEF SkipDirectory, ReadDirectory, Visit, Fresh
    <2>4. Stage' = Stage
      BY <1>1, <2>3 DEF Stage
    <2>5. Abstract!Explore
      BY <1>1, <2>2, <2>3, <2>4 DEF Abstract!Explore, Front
    <2> QED BY <2>5 DEF Abstract!Next
  <1> QED BY <1>2, <1>3, <1>4, <1>5 DEF Visiting

\* The record loop: a directory within the budgets is queued when it is listed, and
\* nothing else is.
LEMMA ListRefines == ASSUME Typed, Listing PROVE [Abstract!Next]_(Abstract!vars)
  <1>1. /\ phase \in {"records", "progress"} /\ UNCHANGED <<input, logical, visited>>
        /\ catalog.volume # 0 /\ catalog'.volume = catalog.volume
        /\ Stage = "walking" /\ catalog.entries \in Seq(Entry)
    BY ListFrame, CatalogFields DEF Stage, scan, Typed, TypeOK
  <1>2. CASE ListRecord
    <2> DEFINE queues == Queueable(Listed) /\ Len(catalog.entries) + 1 < config.max_entries
    <2>1. Listed \in Entry /\ Stage' = "walking"
      BY <1>2, ListStep DEF Stage
    <2>2. Queued' = Queued \cup (IF queues THEN {Listed.icb} ELSE {})
      <3>1. config' = config /\ image' = image /\ RootLocation' = RootLocation
        BY <1>1 DEF config, image, RootLocation
      <3>2. Queued' = {RootLocation.icb} \cup QueuedOf(Append(catalog.entries, Listed))
        BY <1>1, <1>2, <3>1, ListStep DEF Queued, QueuedOf, Queueable
      <3> QED BY <1>1, <2>1, <3>2, QueuedOfAppend, QueuedForm
    <2>3. /\ Len(catalog.entries) \in Nat /\ config.max_entries \in Nat
          /\ config.max_depth \in Nat /\ Listed.depth \in Nat /\ Listed.icb \in Icb
          /\ Listed.directory \in BOOLEAN
      BY <1>1, <2>1, InputType DEF Config, Entry, Typed
    <2>4. CASE queues
      <3> DEFINE l == [path |-> Listed.path, icb |-> Listed.icb, depth |-> Listed.depth]
      <3>1. pending' = Append(pending, l) /\ l \in Location /\ l.icb = Listed.icb
        BY <1>2, <2>3, <2>4, ListStep DEF Queueable
      <3> HIDE DEF l
      <3>2. Front' = Append(Front, Listed.icb) /\ Front' # <<>>
            /\ Front'[Len(Front')] = Listed.icb
        BY <3>1, FrontAppend
      <3>3. Abstract!Discover
        BY <1>1, <2>1, <2>2, <2>3, <2>4, <3>2 DEF Abstract!Discover, Front
      <3> QED BY <3>3 DEF Abstract!Next
    <2>5. CASE ~queues
      <3>1. pending' = pending
        BY <1>2, <2>3, <2>5, ListStep DEF Queueable
      <3>2. Front' = Front /\ Queued' = Queued
        BY <2>2, <2>5, <3>1 DEF Front
      <3> QED BY <1>1, <2>1, <3>2 DEF Abstract!vars, Front
    <2> QED BY <2>4, <2>5
  <1>3. CASE ~ListRecord
    <2>1. pending' = pending /\ catalog'.entries = catalog.entries
      BY <1>3, ListFrame
    <2>2. Front' = Front /\ Queued' = Queued
      BY <1>1, <2>1, QueuedSteady DEF Front
    <2>3. CASE phase' # "returned"
      <3>1. Stage' = "walking"
        BY <2>3, ListFrame DEF Stage, Walking
      <3> QED BY <1>1, <2>2, <3>1 DEF Abstract!vars, Front
    <2>4. CASE phase' = "returned"
      <3>1. result' = "error" \/ (result' = "ok" /\ catalog'.limit_reached)
        BY <1>1, <1>3, <2>4
           DEF Listing, BrokenRecord, SkipRecord, RejectRecord, RefuseName, EndOfDirectory,
               ReportProgress, AtRecord, Fail, Return
      <3>2. Stage' \in {"partial", "failed"}
        BY <2>4, <3>1 DEF Stage
      <3>3. Abstract!GiveUp
        BY <1>1, <2>2, <3>2 DEF Abstract!GiveUp, Front
      <3> QED BY <3>3 DEF Abstract!Next
    <2> QED BY <2>3, <2>4
  <1> QED BY <1>2, <1>3

\* catalog_udf walks as Traversal says: it starts from one root, takes the oldest
\* queued directory, never one it has read, queues what it lists within its
\* budgets, and calls the listing complete only with an empty queue.
THEOREM WalkImplementsTraversal == Spec => ImplementsTraversal
  <1>1. Init => Abstract!Init
    <2> SUFFICES ASSUME Init PROVE Abstract!Init
      OBVIOUS
    <2>1. catalog.volume = 0 /\ pending = <<>> /\ visited = {} /\ phase = "config"
      BY DEF Init, EmptyCatalog
    <2>2. Stage = "selecting" /\ Queued = {} /\ Front = <<>>
      BY <2>1 DEF Stage, Queued, Front
    <2> QED BY <2>1, <2>2 DEF Abstract!Init, Front
  <1>2. Typed /\ [Next]_vars => [Abstract!Next]_(Abstract!vars)
    <2> SUFFICES ASSUME Typed, [Next]_vars PROVE [Abstract!Next]_(Abstract!vars)
      OBVIOUS
    <2>1. CASE Returned \/ UNCHANGED vars
      <3>1. UNCHANGED vars
        BY <2>1 DEF Returned
      <3>2. Stage' = Stage /\ Front' = Front /\ UNCHANGED visited
        BY <3>1 DEF vars, walk, Stage, Front
      <3>3. Queued' = Queued
        BY <3>1, QueuedSteady DEF vars, scan
      <3> QED BY <3>2, <3>3 DEF Abstract!vars, Front
    <2> QED BY <2>1, ScanRefines, VisitRefines, ListRefines, NextSplit
  <1> QED BY <1>1, <1>2, TypeCorrect, PTL DEF Spec, ImplementsTraversal, Abstract!Spec

-----------------------------------------------------------------------------
(***************************************************************************)
(* The reference tree.  Its levels are a recursive function: that one      *)
(* exists, and that its levels have a property, is shown by the least      *)
(* level that would be an exception.                                       *)
(***************************************************************************)
\* A set of natural numbers has a least element.
LEMMA LeastElement ==
    ASSUME NEW T \in SUBSET Nat, T # {}
    PROVE  \E n \in T : \A m \in T : n <= m
  <1> DEFINE R == OpToRel(<, Nat)
  <1>1. IsWellFoundedOn(R, Nat)
    BY NatLessThanWellFounded, Zenon
  <1>2. \A m, n \in Nat : m < n => <<m, n>> \in R
    BY Zenon DEF OpToRel
  <1> HIDE DEF R
  <1>3. PICK n \in T : \A m \in T : ~(<<m, n>> \in R)
    BY <1>1, WFMin
  <1>4. \A m \in T : n <= m
    <2> TAKE m \in T
    <2>1. m \in Nat /\ n \in Nat  OBVIOUS
    <2>2. ~(m < n)  BY <1>2, <1>3, <2>1
    <2> QED BY <2>1, <2>2
  <1> QED BY <1>4

\* One level from the one above.
Below(files, maps, level) == UNION {Children(files, maps, e) : e \in {e \in level : e.directory}}

\* The recursive definition of the tree has a solution.
LEMMA LevelsUnfold ==
    ASSUME NEW files, NEW maps, NEW root, NEW bottom \in Nat
    PROVE  LET L == Levels(files, maps, root, bottom)
           IN  /\ L[0] = {Top(root)}
               /\ \A d \in 1..bottom : L[d] = Below(files, maps, L[d - 1])
  <1> DEFINE Unfolds(f, n) ==
        f = [d \in 0..n |-> IF d = 0 THEN {Top(root)} ELSE Below(files, maps, f[d - 1])]
  <1>1. \A n \in Nat : \E f : Unfolds(f, n)
    <2> DEFINE T == {n \in Nat : ~\E f : Unfolds(f, n)}
    <2> SUFFICES ASSUME T # {} PROVE FALSE
      OBVIOUS
    <2>1. PICK n \in T : \A m \in T : n <= m
      <3> HIDE DEF Unfolds
      <3> QED BY LeastElement
    <2>2. CASE n = 0
      <3> DEFINE g == [d \in 0..0 |-> {Top(root)}]
      <3>1. \A d \in 0..0 : g[d] = IF d = 0 THEN {Top(root)} ELSE Below(files, maps, g[d - 1])
        OBVIOUS
      <3>2. Unfolds(g, n)
        BY <2>2, <3>1
      <3> HIDE DEF Unfolds
      <3> QED BY <3>2
    <2>3. CASE n # 0
      <3>1. n - 1 \in Nat /\ n - 1 \notin T
        <4> HIDE DEF Unfolds
        <4>1. n \in Nat /\ n - 1 \in Nat /\ n - 1 < n
          BY <2>3
        <4>2. ~(n <= n - 1)
          BY <4>1
        <4> QED BY <2>1, <4>1, <4>2
      <3>2. PICK f : Unfolds(f, n - 1)
        <4> HIDE DEF Unfolds
        <4> QED BY <3>1
      <3> DEFINE g == [d \in 0..n |-> IF d = n THEN Below(files, maps, f[n - 1]) ELSE f[d]]
      <3>3. \A d \in 0..n - 1 : g[d] = f[d] 
        BY <3>1
      <3>4. \A d \in 0..n : g[d] = IF d = 0 THEN {Top(root)} ELSE Below(files, maps, g[d - 1])
        <4> TAKE d \in 0..n
        <4>1. CASE d = n
          <5>1. g[n - 1] = f[n - 1]
            BY <3>1, <3>3
          <5> QED BY <2>3, <4>1, <5>1
        <4>2. CASE d # n /\ d # 0
          <5>1. d \in 0..n - 1 /\ d - 1 \in 0..n - 1
            BY <4>2
          <5>2. f[d] = Below(files, maps, f[d - 1])
            BY <3>2, <4>2, <5>1
          <5> QED BY <3>3, <4>2, <5>1, <5>2
        <4>3. CASE d = 0 /\ d # n
          BY <3>1, <3>2, <3>3, <4>3
        <4> QED BY <4>1, <4>2, <4>3
      <3>5. Unfolds(g, n)
        BY <3>4
      <3> HIDE DEF Unfolds
      <3> QED BY <3>5
    <2> QED BY <2>2, <2>3
  <1>2. PICK f : Unfolds(f, bottom)
    BY <1>1
  <1>3. Unfolds(Levels(files, maps, root, bottom), bottom)
    <2>1. Levels(files, maps, root, bottom) = CHOOSE g : Unfolds(g, bottom)
      BY DEF Levels, Below
    <2> HIDE DEF Unfolds
    <2> QED BY <1>2, <2>1
  <1> DEFINE L == Levels(files, maps, root, bottom)
  <1>4. \A d \in 0..bottom : L[d] = IF d = 0 THEN {Top(root)} ELSE Below(files, maps, L[d - 1])
    <2> HIDE DEF L
    <2>1. Unfolds(L, bottom)
      BY <1>3 DEF L
    <2> QED BY <2>1
  <1>5. L[0] = {Top(root)}
    BY <1>4
  <1>6. \A d \in 1..bottom : L[d] = Below(files, maps, L[d - 1])
    BY <1>4
  <1> QED BY <1>5, <1>6

LEMMA TreeUnfold ==
    ASSUME Typed
    PROVE  /\ Tree[0] = {Top(RootLocation.icb)}
           /\ \A d \in 1..config.max_depth + 1 :
                 Tree[d] = Below(image.entries, Maps, Tree[d - 1])
           /\ config.max_depth \in Nat
  <1>1. config.max_depth \in Nat /\ config.max_depth + 1 \in Nat
    BY InputType DEF Typed, Config
  <1> QED BY <1>1, LevelsUnfold DEF Tree

\* The child of e that record i names, and whether there is one.
ChildAt(files, e, i) ==
    LET r == files[e.icb].records[i]
    IN  [path |-> Append(e.path, r.name), icb |-> r.icb,
         directory |-> files[r.icb].directory, depth |-> Len(e.path) + 1]

NamesChild(files, maps, e, i) ==
    LET r == files[e.icb].records[i] IN r.form = "ok" /\ Known(files, maps, r.icb)

LEMMA ChildrenForm ==
    ASSUME NEW files, NEW maps, NEW e
    PROVE  Children(files, maps, e) =
               IF ~Known(files, maps, e.icb) THEN {}
               ELSE {ChildAt(files, e, i) : i \in {i \in 1..Len(files[e.icb].records) :
                                                      NamesChild(files, maps, e, i)}}
  BY DEF Children, ChildAt, NamesChild

LEMMA ChildType ==
    ASSUME Typed, NEW e, e.path \in Seq(Name), NEW c \in Children(image.entries, Maps, e)
    PROVE  /\ c \in Entry /\ Len(c.path) = Len(e.path) + 1 /\ c.depth = Len(e.path) + 1
           /\ \E x \in Name : c.path = Append(e.path, x)
  <1>1. Known(image.entries, Maps, e.icb)
    BY ChildrenForm
  <1>2. PICK i \in 1..Len(image.entries[e.icb].records) :
           c = ChildAt(image.entries, e, i) /\ NamesChild(image.entries, Maps, e, i)
    BY <1>1, ChildrenForm
  <1> DEFINE r == image.entries[e.icb].records[i]
  <1>3. image.entries[e.icb] \in FileEntry
    BY <1>1, InputType DEF Known, Typed
  <1>4. r \in Record
    <2>1. image.entries[e.icb].records \in Seq(Record)
      BY <1>3 DEF FileEntry
    <2> QED BY <2>1
  <1>5. r.name \in Name /\ r.icb \in Icb
    BY <1>4 DEF Record
  <1>6. image.entries[r.icb] \in FileEntry
    BY <1>2, InputType DEF NamesChild, Known, Typed
  <1>7. image.entries[r.icb].directory \in BOOLEAN
    BY <1>6 DEF FileEntry
  <1>8. c = [path |-> Append(e.path, r.name), icb |-> r.icb,
             directory |-> image.entries[r.icb].directory, depth |-> Len(e.path) + 1]
    BY <1>2 DEF ChildAt
  <1> HIDE DEF r
  <1>9. Append(e.path, r.name) \in Seq(Name) /\ Len(e.path) + 1 \in Nat
        /\ Len(Append(e.path, r.name)) = Len(e.path) + 1
    BY <1>5
  <1> QED BY <1>5, <1>7, <1>8, <1>9 DEF Entry

\* Depth is the length of the path, at every level.
LEMMA TreeType ==
    ASSUME Typed, logical # 0
    PROVE  \A d \in 0..config.max_depth + 1 : \A e \in Tree[d] :
              e \in Entry /\ Len(e.path) = d /\ e.depth = d
  <1> DEFINE Good(d) == \A e \in Tree[d] : e \in Entry /\ Len(e.path) = d /\ e.depth = d
             T == {d \in 0..config.max_depth + 1 : ~Good(d)}
  <1> SUFFICES ASSUME T # {} PROVE FALSE
    OBVIOUS
  <1>1. config.max_depth \in Nat
    BY TreeUnfold
  <1>2. PICK d \in T : \A m \in T : d <= m
    <2> HIDE DEF Good
    <2>1. T \in SUBSET Nat
      BY <1>1
    <2> QED BY <2>1, LeastElement
  <1>3. CASE d = 0
    <2>1. image.descriptors[logical] \in Descriptor
      <3>1. logical \in 1..Len(image.descriptors) /\ image.descriptors \in Seq(Descriptor)
        BY InputType DEF Typed, TypeOK
      <3> QED BY <3>1
    <2>2. RootLocation.icb \in Icb
      BY <2>1 DEF RootLocation, Descriptor
    <2>3. Top(RootLocation.icb) \in Entry /\ Len(Top(RootLocation.icb).path) = 0
          /\ Top(RootLocation.icb).depth = 0
      <3> HIDE DEF RootLocation
      <3> QED BY <2>2 DEF Top, Entry
    <2>4. Good(0)
      BY <2>3, TreeUnfold
    <2> HIDE DEF Good
    <2> QED BY <1>2, <1>3, <2>4
  <1>4. CASE d # 0
    <2>1. d \in 1..config.max_depth + 1 /\ d - 1 \in 0..config.max_depth + 1 /\ d - 1 < d
      <3> HIDE DEF Good
      <3> QED BY <1>1, <1>4
    <2>2. Good(d - 1)
      <3> HIDE DEF Good
      <3>1. ~(d <= d - 1)
        BY <2>1
      <3> QED BY <1>2, <2>1, <3>1
    <2>3. ASSUME NEW c \in Tree[d] PROVE c \in Entry /\ Len(c.path) = d /\ c.depth = d
      <3>1. PICK e \in Tree[d - 1] : c \in Children(image.entries, Maps, e)
        BY <2>1, TreeUnfold DEF Below
      <3>2. e.path \in Seq(Name) /\ Len(e.path) = d - 1
        BY <2>2, <3>1 DEF Entry
      <3> QED BY <2>1, <3>1, <3>2, ChildType
    <2>4. Good(d)
      BY <2>3
    <2> HIDE DEF Good
    <2> QED BY <1>2, <2>4
  <1> QED BY <1>3, <1>4

LEMMA TreeChild ==
    ASSUME Typed, NEW d \in 0..config.max_depth, NEW e \in Tree[d], e.directory,
           NEW c \in Children(image.entries, Maps, e)
    PROVE  c \in Tree[d + 1]
  <1>1. d + 1 \in 1..config.max_depth + 1 /\ (d + 1) - 1 = d
    BY TreeUnfold
  <1>2. Tree[d + 1] = Below(image.entries, Maps, Tree[d])
    BY <1>1, TreeUnfold
  <1> HIDE DEF Tree
  <1> QED BY <1>2 DEF Below

LEMMA TreeFixed ==
    ASSUME UNCHANGED <<input, logical>>
    PROVE  /\ Tree' = Tree /\ Maps' = Maps /\ RootLocation' = RootLocation
           /\ image' = image /\ config' = config
  <1>1. image' = image /\ config' = config
    BY DEF image, config
  <1> QED BY <1>1 DEF Tree, Maps, RootLocation

-----------------------------------------------------------------------------
(***************************************************************************)
(* The listing and the reference tree.  InTree: what is queued, being read *)
(* or listed is in the tree, at its depth.  Ordered: the queue never spans *)
(* more than two levels, so entries come level by level.                   *)
(***************************************************************************)
\* A queued directory, as the tree has it.
AsEntry(l) == [path |-> l.path, icb |-> l.icb, directory |-> TRUE, depth |-> l.depth]

Underway == phase \in {"records", "progress"}

InTree ==
    catalog.volume # 0 =>
        /\ \A i \in 1..Len(pending) :
              pending[i].depth \in 0..config.max_depth
              /\ AsEntry(pending[i]) \in Tree[pending[i].depth]
        /\ Underway => /\ directory.depth \in 0..config.max_depth
                       /\ AsEntry(directory) \in Tree[directory.depth]
        /\ \A i \in 1..Len(catalog.entries) :
              catalog.entries[i].depth \in 1..config.max_depth + 1
              /\ catalog.entries[i] \in Tree[catalog.entries[i].depth]

\* Level n is being read: its directories and the next level's are queued.
Reading(n) ==
    /\ \A i \in 1..Len(pending) : pending[i].depth \in {n, n + 1}
    /\ \A i \in 1..Len(catalog.entries) : catalog.entries[i].depth <= n + 1
    /\ Underway => directory.depth = n

Ascending(s) == \A i \in 1..Len(s) : \A j \in 1..i : s[j].depth <= s[i].depth

Ordered ==
    /\ Ascending(pending)
    /\ Ascending(catalog.entries)
    /\ phase \in Walking => \E n \in 0..config.max_depth : Reading(n)

(***************************************************************************)
(* What is missing.  Accounted: for as long as no limit is reached, every  *)
(* directory known is waiting in the queue, or being read and accounted    *)
(* for up to the cursor, or settled for good.                              *)
(***************************************************************************)
Excused(p) == \E i \in 1..Len(catalog.issues) : Accounts(catalog.issues[i], p)

Found(e) ==
    \/ \E i \in 1..Len(catalog.entries) : catalog.entries[i] = e
    \/ Excused(e.path)

Settled(q) == Excused(q.path) \/ \A c \in Children(image.entries, Maps, q) : Found(c)

Waiting(q) == \E i \in 1..Len(pending) : pending[i].path = q.path /\ pending[i].icb = q.icb

Scanned(q) ==
    /\ phase = "records"
    /\ directory.path = q.path /\ directory.icb = q.icb
    /\ \A i \in 1..cursor - 1 :
          NamesChild(image.entries, Maps, q, i) => Found(ChildAt(image.entries, q, i))

Directories ==
    {Top(RootLocation.icb)}
    \cup {catalog.entries[i] : i \in {i \in 1..Len(catalog.entries) :
                                         catalog.entries[i].directory}}

Whole == result # "error" /\ ~catalog.cancelled /\ ~catalog.limit_reached

Accounted ==
    catalog.volume # 0 /\ Whole =>
        \A q \in Directories : Waiting(q) \/ Scanned(q) \/ Settled(q)

\* A directory that waits was listed, but for the root, which waits alone.
Untouched ==
    IF visited = {}
    THEN Len(pending) <= 1 /\ ~Underway
    ELSE \A i \in 1..Len(pending) : \E j \in 1..Len(catalog.entries) :
            /\ catalog.entries[j].path = pending[i].path
            /\ catalog.entries[j].icb = pending[i].icb

\* Only a limit ends the walk of a catalog that is not cancelled with directories
\* left in the queue.
Ended ==
    /\ phase # "returned" => result = "none"
    /\ result = "ok" /\ Whole => pending = <<>> /\ catalog.volume # 0
    /\ catalog.limit_reached =>
          \/ Len(catalog.entries) >= config.max_entries
          \/ DirectoryLimit
          \/ \E i \in 1..Len(catalog.entries) :
                catalog.entries[i].directory /\ catalog.entries[i].depth > config.max_depth

ListingInv == InTree /\ Ordered /\ Accounted /\ Untouched /\ Ended

-----------------------------------------------------------------------------
\* The entry to be listed is the child of the directory that its record names.
LEMMA ListedChild ==
    ASSUME Typed, InTree, ListRecord
    PROVE  /\ Listed = ChildAt(image.entries, AsEntry(directory), cursor)
           /\ Listed \in Tree[directory.depth + 1]
           /\ Listed.depth = directory.depth + 1
           /\ directory.depth \in 0..config.max_depth
           /\ Len(directory.path) = directory.depth
           /\ Listed.path = Append(directory.path, Identifier.name)
  <1>1. /\ catalog.volume # 0 /\ logical # 0 /\ Underway /\ phase = "records"
        /\ Readable(directory.icb)
    BY ListFrame DEF Listing, ListRecord, AtRecord, Underway, Typed, TypeOK
  <1>2. directory.depth \in 0..config.max_depth /\ AsEntry(directory) \in Tree[directory.depth]
    BY <1>1 DEF InTree
  <1>3. AsEntry(directory).path = directory.path /\ AsEntry(directory).directory = TRUE
        /\ AsEntry(directory).icb = directory.icb
    BY DEF AsEntry
  <1>4. Len(directory.path) = directory.depth
    <2>1. directory.depth \in 0..config.max_depth + 1
      BY <1>2, TreeUnfold
    <2> QED BY <1>1, <1>2, <1>3, <2>1, TreeType
  <1>5. /\ cursor \in 1..Len(Records) /\ Identifier.form = "ok"
        /\ Readable(Identifier.icb)
    BY RecordType DEF ListRecord, Typed
  <1>6. /\ Records = image.entries[AsEntry(directory).icb].records
        /\ Identifier = image.entries[AsEntry(directory).icb].records[cursor]
    BY <1>3 DEF Records, Identifier
  <1>7. Listed = ChildAt(image.entries, AsEntry(directory), cursor)
    BY <1>3, <1>4, <1>6 DEF Listed, ChildAt
  <1>8. NamesChild(image.entries, Maps, AsEntry(directory), cursor)
        /\ Known(image.entries, Maps, AsEntry(directory).icb)
    BY <1>1, <1>3, <1>5, <1>6 DEF NamesChild, Readable
  <1>9. Listed \in Children(image.entries, Maps, AsEntry(directory))
    BY <1>5, <1>6, <1>7, <1>8, ChildrenForm
  <1>10. Listed \in Tree[directory.depth + 1]
    BY <1>2, <1>3, <1>9, TreeChild
  <1> QED BY <1>2, <1>4, <1>7, <1>10 DEF Listed

\* How a step that pops moves the queue.
LEMMA PoppedQueue ==
    ASSUME Typed, Visiting, ~FinishWalk
    PROVE  /\ Popped /\ pending \in Seq(Location) /\ 1 \in 1..Len(pending)
           /\ Head(pending) = pending[1] /\ Head(pending) \in Location
           /\ Len(pending') = Len(pending) - 1 /\ Len(pending) \in Nat
           /\ \A i \in 1..Len(pending') :
                 i + 1 \in 1..Len(pending) /\ pending'[i] = pending[i + 1]
  <1>1. Popped
    BY DEF Visiting, CancelWalk, SkipVisited, StopAtLimit, DirectoryFails,
           SkipDirectory, ReadDirectory, Visit
  <1> QED BY <1>1, PoppedType DEF Typed

\* Which directory is underway after such a step.
LEMMA VisitUnderway ==
    ASSUME Typed, Visiting
    PROVE  \/ ~Underway' /\ phase' # "records"
           \/ ReadDirectory /\ directory' = Head(pending) /\ cursor' = 1 /\ phase' = "records"
  BY VisitFrame DEF Underway, Visiting, FinishWalk, CancelWalk, SkipVisited, StopAtLimit,
         DirectoryFails, SkipDirectory, ReadDirectory, Visit, Popped, Fail, Return

LEMMA InTreeStep ==
    ASSUME Typed, InTree, Budgets, [Next]_vars
    PROVE  InTree'
  <1>1. CASE Scanning
    <2>1. CASE UNCHANGED catalog
      <3>1. catalog.volume = 0
        BY <1>1, ScanFrame DEF Typed, Chosen
      <3> QED BY <2>1, <3>1 DEF InTree
    <2>2. CASE /\ phase' = "walk" /\ logical' = logical
               /\ catalog' = [EmptyCatalog EXCEPT !.volume = logical]
               /\ pending' = <<RootLocation>>
      <3>1. catalog'.entries = <<>> /\ ~Underway'
        BY <2>2 DEF EmptyCatalog, Underway
      <3>2. /\ Len(pending') = 1 /\ pending'[1] = RootLocation
            /\ RootLocation.depth = 0 /\ AsEntry(RootLocation) = Top(RootLocation.icb)
        BY <2>2 DEF RootLocation, AsEntry, Top
      <3>3. Tree' = Tree /\ Tree[0] = {Top(RootLocation.icb)} /\ config' = config
            /\ config.max_depth \in Nat
        BY <1>1, <2>2, ScanFrame, TreeUnfold, TreeFixed
      <3> HIDE DEF RootLocation, Tree
      <3>4. \A i \in 1..Len(pending') :
               /\ pending'[i].depth \in 0..config.max_depth
               /\ AsEntry(pending'[i]) \in Tree[pending'[i].depth]
        BY <3>2, <3>3
      <3>5. \A l : AsEntry(l)' = AsEntry(l)
        BY DEF AsEntry
      <3> QED BY <3>1, <3>3, <3>4, <3>5 DEF InTree, AsEntry
    <2> QED BY <1>1, <2>1, <2>2, ScanFrame
  <1>2. CASE Visiting
    <2>1. /\ catalog.volume # 0 /\ catalog'.entries = catalog.entries
          /\ Tree' = Tree /\ config' = config
      BY <1>2, VisitFrame, TreeFixed DEF scan
    <2> HIDE DEF Tree
    <2>2. /\ \A i \in 1..Len(pending') :
                /\ pending'[i].depth \in 0..config.max_depth
                /\ AsEntry(pending'[i]) \in Tree[pending'[i].depth]
          /\ Underway' => /\ directory'.depth \in 0..config.max_depth
                          /\ AsEntry(directory') \in Tree[directory'.depth]
      <3>1. CASE FinishWalk
        BY <1>2, <2>1, <3>1, VisitUnderway DEF FinishWalk, Return, walk, InTree, ReadDirectory,
               Visit, Popped
      <3>2. CASE ~FinishWalk
        BY <1>2, <2>1, <3>2, PoppedQueue, VisitUnderway DEF InTree
      <3> QED BY <3>1, <3>2
    <2> QED BY <2>1, <2>2 DEF InTree, AsEntry
  <1>3. CASE Listing
    <2>1. /\ catalog.volume # 0 /\ Tree' = Tree /\ config' = config
          /\ directory' = directory /\ Underway
      BY <1>3, ListFrame, TreeFixed DEF scan, Underway
    <2>2. CASE ~ListRecord
      <3>1. pending' = pending /\ catalog'.entries = catalog.entries
        BY <1>3, <2>2, ListFrame
      <3> HIDE DEF Tree
      <3> QED BY <2>1, <3>1 DEF InTree, AsEntry
    <2>3. CASE ListRecord
      <3> DEFINE l == [path |-> Listed.path, icb |-> Listed.icb, depth |-> Listed.depth]
      <3>1. /\ Listed \in Tree[Listed.depth] /\ Listed \in Entry
            /\ Listed.depth \in 1..config.max_depth + 1
        <4>1. config.max_depth \in Nat
          BY TreeUnfold
        <4> HIDE DEF Tree
        <4> QED BY <2>3, <4>1, ListedChild, ListStep
      <3>2. Listed.directory => AsEntry(l) = Listed
        <4>1. Listed.directory \in BOOLEAN
          BY <3>1 DEF Entry
        <4> QED BY <4>1 DEF AsEntry, Listed
      <3>3. ASSUME NEW i \in 1..Len(catalog'.entries)
            PROVE  /\ catalog'.entries[i].depth \in 1..config.max_depth + 1
                   /\ catalog'.entries[i] \in Tree[catalog'.entries[i].depth]
        <4>1. Len(catalog.entries) \in Nat
          BY CatalogFields DEF Typed, TypeOK
        <4>2. i = Len(catalog.entries) + 1 \/ i \in 1..Len(catalog.entries)
          BY <2>3, <4>1, ListStep
        <4> HIDE DEF Tree
        <4> QED BY <2>1, <2>3, <3>1, <4>2, ListStep DEF InTree
      <3>4. ASSUME NEW i \in 1..Len(pending')
            PROVE  /\ pending'[i].depth \in 0..config.max_depth
                   /\ AsEntry(pending'[i]) \in Tree[pending'[i].depth]
        <4>1. CASE pending' = pending
          BY <2>1, <4>1, <3>4 DEF InTree
        <4>2. CASE pending' # pending
          <5>1. /\ pending' = Append(pending, l) /\ l.depth <= config.max_depth
                /\ Listed.directory /\ pending \in Seq(Location)
            BY <2>3, <4>2, ListStep DEF Typed, TypeOK
          <5>2. l.depth = Listed.depth /\ config.max_depth \in Nat
            BY TreeUnfold
          <5>3. AsEntry(l) \in Tree[l.depth] /\ l.depth \in 0..config.max_depth
            BY <3>1, <3>2, <5>1, <5>2
          <5> HIDE DEF l, Tree
          <5>4. pending'[i] = l \/ (i \in 1..Len(pending) /\ pending'[i] = pending[i])
            BY <5>1
          <5> QED BY <2>1, <5>3, <5>4 DEF InTree
        <4> QED BY <4>1, <4>2
      <3>5. directory.depth \in 0..config.max_depth
            /\ AsEntry(directory) \in Tree[directory.depth]
        BY <2>1 DEF InTree
      <3> HIDE DEF Tree
      <3> QED BY <2>1, <3>3, <3>4, <3>5 DEF InTree, AsEntry
    <2> QED BY <2>2, <2>3
  <1>4. CASE Returned \/ UNCHANGED vars
    <2>1. UNCHANGED vars
      BY <1>4 DEF Returned
    <2>2. UNCHANGED <<catalog, pending, phase, directory>> /\ Tree' = Tree /\ config' = config
      BY <2>1, TreeFixed DEF vars, walk, scan
    <2> HIDE DEF Tree
    <2> QED BY <2>2 DEF InTree, AsEntry, Underway
  <1> QED BY <1>1, <1>2, <1>3, <1>4, NextSplit

LEMMA OrderedStep ==
    ASSUME Typed, InTree, Ordered, [Next]_vars
    PROVE  Ordered'
  <1>c. config' = config /\ config.max_depth \in Nat
    BY InputFixed, TreeUnfold
  <1>t. /\ pending \in Seq(Location) /\ catalog.entries \in Seq(Entry)
        /\ \A i \in 1..Len(pending) : pending[i].depth \in Nat
        /\ \A i \in 1..Len(catalog.entries) : catalog.entries[i].depth \in Nat
        /\ directory.depth \in Nat
        /\ Len(pending) \in Nat /\ Len(catalog.entries) \in Nat
    <2>1. pending \in Seq(Location) /\ catalog.entries \in Seq(Entry) /\ directory \in Location
      BY CatalogFields DEF Typed, TypeOK
    <2>2. \A l \in Location : l.depth \in Nat
      BY DEF Location
    <2>3. \A e \in Entry : e.depth \in Nat
      BY DEF Entry
    <2> QED BY <2>1, <2>2, <2>3
  <1>1. CASE Scanning
    <2>1. CASE UNCHANGED <<catalog, pending>> /\ phase' \notin Walking
      BY <2>1 DEF Ordered, Ascending
    <2>2. CASE /\ phase' = "walk"
               /\ catalog' = [EmptyCatalog EXCEPT !.volume = logical]
               /\ pending' = <<RootLocation>>
      <3>1. Len(catalog'.entries) = 0 /\ ~Underway'
        BY <2>2 DEF EmptyCatalog, Underway
      <3>2. Len(pending') = 1 /\ pending'[1].depth = 0
        BY <2>2 DEF RootLocation
      <3>3. Reading(0)'
        BY <3>1, <3>2 DEF Reading
      <3> QED BY <1>c, <3>1, <3>2, <3>3 DEF Ordered, Ascending
    <2> QED BY <1>1, <2>1, <2>2, ScanFrame
  <1>2. CASE Visiting
    <2>1. catalog'.entries = catalog.entries /\ phase = "walk"
      BY <1>2, VisitFrame
    <2>2. PICK n \in 0..config.max_depth : Reading(n)
      BY <2>1 DEF Ordered, Walking
    <2>3. CASE FinishWalk
      BY <1>2, <2>1, <2>3 DEF FinishWalk, Return, walk, Ordered, Ascending, Walking
    <2>4. CASE ~FinishWalk
      <3>1. /\ Len(pending') = Len(pending) - 1 /\ 1 \in 1..Len(pending)
            /\ Head(pending) = pending[1]
            /\ \A i \in 1..Len(pending') :
                  i + 1 \in 1..Len(pending) /\ pending'[i] = pending[i + 1]
        BY <1>2, <2>4, PoppedQueue
      <3>2. Ascending(pending)' /\ Ascending(catalog.entries)'
        <4>1. ASSUME NEW i \in 1..Len(pending'), NEW j \in 1..i
              PROVE  pending'[j].depth <= pending'[i].depth
          <5>1. i + 1 \in 1..Len(pending) /\ j \in 1..Len(pending') /\ j + 1 \in 1..i + 1
            BY <1>t, <3>1
          <5>2. pending[j + 1].depth <= pending[i + 1].depth
            BY <5>1 DEF Ordered, Ascending
          <5> QED BY <3>1, <5>1, <5>2
        <4> QED BY <2>1, <4>1 DEF Ordered, Ascending
      <3>3. CASE ~Underway'
        <4>1. Reading(n)'
          BY <2>1, <2>2, <3>1, <3>3 DEF Reading
        <4> QED BY <1>c, <3>2, <4>1 DEF Ordered
      <3>4. CASE directory' = Head(pending)
        <4>1. PICK m \in 0..config.max_depth : m = pending[1].depth
          BY <1>2, <3>1, VisitFrame DEF InTree
        <4>2. m \in {n, n + 1} /\ m <= n + 1 /\ n <= m
          BY <2>2, <3>1, <4>1 DEF Reading
        <4>3. ASSUME NEW i \in 1..Len(pending') PROVE pending'[i].depth \in {m, m + 1}
          <5>1. /\ i + 1 \in 1..Len(pending) /\ 1 \in 1..i + 1
                /\ pending'[i] = pending[i + 1]
            BY <1>t, <3>1
          <5>2. m <= pending[i + 1].depth
            BY <4>1, <5>1 DEF Ordered, Ascending
          <5>3. pending[i + 1].depth \in {n, n + 1}
            BY <2>2, <5>1 DEF Reading
          <5> QED BY <4>2, <5>1, <5>2, <5>3
        <4>4. \A i \in 1..Len(catalog'.entries) : catalog'.entries[i].depth <= m + 1
          <5>1. \A i \in 1..Len(catalog.entries) : catalog.entries[i].depth <= n + 1
            BY <2>2 DEF Reading
          <5> QED BY <1>t, <2>1, <4>1, <4>2, <5>1
        <4>5. Reading(m)'
          BY <3>1, <3>4, <4>1, <4>3, <4>4 DEF Reading
        <4> QED BY <1>c, <3>2, <4>1, <4>5 DEF Ordered
      <3> QED BY <1>2, <3>3, <3>4, VisitUnderway
    <2> QED BY <2>3, <2>4
  <1>3. CASE Listing
    <2>1. /\ phase \in Walking /\ directory' = directory /\ Underway
      BY <1>3, ListFrame DEF Underway, Walking
    <2>2. PICK n \in 0..config.max_depth : Reading(n)
      BY <2>1 DEF Ordered
    <2>3. directory.depth = n
      BY <2>1, <2>2 DEF Reading
    <2>4. CASE ~ListRecord
      <3>1. pending' = pending /\ catalog'.entries = catalog.entries
        BY <1>3, <2>4, ListFrame
      <3>2. Reading(n)'
        BY <2>1, <2>2, <2>3, <3>1 DEF Reading
      <3> QED BY <1>c, <3>1, <3>2 DEF Ordered, Ascending
    <2>5. CASE ListRecord
      <3>1. Listed.depth = n + 1
        BY <2>3, <2>5, ListedChild
      <3>2. /\ Len(catalog'.entries) = Len(catalog.entries) + 1
            /\ catalog'.entries[Len(catalog.entries) + 1] = Listed
            /\ \A i \in 1..Len(catalog.entries) : catalog'.entries[i] = catalog.entries[i]
        BY <2>5, ListStep
      <3>3. \A i \in 1..Len(catalog.entries) : catalog.entries[i].depth <= n + 1
        BY <2>2 DEF Reading
      <3>4. Ascending(catalog.entries)'
            /\ \A i \in 1..Len(catalog'.entries) : catalog'.entries[i].depth <= n + 1
        <4>1. ASSUME NEW i \in 1..Len(catalog'.entries), NEW j \in 1..i
              PROVE  catalog'.entries[j].depth <= catalog'.entries[i].depth
          <5>1. CASE i \in 1..Len(catalog.entries)
            <6>1. j \in 1..Len(catalog.entries)
              BY <1>t, <5>1
            <6> QED BY <3>2, <5>1, <6>1 DEF Ordered, Ascending
          <5>2. CASE i = Len(catalog.entries) + 1
            <6>1. j \in 1..Len(catalog.entries) \/ j = i
              BY <1>t, <5>2
            <6> QED BY <3>1, <3>2, <3>3, <5>2, <6>1
          <5> QED BY <1>t, <3>2, <5>1, <5>2
        <4>2. ASSUME NEW i \in 1..Len(catalog'.entries)
              PROVE  catalog'.entries[i].depth <= n + 1
          <5>1. i \in 1..Len(catalog.entries) \/ i = Len(catalog.entries) + 1
            BY <1>t, <3>2
          <5> QED BY <3>1, <3>2, <3>3, <5>1
        <4> QED BY <4>1, <4>2 DEF Ascending
      <3>5. Ascending(pending)' /\ \A i \in 1..Len(pending') : pending'[i].depth \in {n, n + 1}
        <4>1. \A i \in 1..Len(pending) : pending[i].depth \in {n, n + 1}
          BY <2>2 DEF Reading
        <4>2. CASE pending' = pending
          BY <4>1, <4>2 DEF Ordered, Ascending
        <4>3. CASE pending' # pending
          <5> DEFINE l == [path |-> Listed.path, icb |-> Listed.icb, depth |-> Listed.depth]
          <5>1. pending' = Append(pending, l) /\ l.depth = n + 1
            BY <2>5, <3>1, <4>3, ListStep
          <5> HIDE DEF l
          <5>2. /\ Len(pending') = Len(pending) + 1 /\ pending'[Len(pending) + 1] = l
                /\ \A i \in 1..Len(pending) : pending'[i] = pending[i]
            BY <1>t, <5>1
          <5>3. ASSUME NEW i \in 1..Len(pending'), NEW j \in 1..i
                PROVE  pending'[j].depth <= pending'[i].depth
            <6>1. CASE i \in 1..Len(pending)
              <7>1. j \in 1..Len(pending)
                BY <1>t, <6>1
              <7> QED BY <5>2, <6>1, <7>1 DEF Ordered, Ascending
            <6>2. CASE i = Len(pending) + 1
              <7>1. j \in 1..Len(pending) \/ j = i
                BY <1>t, <6>2
              <7> QED BY <4>1, <5>1, <5>2, <6>2, <7>1
            <6> QED BY <1>t, <5>2, <6>1, <6>2
          <5>4. ASSUME NEW i \in 1..Len(pending') PROVE pending'[i].depth \in {n, n + 1}
            <6>1. i \in 1..Len(pending) \/ i = Len(pending) + 1
              BY <1>t, <5>2
            <6> QED BY <4>1, <5>1, <5>2, <6>1
          <5> QED BY <5>3, <5>4 DEF Ascending
        <4> QED BY <4>2, <4>3
      <3>6. Reading(n)'
        BY <2>1, <2>3, <3>4, <3>5 DEF Reading
      <3> QED BY <1>c, <3>4, <3>5, <3>6 DEF Ordered
    <2> QED BY <2>4, <2>5
  <1>4. CASE Returned \/ UNCHANGED vars
    <2>1. UNCHANGED <<catalog, pending, phase, directory>>
      BY <1>4 DEF Returned, vars, walk
    <2> QED BY <1>c, <2>1 DEF Ordered, Ascending, Reading, Underway
  <1> QED BY <1>1, <1>2, <1>3, <1>4, NextSplit

\* The lists of a catalog only grow, and then everything found stays found.
Grows ==
    /\ \A i \in 1..Len(catalog.entries) :
          i \in 1..Len(catalog'.entries) /\ catalog'.entries[i] = catalog.entries[i]
    /\ \A i \in 1..Len(catalog.issues) :
          i \in 1..Len(catalog'.issues) /\ catalog'.issues[i] = catalog.issues[i]

LEMMA IssueGrows ==
    ASSUME NEW c \in Catalog, NEW issue \in Issue, catalog = c, catalog' = Report(c, issue)
    PROVE  /\ Grows
           /\ Len(catalog'.issues) \in 1..Len(catalog'.issues)
           /\ catalog'.issues[Len(catalog'.issues)] = issue
           /\ catalog'.entries = catalog.entries
           /\ catalog'.cancelled = catalog.cancelled
           /\ catalog'.limit_reached = catalog.limit_reached
  <1>1. /\ catalog'.issues = Append(c.issues, issue) /\ catalog'.entries = c.entries
        /\ catalog'.cancelled = c.cancelled /\ catalog'.limit_reached = c.limit_reached
    BY CatalogReport
  <1>2. c.issues \in Seq(Issue) /\ Len(c.issues) \in Nat
    BY CatalogFields
  <1> QED BY <1>1, <1>2 DEF Grows

LEMMA StaysFound ==
    ASSUME Grows, UNCHANGED <<input, logical>>
    PROVE  /\ \A p : Excused(p) => Excused(p)'
           /\ \A e : Found(e) => Found(e)'
           /\ \A q : Settled(q) => Settled(q)'
  <1>1. image' = image /\ Maps' = Maps
    BY TreeFixed
  <1>2. ASSUME NEW issue, NEW p, Accounts(issue, p) PROVE Accounts(issue, p)'
    <2>1. CASE issue.what \in {"oversize", "entry"} /\ issue.path = p
      BY <2>1 DEF Accounts
    <2>2. CASE /\ issue.what = "traversed"
               /\ \E i \in 1..Len(catalog.entries) :
                     catalog.entries[i].path = p /\ catalog.entries[i].icb = issue.icb
      BY <2>2 DEF Accounts, Grows
    <2> QED BY <1>2, <2>1, <2>2 DEF Accounts
  <1>3. ASSUME NEW p, Excused(p) PROVE Excused(p)'
    <2>1. PICK i \in 1..Len(catalog.issues) : Accounts(catalog.issues[i], p)
      BY <1>3 DEF Excused
    <2>2. i \in 1..Len(catalog'.issues) /\ catalog'.issues[i] = catalog.issues[i]
      BY DEF Grows
    <2>3. Accounts(catalog.issues[i], p)'
      <3>1. PICK x : x = catalog.issues[i]
        OBVIOUS
      <3>2. Accounts(x, p)'
        BY <1>2, <2>1, <3>1
      <3> QED BY <2>2, <3>1, <3>2 DEF Accounts
    <2> QED BY <2>2, <2>3 DEF Excused, Accounts
  <1>4. ASSUME NEW e, Found(e) PROVE Found(e)'
    BY <1>3, <1>4 DEF Found, Grows
  <1>5. ASSUME NEW q, Settled(q) PROVE Settled(q)'
    BY <1>1, <1>3, <1>4, <1>5 DEF Settled
  <1> QED BY <1>3, <1>4, <1>5

LEMMA SameGrows ==
    ASSUME Typed, catalog'.entries = catalog.entries, catalog'.issues = catalog.issues
    PROVE  Grows
  BY DEF Grows

\* What a step of the directory loop reports.
LEMMA VisitReport ==
    ASSUME Typed, Visiting
    PROVE  /\ Grows
           /\ catalog.cancelled => catalog'.cancelled
           /\ catalog.limit_reached => catalog'.limit_reached
           /\ SkipVisited \/ SkipDirectory =>
                 /\ Len(catalog'.issues) \in 1..Len(catalog'.issues)
                 /\ catalog'.issues[Len(catalog'.issues)] =
                       IF SkipVisited THEN [what |-> "traversed", icb |-> Head(pending).icb]
                       ELSE [what |-> "oversize", path |-> Head(pending).path]
                 /\ catalog'.limit_reached = catalog.limit_reached
           /\ ReadDirectory => catalog'.limit_reached = catalog.limit_reached
  <1>1. catalog \in Catalog
    BY DEF Typed, TypeOK
  <1>2. CASE SkipVisited \/ SkipDirectory
    <2>1. ~ReadDirectory /\ Popped /\ ~(SkipVisited /\ SkipDirectory)
      BY <1>2 DEF SkipVisited, SkipDirectory, Visit, ReadDirectory
    <2>2. Head(pending) \in Location /\ Head(pending).icb \in Icb
      BY <2>1, PoppedType DEF Typed
    <2>3. /\ [what |-> "traversed", icb |-> Head(pending).icb] \in Issue
          /\ [what |-> "oversize", path |-> Head(pending).path] \in Issue
      BY <2>2 DEF Issue, Location
    <2>4. PICK issue \in Issue :
             /\ catalog' = Report(catalog, issue)
             /\ issue = IF SkipVisited THEN [what |-> "traversed", icb |-> Head(pending).icb]
                        ELSE [what |-> "oversize", path |-> Head(pending).path]
      BY <1>2, <2>3 DEF SkipVisited, SkipDirectory, RefuseOversize
    <2> QED BY <1>1, <2>1, <2>4, IssueGrows
  <1>3. CASE FinishWalk \/ CancelWalk \/ StopAtLimit \/ DirectoryFails \/ ReadDirectory
    <2>1. /\ catalog'.entries = catalog.entries /\ catalog'.issues = catalog.issues
          /\ catalog.cancelled => catalog'.cancelled
          /\ catalog.limit_reached => catalog'.limit_reached
          /\ ReadDirectory => catalog'.limit_reached = catalog.limit_reached
      BY <1>1, <1>3 DEF FinishWalk, CancelWalk, StopAtLimit, DirectoryFails, ReadDirectory,
             Visit, Popped, Return, Fail, Catalog
    <2>2. ~SkipVisited /\ ~SkipDirectory
      BY <1>3 DEF FinishWalk, CancelWalk, StopAtLimit, DirectoryFails, ReadDirectory, Visit,
             Popped, SkipVisited, SkipDirectory, Fail, Return, ReadableDirectory
    <2> QED BY <2>1, <2>2, SameGrows
  <1> QED BY <1>2, <1>3 DEF Visiting

LEMMA ListReport ==
    ASSUME Typed, Listing
    PROVE  /\ Grows
           /\ catalog.cancelled => catalog'.cancelled
           /\ catalog.limit_reached => catalog'.limit_reached
  <1>1. catalog \in Catalog /\ catalog.entries \in Seq(Entry)
    BY CatalogFields DEF Typed, TypeOK
  <1>2. CASE BrokenRecord \/ SkipRecord \/ ReportProgress
    BY <1>2, SameGrows DEF BrokenRecord, SkipRecord, ReportProgress, Fail, Return
  <1>3. CASE RejectRecord \/ EndOfDirectory
    <2>1. CASE catalog' = catalog
      BY <2>1, SameGrows
    <2>2. CASE \E issue \in Issue : catalog' = Report(catalog, issue)
      BY <1>1, <2>2, IssueGrows
    <2>3. directory.path \in Seq(Name)
      BY DEF Typed, TypeOK, Location
    <2>4. AtRecord => Append(directory.path, Identifier.name) \in Seq(Name)
      BY RecordType DEF Typed
    <2>5. /\ [what |-> "name", path |-> directory.path] \in Issue
          /\ [what |-> "map", path |-> directory.path] \in Issue
          /\ [what |-> "tail", path |-> directory.path] \in Issue
          /\ AtRecord =>
                [what |-> "entry", path |-> Append(directory.path, Identifier.name)] \in Issue
      BY <2>3, <2>4 DEF Issue
    <2> QED BY <1>3, <2>1, <2>2, <2>5 DEF RejectRecord, RefuseName, EndOfDirectory
  <1>4. CASE ListRecord
    <2>1. Len(catalog.entries) \in Nat
      BY <1>1
    <2>2. catalog.limit_reached \in BOOLEAN
      BY <1>1, CatalogFields
    <2> QED BY <1>4, <2>1, <2>2, ListStep DEF Grows
  <1> QED BY <1>2, <1>3, <1>4 DEF Listing

LEMMA UntouchedStep ==
    ASSUME Typed, Untouched, [Next]_vars
    PROVE  Untouched'
  <1>1. CASE Scanning
    <2>1. visited = {} /\ visited' = {} /\ pending = <<>>
      BY <1>1, ScanFrame DEF Typed, Chosen
    <2>2. phase' \notin {"records", "progress"}
      BY <1>1, ScanFrame DEF Walking
    <2>3. pending' = <<>> \/ \E l : pending' = <<l>>
      BY <1>1, <2>1, ScanFrame
    <2>4. Len(pending') <= 1
      <3>1. pending' \in Seq(Location)
        BY <1>1, ScanType DEF Typed, TypeOK
      <3>2. CASE pending' = <<>>
        BY <3>1, <3>2
      <3>3. ASSUME NEW l, pending' = <<l>> PROVE Len(pending') <= 1
        BY <3>1, <3>3
      <3> QED BY <2>3, <3>2, <3>3
    <2> QED BY <2>1, <2>2, <2>4 DEF Untouched, Underway
  <1>2. CASE Visiting
    <2>1. catalog'.entries = catalog.entries /\ phase = "walk" /\ visited \subseteq visited'
      BY <1>2, VisitFrame
         DEF Visiting, FinishWalk, CancelWalk, SkipVisited, StopAtLimit, DirectoryFails,
             SkipDirectory, ReadDirectory, Visit, walk
    <2>2. CASE FinishWalk
      BY <2>1, <2>2 DEF FinishWalk, Return, walk, Untouched, Underway
    <2>3. CASE ~FinishWalk
      <3>1. /\ Len(pending') = Len(pending) - 1 /\ Len(pending) \in Nat
            /\ \A i \in 1..Len(pending') :
                  i + 1 \in 1..Len(pending) /\ pending'[i] = pending[i + 1]
        BY <1>2, <2>3, PoppedQueue
      <3>2. CASE visited # {}
        <4>1. ASSUME NEW i \in 1..Len(pending')
              PROVE  \E j \in 1..Len(catalog'.entries) :
                        /\ catalog'.entries[j].path = pending'[i].path
                        /\ catalog'.entries[j].icb = pending'[i].icb
          BY <2>1, <3>1, <3>2 DEF Untouched
        <4>2. visited' # {}
          BY <2>1, <3>2
        <4> QED BY <4>1, <4>2 DEF Untouched
      <3>3. CASE visited = {}
        <4>1. Len(pending') <= 0
          BY <3>1, <3>3 DEF Untouched
        <4>2. visited' = {} => ~Underway'
          BY <1>2, VisitUnderway DEF ReadDirectory, Visit
        <4>3. Len(pending') <= 1 /\ 1..Len(pending') = {}
          BY <3>1, <4>1
        <4> QED BY <4>2, <4>3 DEF Untouched
      <3> QED BY <3>2, <3>3
    <2> QED BY <2>2, <2>3
  <1>3. CASE Listing
    <2>1. visited # {} /\ visited' = visited
      BY <1>3, ListFrame DEF Untouched, Underway
    <2>2. CASE ~ListRecord
      <3>1. pending' = pending /\ catalog'.entries = catalog.entries
        BY <1>3, <2>2, ListFrame
      <3> QED BY <2>1, <3>1 DEF Untouched
    <2>3. CASE ListRecord
      <3> DEFINE l == [path |-> Listed.path, icb |-> Listed.icb, depth |-> Listed.depth]
      <3>1. Grows
        BY <1>3, ListReport
      <3>2. ASSUME NEW i \in 1..Len(pending')
            PROVE  \E j \in 1..Len(catalog'.entries) :
                      /\ catalog'.entries[j].path = pending'[i].path
                      /\ catalog'.entries[j].icb = pending'[i].icb
        <4>1. CASE i \in 1..Len(pending) /\ pending'[i] = pending[i]
          BY <2>1, <3>1, <4>1 DEF Untouched, Grows
        <4>2. CASE pending'[i] = l
          <5>1. /\ Len(catalog.entries) + 1 \in 1..Len(catalog'.entries)
                /\ catalog'.entries[Len(catalog.entries) + 1] = Listed
            <6>1. Len(catalog.entries) \in Nat
              BY CatalogFields DEF Typed, TypeOK
            <6> QED BY <2>3, <6>1, ListStep
          <5> QED BY <4>2, <5>1
        <4>3. (i \in 1..Len(pending) /\ pending'[i] = pending[i]) \/ pending'[i] = l
          <5>1. pending' = Append(pending, l) \/ pending' = pending
            BY <2>3, ListStep
          <5>2. pending \in Seq(Location)
            BY DEF Typed, TypeOK
          <5> HIDE DEF l
          <5> QED BY <5>1, <5>2
        <4> QED BY <4>1, <4>2, <4>3
      <3> QED BY <2>1, <3>2 DEF Untouched
    <2> QED BY <2>2, <2>3
  <1>4. CASE Returned \/ UNCHANGED vars
    <2>1. UNCHANGED <<catalog, pending, visited, phase>>
      BY <1>4 DEF Returned, vars, walk
    <2> QED BY <2>1 DEF Untouched, Underway
  <1> QED BY <1>1, <1>2, <1>3, <1>4, NextSplit

LEMMA EndedStep ==
    ASSUME Typed, Budgets, Ended, [Next]_vars
    PROVE  Ended'
  <1>c. config' = config /\ catalog \in Catalog
    BY InputFixed DEF Typed, TypeOK
  <1> DEFINE Reason ==
         \/ Len(catalog.entries) >= config.max_entries
         \/ DirectoryLimit
         \/ \E i \in 1..Len(catalog.entries) :
               catalog.entries[i].directory /\ catalog.entries[i].depth > config.max_depth
  <1>1. CASE Scanning
    <2>1. catalog = EmptyCatalog /\ phase # "returned"
      BY <1>1, ScanFrame DEF Typed, Chosen
    <2>2. ~catalog'.limit_reached
      BY <1>1, <2>1, ScanFrame DEF EmptyCatalog
    <2>3. result' = "none" \/ (result' = "error" /\ phase' = "returned")
      BY <1>1, <2>1, ScanFrame DEF Ended
    <2> QED BY <2>2, <2>3 DEF Ended, Whole
  <1>2. CASE Visiting
    <2>1. /\ phase = "walk" /\ result = "none" /\ catalog'.entries = catalog.entries
          /\ ~catalog.limit_reached /\ catalog.volume # 0 /\ catalog'.volume = catalog.volume
      BY <1>2, VisitFrame DEF Ended, Budgets
    <2>2. phase' # "returned" => result' = "none"
      BY <1>2, <2>1 DEF Visiting, FinishWalk, CancelWalk, SkipVisited, StopAtLimit,
             DirectoryFails, SkipDirectory, ReadDirectory, Fail, Return
    <2>3. result' = "ok" /\ Whole' => pending' = <<>>
      BY <1>c, <1>2, <2>1 DEF Visiting, FinishWalk, CancelWalk, SkipVisited, StopAtLimit,
             DirectoryFails, SkipDirectory, ReadDirectory, Fail, Return, walk, Whole, Catalog
    <2>4. catalog'.limit_reached => Reason'
      <3>1. CASE StopAtLimit
        <4>1. catalog'.directories_read = catalog.directories_read /\ DirectoryLimit
          BY <1>c, <3>1 DEF StopAtLimit, Return, Catalog
        <4> QED BY <1>c, <4>1 DEF DirectoryLimit
      <3>2. CASE ~StopAtLimit
        BY <1>c, <1>2, <2>1, <3>2, VisitReport
           DEF Visiting, FinishWalk, CancelWalk, DirectoryFails, Fail, Return, Catalog
      <3> QED BY <3>1, <3>2
    <2> QED BY <2>1, <2>2, <2>3, <2>4 DEF Ended
  <1>3. CASE Listing
    <2>1. /\ phase \in {"records", "progress"} /\ result = "none"
          /\ UNCHANGED <<catalog.directories_read>>
      BY <1>3, ListFrame DEF Ended
    <2>2. phase' # "returned" => result' = "none"
      BY <1>3, <2>1 DEF Listing, BrokenRecord, SkipRecord, RejectRecord, RefuseName, ListRecord,
             EndOfDirectory, ReportProgress, Fail, Return
    <2>3. result' = "ok" => catalog'.limit_reached
      BY <1>3, <2>1 DEF Listing, BrokenRecord, SkipRecord, RejectRecord, RefuseName, ListRecord,
             EndOfDirectory, ReportProgress, Fail, Return
    <2>4. catalog'.limit_reached => Reason'
      <3>1. CASE catalog.limit_reached
        <4>1. Reason /\ Grows
          BY <1>3, <3>1, ListReport DEF Ended
        <4>2. Len(catalog.entries) \in Nat /\ Len(catalog'.entries) \in Nat
              /\ config.max_entries \in Nat
          <5>1. catalog' \in Catalog
            BY <1>3, ListType DEF Typed, TypeOK
          <5> QED BY <1>c, <5>1, CatalogFields, InputType DEF Typed, Config
        <4>3. Len(catalog'.entries) >= Len(catalog.entries)
          <5>1. Len(catalog.entries) # 0 => Len(catalog.entries) \in 1..Len(catalog'.entries)
            BY <4>1, <4>2 DEF Grows
          <5> QED BY <4>2, <5>1
        <4>4. CASE Len(catalog.entries) >= config.max_entries
          BY <1>c, <4>2, <4>3, <4>4
        <4>5. CASE DirectoryLimit
          BY <1>c, <2>1, <4>5 DEF DirectoryLimit
        <4>6. CASE \E i \in 1..Len(catalog.entries) :
                      /\ catalog.entries[i].directory
                      /\ catalog.entries[i].depth > config.max_depth
          BY <1>c, <4>1, <4>6 DEF Grows
        <4> QED BY <4>1, <4>4, <4>5, <4>6
      <3>2. CASE ~catalog.limit_reached /\ catalog'.limit_reached
        <4>1. ListRecord
          BY <1>c, <1>3, <3>2 DEF Listing, BrokenRecord, SkipRecord, RejectRecord, RefuseName,
                 EndOfDirectory, ReportProgress, Report, Fail, Return, Catalog
        <4>2. Len(catalog.entries) \in Nat
          BY CatalogFields DEF Typed, TypeOK
        <4>3. Len(catalog.entries) + 1 \in 1..Len(catalog'.entries)
              /\ catalog'.entries[Len(catalog.entries) + 1] = Listed
              /\ Len(catalog'.entries) = Len(catalog.entries) + 1
          BY <4>1, <4>2, ListStep
        <4>4. \/ Len(catalog.entries) + 1 >= config.max_entries
              \/ Listed.directory /\ Listed.depth > config.max_depth
          BY <3>2, <4>1, ListStep
        <4> QED BY <1>c, <4>3, <4>4
      <3> QED BY <3>1, <3>2
    <2> QED BY <2>2, <2>3, <2>4 DEF Ended, Whole
  <1>4. CASE Returned \/ UNCHANGED vars
    <2>1. UNCHANGED <<catalog, pending, result, phase>>
      BY <1>4 DEF Returned, vars, walk
    <2> QED BY <1>c, <2>1 DEF Ended, Whole, DirectoryLimit
  <1> QED BY <1>1, <1>2, <1>3, <1>4, NextSplit

\* The directories known are the same while nothing is listed.
LEMMA DirectoriesSame ==
    ASSUME UNCHANGED <<input, logical>>, catalog'.entries = catalog.entries
    PROVE  Directories' = Directories
  <1>1. RootLocation' = RootLocation
    BY TreeFixed
  <1> HIDE DEF RootLocation
  <1> QED BY <1>1 DEF Directories, Top

LEMMA VisitAccounted ==
    ASSUME Typed, Untouched, Accounted, Ended, Visiting, Whole'
    PROVE  \A q \in Directories' : (Waiting(q) \/ Scanned(q) \/ Settled(q))'
  <1>1. /\ phase = "walk" /\ catalog.volume # 0 /\ UNCHANGED <<input, logical>>
        /\ catalog'.entries = catalog.entries /\ Grows
    BY VisitFrame, VisitReport DEF scan
  <1>2. Directories' = Directories
    BY <1>1, DirectoriesSame
  <1>3. Whole
    BY <1>1, VisitReport DEF Whole, Ended
  <1> SUFFICES ASSUME NEW q \in Directories
               PROVE  Waiting(q)' \/ Scanned(q)' \/ Settled(q)'
    BY <1>2
  <1>4. Waiting(q) \/ Settled(q)
    BY <1>1, <1>3 DEF Accounted, Scanned
  <1>5. CASE Settled(q)
    BY <1>1, <1>5, StaysFound
  <1>6. CASE Waiting(q)
    <2>1. PICK i \in 1..Len(pending) : pending[i].path = q.path /\ pending[i].icb = q.icb
      BY <1>6 DEF Waiting
    <2>2. CASE FinishWalk
      BY <2>1, <2>2 DEF FinishWalk
    <2>3. CASE ~FinishWalk
      <3>1. /\ Head(pending) = pending[1] /\ Len(pending) \in Nat
            /\ Len(pending') = Len(pending) - 1
            /\ \A j \in 1..Len(pending') :
                  j + 1 \in 1..Len(pending) /\ pending'[j] = pending[j + 1]
        BY <2>3, PoppedQueue
      <3>2. CASE i # 1
        <4>1. i - 1 \in 1..Len(pending') /\ (i - 1) + 1 = i
          BY <3>1, <3>2
        <4>2. pending'[i - 1] = pending[i]
          BY <3>1, <4>1
        <4> QED BY <2>1, <4>1, <4>2 DEF Waiting
      <3>3. CASE i = 1
        <4>1. Head(pending).path = q.path /\ Head(pending).icb = q.icb
          BY <2>1, <3>1, <3>3
        <4>2. CASE CancelWalk \/ StopAtLimit \/ DirectoryFails
          BY <4>2 DEF CancelWalk, StopAtLimit, DirectoryFails, Fail, Return, Whole, Typed,
                      TypeOK, Catalog
        <4>3. CASE ReadDirectory
          <5>1. directory' = Head(pending) /\ cursor' = 1 /\ phase' = "records"
            BY <4>3 DEF ReadDirectory
          <5>2. 1..cursor' - 1 = {}
            BY <5>1
          <5> QED BY <4>1, <5>1, <5>2 DEF Scanned
        <4>4. CASE SkipVisited \/ SkipDirectory
          <5>1. /\ Len(catalog'.issues) \in 1..Len(catalog'.issues)
                /\ catalog'.issues[Len(catalog'.issues)] =
                      IF SkipVisited THEN [what |-> "traversed", icb |-> q.icb]
                      ELSE [what |-> "oversize", path |-> q.path]
            BY <4>1, <4>4, VisitReport
          <5>2. PICK issue : issue = catalog'.issues[Len(catalog'.issues)]
            OBVIOUS
          <5>3. CASE SkipVisited
            <6>1. visited # {}
              BY <5>3 DEF SkipVisited, Fresh
            <6>2. PICK j \in 1..Len(catalog.entries) :
                     catalog.entries[j].path = q.path /\ catalog.entries[j].icb = q.icb
              BY <2>1, <6>1 DEF Untouched
            <6>3. issue.what = "traversed" /\ issue.icb = q.icb
              BY <5>1, <5>2, <5>3
            <6>4. Accounts(issue, q.path)'
              BY <1>1, <6>2, <6>3 DEF Accounts
            <6> QED BY <5>1, <5>2, <6>4 DEF Settled, Excused, Accounts
          <5>4. CASE ~SkipVisited
            <6>1. issue.what = "oversize" /\ issue.path = q.path
              BY <5>1, <5>2, <5>4
            <6>2. Accounts(issue, q.path)'
              BY <6>1 DEF Accounts
            <6> QED BY <5>1, <5>2, <6>2 DEF Settled, Excused, Accounts
          <5> QED BY <5>3, <5>4
        <4> QED BY <2>3, <4>2, <4>3, <4>4 DEF Visiting
      <3> QED BY <3>2, <3>3
    <2> QED BY <2>2, <2>3
  <1> QED BY <1>4, <1>5, <1>6

\* After the record at the cursor, what it names is found or it names nothing.
LEMMA RecordAccounted ==
    ASSUME Typed, InTree, NEW q, q.path = directory.path, q.icb = directory.icb,
           SkipRecord \/ RejectRecord \/ ListRecord,
           NEW i, i = cursor, NamesChild(image.entries, Maps, q, i)
    PROVE  Found(ChildAt(image.entries, q, i))'
  <1>1. image' = image /\ AtRecord
    BY ListFrame, TreeFixed DEF Listing, SkipRecord, RejectRecord, RefuseName, ListRecord, scan
  <1>2. Identifier = image.entries[q.icb].records[i]
    BY DEF Identifier, Records
  <1>3. Identifier.form = "ok" /\ Identifier.icb[1] < Maps
    BY <1>2 DEF NamesChild, Known
  <1>4. ChildAt(image.entries, q, i).path = Append(directory.path, Identifier.name)
    BY <1>2 DEF ChildAt
  <1>5. PICK c : c = ChildAt(image.entries, q, i)
    OBVIOUS
  <1>6. CASE SkipRecord
    BY <1>3, <1>6 DEF SkipRecord
  <1>7. CASE RejectRecord
    <2> DEFINE issue == [what |-> "entry", path |-> Append(directory.path, Identifier.name)]
    <2>1. catalog' = Report(catalog, issue)
      <3>1. Identifier.icb[1] \in Nat /\ Maps \in Nat
        <4>1. Identifier.icb \in Icb
          BY <1>1, RecordType DEF Typed
        <4>2. logical \in 1..Len(image.descriptors) /\ image.descriptors \in Seq(Descriptor)
          BY <1>7, ListFrame, InputType DEF Listing, Typed, TypeOK
        <4>3. image.descriptors[logical] \in Descriptor
          BY <4>2
        <4> QED BY <4>1, <4>3 DEF Icb, Maps, Descriptor
      <3> QED BY <1>3, <1>7, <3>1 DEF RejectRecord, RefuseName
    <2>2. issue \in Issue
      BY <1>1, RecordType DEF Issue, Typed
    <2>3. PICK x \in Issue : x = issue
      BY <2>2
    <2>4. /\ Len(catalog'.issues) \in 1..Len(catalog'.issues)
          /\ catalog'.issues[Len(catalog'.issues)] = x
      BY <2>1, <2>3, IssueGrows DEF Typed, TypeOK
    <2>5. Accounts(x, c.path)'
      BY <1>4, <1>5, <2>3 DEF Accounts
    <2>6. Found(c)'
      BY <2>4, <2>5 DEF Found, Excused, Accounts
    <2> QED BY <1>1, <1>5, <2>6 DEF Found, ChildAt
  <1>8. CASE ListRecord
    <2>1. Listed = ChildAt(image.entries, AsEntry(directory), cursor)
      BY <1>8, ListedChild
    <2>2. c = Listed
      BY <1>5, <2>1 DEF ChildAt, AsEntry
    <2>3. Len(catalog.entries) \in Nat
      BY CatalogFields DEF Typed, TypeOK
    <2>4. Len(catalog.entries) + 1 \in 1..Len(catalog'.entries)
          /\ catalog'.entries[Len(catalog.entries) + 1] = c
      BY <1>8, <2>2, <2>3, ListStep
    <2>5. Found(c)'
      BY <2>4 DEF Found
    <2> QED BY <1>1, <1>5, <2>5 DEF Found, ChildAt
  <1> QED BY <1>6, <1>7, <1>8

LEMMA ListAccounted ==
    ASSUME Typed, InTree, Accounted, Ended, Listing, Whole'
    PROVE  \A q \in Directories' : (Waiting(q) \/ Scanned(q) \/ Settled(q))'
  <1>1. /\ phase \in {"records", "progress"} /\ catalog.volume # 0
        /\ UNCHANGED <<input, logical, directory>> /\ Grows
        /\ Readable(directory.icb)
    BY ListFrame, ListReport DEF scan, Typed, TypeOK
  <1>2. Whole
    BY <1>1, ListReport DEF Whole, Ended
  <1>3. image' = image /\ Maps' = Maps /\ RootLocation' = RootLocation
    BY <1>1, TreeFixed
  <1>4. pending \in Seq(Location) /\ pending' \in Seq(Location)
        /\ cursor \in Nat /\ Len(catalog.entries) \in Nat
    BY ListType, CatalogFields DEF Typed, TypeOK
  <1>5. \A i \in 1..Len(pending) : i \in 1..Len(pending') /\ pending'[i] = pending[i]
    <2>1. CASE pending' = pending
      BY <2>1
    <2>2. CASE pending' # pending
      <3> DEFINE l == [path |-> Listed.path, icb |-> Listed.icb, depth |-> Listed.depth]
      <3>1. pending' = Append(pending, l)
        BY <2>2, ListFrame, ListStep
      <3> HIDE DEF l
      <3> QED BY <1>4, <3>1
    <2> QED BY <2>1, <2>2
  <1>6. ASSUME NEW q \in Directories
        PROVE  Waiting(q)' \/ Scanned(q)' \/ Settled(q)'
    <2>1. CASE Waiting(q)
      BY <1>5, <2>1 DEF Waiting
    <2>2. CASE Settled(q)
      BY <1>1, <2>2, StaysFound
    <2>3. CASE Scanned(q)
      <3>1. /\ phase = "records" /\ directory.path = q.path /\ directory.icb = q.icb
            /\ \A i \in 1..cursor - 1 :
                  NamesChild(image.entries, Maps, q, i) =>
                      Found(ChildAt(image.entries, q, i))
        BY <2>3 DEF Scanned
      <3>2. ASSUME NEW e, Found(e) PROVE Found(e)'
        BY <1>1, <3>2, StaysFound
      <3>3. \A i \in 1..cursor - 1 :
               NamesChild(image.entries, Maps, q, i) => Found(ChildAt(image.entries, q, i))'
        <4>1. ASSUME NEW i \in 1..cursor - 1, NamesChild(image.entries, Maps, q, i)
              PROVE  Found(ChildAt(image.entries, q, i))'
          <5>1. PICK c : c = ChildAt(image.entries, q, i)
            OBVIOUS
          <5>2. Found(c)'
            BY <3>1, <3>2, <4>1, <5>1
          <5> QED BY <1>3, <5>1, <5>2 DEF Found, ChildAt
        <4> QED BY <4>1
      <3>4. CASE BrokenRecord \/ ReportProgress
        BY <3>1, <3>4 DEF BrokenRecord, ReportProgress, Fail, Whole
      <3>5. CASE EndOfDirectory
        <4>1. Records \in Seq(Record) /\ Records = image.entries[q.icb].records
          <5>1. image.entries[directory.icb] \in FileEntry
            BY <1>1, InputType DEF Readable, Known, Typed
          <5> QED BY <3>1, <5>1 DEF Records, FileEntry
        <4>2. \A i \in 1..Len(Records) : i \in 1..cursor - 1
          BY <1>4, <3>5, <4>1 DEF EndOfDirectory
        <4>3. ASSUME NEW c \in Children(image.entries, Maps, q) PROVE Found(c)'
          <5>1. PICK i \in 1..Len(Records) : /\ c = ChildAt(image.entries, q, i)
                                             /\ NamesChild(image.entries, Maps, q, i)
            BY <4>1, ChildrenForm
          <5>2. Found(c)
            BY <3>1, <4>2, <5>1
          <5> QED BY <3>2, <5>2
        <4> QED BY <1>3, <4>3 DEF Settled, Found
      <3>6. CASE SkipRecord \/ RejectRecord \/ ListRecord
        <4>1. cursor' = cursor + 1
          BY <3>6 DEF SkipRecord, RejectRecord, RefuseName, ListRecord, AfterRecord
        <4>2. phase' = "records"
          <5>1. CASE ListRecord
            BY <5>1, ListStep DEF Whole
          <5>2. CASE SkipRecord \/ RejectRecord
            BY <3>1, <5>2 DEF SkipRecord, RejectRecord, RefuseName
          <5> QED BY <3>6, <5>1, <5>2
        <4>3. ASSUME NEW i, i = cursor, NamesChild(image.entries, Maps, q, i)
              PROVE  Found(ChildAt(image.entries, q, i))'
          BY <3>1, <3>6, <4>3, RecordAccounted
        <4>4. \A i \in 1..cursor' - 1 : i \in 1..cursor - 1 \/ i = cursor
          BY <1>4, <4>1
        <4>5. ASSUME NEW i \in 1..cursor' - 1, NamesChild(image.entries, Maps, q, i)'
              PROVE  Found(ChildAt(image.entries, q, i))'
          <5>1. NamesChild(image.entries, Maps, q, i)
            BY <1>3, <4>5 DEF NamesChild, Known
          <5> QED BY <3>3, <4>3, <4>4, <5>1
        <4> QED BY <1>1, <3>1, <4>2, <4>5 DEF Scanned
      <3> QED BY <3>4, <3>5, <3>6 DEF Listing
    <2> QED BY <1>1, <1>2, <2>1, <2>2, <2>3 DEF Accounted
  <1>7. CASE ~ListRecord
    <2>1. Directories' = Directories
      BY <1>1, <1>7, ListFrame, DirectoriesSame
    <2> QED BY <1>6, <2>1
  <1>8. CASE ListRecord
    <2> DEFINE l == [path |-> Listed.path, icb |-> Listed.icb, depth |-> Listed.depth]
    <2>1. ASSUME NEW q \in Directories'
          PROVE  q \in Directories \/ (q = Listed /\ Listed.directory)
      <3>1. CASE q = Top(RootLocation.icb)
        BY <3>1 DEF Directories
      <3>2. CASE q # Top(RootLocation.icb)
        <4>1. PICK i \in 1..Len(catalog'.entries) :
                 q = catalog'.entries[i] /\ catalog'.entries[i].directory
          BY <1>3, <2>1, <3>2 DEF Directories, Top
        <4>2. i \in 1..Len(catalog.entries) \/ i = Len(catalog.entries) + 1
          BY <1>4, <1>8, ListStep
        <4> QED BY <1>8, <4>1, <4>2, ListStep DEF Directories
      <3> QED BY <3>1, <3>2
    <2>2. ASSUME NEW q, q = Listed, Listed.directory PROVE Waiting(q)'
      <3>1. pending' = Append(pending, l)
        BY <1>8, <2>2, ListStep DEF Whole
      <3>2. l.path = q.path /\ l.icb = q.icb
        BY <2>2
      <3> HIDE DEF l
      <3>3. Len(pending) + 1 \in 1..Len(pending') /\ pending'[Len(pending) + 1] = l
        BY <1>4, <3>1
      <3> QED BY <3>2, <3>3 DEF Waiting
    <2> QED BY <1>6, <2>1, <2>2
  <1> QED BY <1>7, <1>8

LEMMA AccountedStep ==
    ASSUME Typed, InTree, Untouched, Accounted, Ended, [Next]_vars
    PROVE  Accounted'
  <1>1. CASE Scanning
    <2>1. CASE UNCHANGED catalog
      <3>1. catalog.volume = 0
        BY <1>1, ScanFrame DEF Typed, Chosen
      <3> QED BY <2>1, <3>1 DEF Accounted
    <2>2. CASE /\ UNCHANGED logical
               /\ catalog' = [EmptyCatalog EXCEPT !.volume = logical]
               /\ pending' = <<RootLocation>>
      <3>1. RootLocation' = RootLocation
        BY <1>1, <2>2, ScanFrame, TreeFixed
      <3>2. 1..Len(catalog'.entries) = {}
        <4>1. Len(catalog'.entries) = 0
          BY <2>2 DEF EmptyCatalog
        <4> QED BY <4>1
      <3>3. Directories' = {Top(RootLocation.icb)}
        BY <3>1, <3>2 DEF Directories, Top
      <3>4. PICK q : q = Top(RootLocation.icb)
        OBVIOUS
      <3>5. q.path = RootLocation.path /\ q.icb = RootLocation.icb
        BY <3>4 DEF Top, RootLocation
      <3> HIDE DEF RootLocation
      <3>6. 1 \in 1..Len(pending') /\ pending'[1] = RootLocation
        BY <2>2
      <3>7. Waiting(q)'
        BY <3>5, <3>6 DEF Waiting
      <3> QED BY <3>3, <3>4, <3>7 DEF Accounted
    <2> QED BY <1>1, <2>1, <2>2, ScanFrame
  <1>2. CASE Visiting
    BY <1>2, VisitAccounted DEF Accounted
  <1>3. CASE Listing
    BY <1>3, ListAccounted DEF Accounted
  <1>4. CASE Returned \/ UNCHANGED vars
    <2>1. UNCHANGED vars
      BY <1>4 DEF Returned
    <2>2. UNCHANGED <<catalog, pending, phase, directory, cursor, result>>
          /\ UNCHANGED <<input, logical>> /\ image' = image /\ Maps' = Maps
      BY <2>1, TreeFixed DEF vars, walk, scan
    <2>3. Directories' = Directories
      BY <2>2, DirectoriesSame
    <2>4. ASSUME NEW q \in Directories, Waiting(q) \/ Scanned(q) \/ Settled(q)
          PROVE  Waiting(q)' \/ Scanned(q)' \/ Settled(q)'
      <3>1. Grows
        BY <2>2 DEF Grows
      <3>2. CASE Settled(q)
        BY <2>2, <3>1, <3>2, StaysFound
      <3>3. CASE Waiting(q)
        BY <2>2, <3>3 DEF Waiting
      <3>4. CASE Scanned(q)
        <4>1. \A e : Found(e) <=> Found(e)'
          BY <2>2 DEF Found, Excused, Accounts
        <4>2. ASSUME NEW i \in 1..cursor - 1, NamesChild(image.entries, Maps, q, i)
              PROVE  Found(ChildAt(image.entries, q, i))'
          <5>1. PICK c : c = ChildAt(image.entries, q, i)
            OBVIOUS
          <5>2. Found(c)'
            BY <3>4, <4>1, <4>2, <5>1 DEF Scanned
          <5> QED BY <2>2, <5>1, <5>2 DEF Found, ChildAt
        <4>3. \A i : NamesChild(image.entries, Maps, q, i)'
                        => NamesChild(image.entries, Maps, q, i)
          BY <2>2 DEF NamesChild, Known
        <4> QED BY <2>2, <3>4, <4>2, <4>3 DEF Scanned
      <3> QED BY <2>4, <3>2, <3>3, <3>4
    <2> QED BY <2>2, <2>3, <2>4 DEF Accounted, Whole
  <1> QED BY <1>1, <1>2, <1>3, <1>4, NextSplit

LEMMA ListingAlways == Spec => [](Typed /\ Budgets /\ ListingInv)
  <1>1. Init => ListingInv
    <2> SUFFICES ASSUME Init PROVE ListingInv
      OBVIOUS
    <2>1. /\ catalog.volume = 0 /\ Len(catalog.entries) = 0 /\ Len(pending) = 0
          /\ catalog.limit_reached = FALSE
      BY DEF Init, EmptyCatalog
    <2>2. phase = "config" /\ result = "none" /\ visited = {}
      BY DEF Init
    <2> QED BY <2>1, <2>2 DEF ListingInv, InTree, Ordered, Ascending, Accounted, Untouched,
                              Ended, Whole, Underway, Walking
  <1>2. Typed /\ Budgets /\ ListingInv /\ [Next]_vars => ListingInv'
    BY InTreeStep, OrderedStep, AccountedStep, UntouchedStep, EndedStep DEF ListingInv
  <1> QED BY <1>1, <1>2, BudgetsAlways, PTL DEF Spec

\* Whatever the directories link to, a listed entry is in the tree below the root,
\* under its path and at its depth, and entries are listed level by level.
THEOREM ListedIsInTheTree == Spec => []ListingIsSound
  <1>1. Typed /\ ListingInv => ListingIsSound
    <2> SUFFICES ASSUME Typed, ListingInv, NEW i \in 1..Len(catalog.entries)
                 PROVE  /\ catalog.entries[i] \in ReferenceListing
                        /\ \A j \in 1..i : catalog.entries[j].depth <= catalog.entries[i].depth
      BY DEF ListingIsSound
    <2>1. catalog.volume # 0
      BY DEF Typed, Chosen, EmptyCatalog
    <2>2. /\ catalog.entries[i].depth \in 1..config.max_depth + 1
          /\ catalog.entries[i] \in Tree[catalog.entries[i].depth]
      BY <2>1 DEF ListingInv, InTree
    <2>3. catalog.entries[i] \in ReferenceListing
      <3> HIDE DEF Tree
      <3> QED BY <2>2 DEF ReferenceListing
    <2> QED BY <2>3 DEF ListingInv, Ordered, Ascending
  <1> QED BY <1>1, ListingAlways, PTL

\* A part of the tree that is missing is accounted for at or above its path.
Covered(e) ==
    \/ \E i \in 1..Len(catalog.entries) : catalog.entries[i] = e
    \/ \E i \in 1..Len(catalog.issues), n \in 0..Len(e.path) :
          Accounts(catalog.issues[i], SubSeq(e.path, 1, n))

\* Once the queue is empty every directory known is settled, so by induction on the
\* depth everything in the tree is covered.
LEMMA AllCovered ==
    ASSUME Typed, Budgets, ListingInv, result = "ok", Whole
    PROVE  \A d \in 1..config.max_depth + 1 : \A e \in Tree[d] : Covered(e)
  <1>1. /\ catalog.volume # 0 /\ logical # 0 /\ pending = <<>> /\ phase = "returned"
        /\ config.max_depth \in Nat
    BY TreeUnfold DEF ListingInv, Ended, Typed, Chosen
  <1>2. \A q \in Directories : Settled(q)
    <2>1. \A q : ~Waiting(q) /\ ~Scanned(q)
      BY <1>1 DEF Waiting, Scanned
    <2> QED BY <1>1, <2>1 DEF ListingInv, Accounted
  <1> DEFINE T == {d \in 1..config.max_depth + 1 : ~\A e \in Tree[d] : Covered(e)}
  <1> SUFFICES ASSUME T # {} PROVE FALSE
    OBVIOUS
  <1>3. PICK d \in T : \A m \in T : d <= m
    <2>1. T \in SUBSET Nat
      <3> HIDE DEF Tree
      <3> QED BY <1>1
    <2> HIDE DEF T
    <2> QED BY <2>1, LeastElement
  <1>4. d \in 1..config.max_depth + 1 /\ d - 1 \in 0..config.max_depth
    <2>1. d \in 1..config.max_depth + 1
      <3> HIDE DEF Tree
      <3> QED OBVIOUS
    <2> HIDE DEF T, Tree
    <2> QED BY <1>1, <2>1
  <1>5. PICK c \in Tree[d] : ~Covered(c)
    <2> HIDE DEF Tree, Covered
    <2> QED OBVIOUS
  <1>6. PICK e \in Tree[d - 1] : e.directory /\ c \in Children(image.entries, Maps, e)
    <2>1. Tree[d] = Below(image.entries, Maps, Tree[d - 1])
      BY <1>4, TreeUnfold
    <2> HIDE DEF Tree, T
    <2> QED BY <1>5, <2>1 DEF Below
  <1>7. e \in Entry /\ Len(e.path) = d - 1 /\ c \in Entry
        /\ \E x \in Name : c.path = Append(e.path, x)
    <2>1. d - 1 \in 0..config.max_depth + 1
      BY <1>1, <1>4
    <2>2. e \in Entry /\ Len(e.path) = d - 1
      BY <1>1, <1>6, <2>1, TreeType
    <2> QED BY <1>6, <2>2, ChildType DEF Entry
  <1>8. PICK x \in Name : c.path = Append(e.path, x)
    BY <1>7
  <1>9. /\ e.path \in Seq(Name) /\ c.path \in Seq(Name) /\ Len(c.path) = Len(e.path) + 1
        /\ SubSeq(c.path, 1, Len(c.path)) = c.path
        /\ \A n \in 0..Len(e.path) : n \in 0..Len(c.path)
                                     /\ SubSeq(c.path, 1, n) = SubSeq(e.path, 1, n)
    <2>1. e.path \in Seq(Name) /\ c.path \in Seq(Name)
      BY <1>7 DEF Entry
    <2>2. Len(c.path) = Len(e.path) + 1 /\ \A i \in 1..Len(e.path) : c.path[i] = e.path[i]
      BY <1>8, <2>1
    <2>3. SubSeq(c.path, 1, Len(c.path)) = c.path
      BY <2>1
    <2>4. ASSUME NEW n \in 0..Len(e.path)
          PROVE  n \in 0..Len(c.path) /\ SubSeq(c.path, 1, n) = SubSeq(e.path, 1, n)
      <3>1. n \in 0..Len(c.path) /\ n \in Nat /\ Len(e.path) \in Nat
        BY <2>1, <2>2
      <3>2. \A i \in 1..n : c.path[i] = e.path[i]
        BY <2>2, <3>1
      <3> QED BY <2>1, <3>1, <3>2
    <2> QED BY <2>1, <2>2, <2>3, <2>4
  <1>10. ~Excused(c.path) /\ \A i \in 1..Len(catalog.entries) : catalog.entries[i] # c
    <2>1. Excused(c.path) => Covered(c)
      <3>1. Len(c.path) \in 0..Len(c.path)
        BY <1>9
      <3> QED BY <1>9, <3>1 DEF Excused, Covered
    <2> QED BY <1>5, <2>1 DEF Covered
  <1>11. ~Found(c)
    BY <1>10 DEF Found
  <1>12. e \in Directories /\ Len(e.path) \in 0..Len(e.path)
         /\ SubSeq(e.path, 1, Len(e.path)) = e.path
    <2>1. CASE d = 1
      <3>1. e = Top(RootLocation.icb)
        <4>1. Tree[0] = {Top(RootLocation.icb)} /\ d - 1 = 0
          BY <2>1, TreeUnfold
        <4> HIDE DEF Tree, RootLocation
        <4> QED BY <1>6, <4>1
      <3> QED BY <1>9, <3>1 DEF Directories
    <2>2. CASE d # 1
      <3>1. d - 1 \in 1..config.max_depth + 1 /\ ~(d <= d - 1)
        BY <1>1, <1>4, <2>2
      <3>2. Covered(e)
        <4>1. d - 1 \notin T
          <5> HIDE DEF T
          <5> QED BY <1>3, <3>1
        <4> HIDE DEF Tree, Covered
        <4> QED BY <1>6, <3>1, <4>1
      <3>3. ASSUME NEW i \in 1..Len(catalog.issues), NEW n \in 0..Len(e.path),
                   Accounts(catalog.issues[i], SubSeq(e.path, 1, n))
            PROVE  FALSE
        <4>1. n \in 0..Len(c.path) /\ SubSeq(c.path, 1, n) = SubSeq(e.path, 1, n)
          BY <1>9
        <4>2. Covered(c)
          BY <3>3, <4>1 DEF Covered
        <4> QED BY <1>5, <4>2
      <3> QED BY <1>6, <1>9, <3>2, <3>3 DEF Covered, Directories
    <2> QED BY <2>1, <2>2
  <1>13. Excused(e.path)
    BY <1>2, <1>6, <1>11, <1>12 DEF Settled
  <1>14. Covered(c)
    <2>1. /\ Len(e.path) \in 0..Len(c.path)
          /\ SubSeq(c.path, 1, Len(e.path)) = e.path
      BY <1>9, <1>12
    <2> QED BY <1>13, <2>1 DEF Excused, Covered
  <1> QED BY <1>5, <1>14

\* A catalog that is neither cancelled nor cut at a limit lacks nothing of the tree
\* without an issue that says where; one that is cut at a limit had a reason.
THEOREM OmissionsAreReported == Spec => []OmissionsReported
  <1>1. Typed /\ Budgets /\ ListingInv => OmissionsReported
    <2> SUFFICES ASSUME Typed, Budgets, ListingInv, result = "ok", ~catalog.cancelled
                 PROVE  OmissionsReported
      BY DEF OmissionsReported
    <2>1. CASE catalog.limit_reached
      BY <2>1 DEF OmissionsReported, ListingInv, Ended
    <2>2. CASE ~catalog.limit_reached
      <3>1. ASSUME NEW e \in ReferenceListing PROVE Covered(e)
        <4>1. PICK d \in 1..config.max_depth + 1 : e \in Tree[d]
          <5> HIDE DEF Tree
          <5> QED BY DEF ReferenceListing
        <4> HIDE DEF Tree
        <4> QED BY <2>2, <4>1, AllCovered DEF Whole
      <3> QED BY <2>2, <3>1 DEF OmissionsReported, Covered
    <2> QED BY <2>1, <2>2
  <1> QED BY <1>1, ListingAlways, PTL
=============================================================================
