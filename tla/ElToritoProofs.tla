--------------------------- MODULE ElToritoProofs ---------------------------
(***************************************************************************)
(* Proofs about ElTorito, for every image and every configuration.         *)
(***************************************************************************)
EXTENDS ElTorito, FiniteSetTheorems, TLAPS

BootImage == [platform : Platform, bootable : BOOLEAN, load_bytes : Nat, image_offset : Nat]

TypeOK ==
    /\ input \in Inputs
    /\ phase \in {"config", "descriptors", "catalog", "header", "entry", "returned"}
    /\ index \in Nat
    /\ found \in Nat
    /\ cursor \in 1..Slots + 1
    /\ section \in [platform : Platform, left : Nat]
    /\ phase = "entry" => section.left # 0
    /\ final \in BOOLEAN
    /\ entries \in Seq(BootImage)
    /\ result \in {"none", "absent", "ok", "error"}

Parsing == phase \in {"header", "entry"} \/ result = "ok"

\* What the descriptors before index say of the boot record found.
Held ==
    /\ index <= Len(input.descriptors)
    /\ \A i \in 1..index :
          /\ input.descriptors[i].kind \in {"other", "boot"}
          /\ input.descriptors[i].kind = "boot" =>
                found # 0 /\ found = input.descriptors[i].lba
    /\ found # 0 => \E i \in 1..index : input.descriptors[i].kind = "boot"
    /\ \A i, j \in 1..index :
          input.descriptors[i].kind = "boot" /\ input.descriptors[j].kind = "boot" => i = j

\* The scan stops at the first terminator, within the limit.
Stopped ==
    phase \in {"catalog", "header", "entry"} \/ result \in {"ok", "absent"} =>
        /\ index + 1 \in 1..input.max_descriptors
        /\ index + 1 <= Len(input.descriptors)
        /\ input.descriptors[index + 1].kind = "terminator"
        /\ IF result = "absent" THEN found = 0 ELSE found # 0

Ended == phase # "returned" => result = "none"

\* The limit has room for the entries the section has left, and what boots stays
\* in the source.
Limited ==
    /\ phase \notin {"config", "returned"} => input.max_catalog_entries >= 1
    /\ Len(entries) + (IF phase = "entry" THEN section.left ELSE 0)
           <= input.max_catalog_entries
    /\ phase \in {"config", "descriptors", "catalog"} => entries = <<>>
    /\ \A k \in 1..Len(entries) : entries[k].bootable =>
          /\ entries[k].load_bytes # 0
          /\ entries[k].image_offset + entries[k].load_bytes <= input.total_bytes

Left == IF phase = "entry" THEN section.left ELSE 0

\* The slots parsed are cut by the headers of H, of which c is the current one: all
\* sections before its own are complete, and its own lacks what is left.
Cut(H, c) ==
    /\ c \in H \cup {0}
    /\ \A g \in H : g <= c
    /\ \A g \in H : input.slots[g].kind = "header" /\ input.slots[g].count # 0
    /\ \A h \in H \cup {0} :
          /\ h # c => EndOf(h) + 1 \in H /\ (h # 0 => ~input.slots[h].final)
          /\ \A g \in H : g > h => g > EndOf(h)
    /\ EndOf(c) = cursor - 1 + Left
    /\ \A i \in (1..cursor - 1) \ H : input.slots[i].kind \in {"zero", "entry"}

\* The section being parsed has the platform of its header and remembers whether
\* it is the final one.
Current(c) ==
    /\ phase = "entry" => section.platform = PlatformOf(c)
    /\ final = (c # 0 /\ input.slots[c].final)

Parsed ==
    Parsing =>
        \E H \in SUBSET (2..cursor - 1) : \E c \in H \cup {0} :
            Cut(H, c) /\ Current(c) /\ Lists(H, cursor - 1)

\* An accepted catalog has nothing but zeros behind what was parsed.
Closed == result = "ok" => OnlyZerosLeft

\* Before the catalog is parsed, the section is the default entry's.
Fresh ==
    phase \in {"config", "descriptors", "catalog"} =>
        /\ cursor = 1 /\ ~final
        /\ section = [platform |-> input.platform, left |-> 1]

Inv ==
    /\ TypeOK /\ Held /\ Stopped /\ Ended /\ Limited /\ Parsed /\ Closed /\ Fresh

-----------------------------------------------------------------------------
LEMMA InputType ==
    ASSUME NEW i \in Inputs
    PROVE  /\ i.total_bytes \in Nat /\ i.max_descriptors \in Nat
           /\ i.max_catalog_entries \in Nat
           /\ i.descriptors \in Seq(Descriptor)
           /\ i.validated \in BOOLEAN /\ i.platform \in Platform
           /\ i.slots \in [1..Slots -> Slot]
  BY InputsAssumption

LEMMA SlotType ==
    ASSUME NEW s \in Slot
    PROVE  /\ s.kind = "zero" => s = Zero
           /\ s.kind = "header" => /\ s.final \in BOOLEAN /\ s.platform \in Platform
                                   /\ s.count \in Nat
           /\ s.kind = "entry" => /\ s.bootable \in BOOLEAN /\ s.media \in BOOLEAN
                                  /\ s.sectors \in Nat /\ s.lba \in Nat
  <1>1. CASE s \in [kind : {"zero", "extension", "other"}]
    BY <1>1 DEF Zero
  <1>2. CASE s \in [kind : {"header"}, final : BOOLEAN, platform : Platform, count : Nat]
    BY <1>2
  <1>3. CASE s \in [kind : {"entry"}, bootable : BOOLEAN, media : BOOLEAN, sectors : Nat,
                    lba : Nat]
    BY <1>3
  <1> QED BY <1>1, <1>2, <1>3 DEF Slot

LEMMA EntryType ==
    ASSUME NEW s \in Slot, s.kind \in {"zero", "entry"}, NEW p \in Platform
    PROVE  /\ Entry(p, s) \in BootImage
           /\ Entry(p, s).bootable = Fields(s).bootable
           /\ Entry(p, s).load_bytes = Fields(s).sectors * LoadSectorBytes
           /\ Entry(p, s).image_offset = Fields(s).lba * BlockBytes
  <1> DEFINE f == Fields(s)
  <1>1. f.bootable \in BOOLEAN /\ f.sectors \in Nat /\ f.lba \in Nat
    BY SlotType DEF Fields, Zero
  <1> HIDE DEF f
  <1>2. f.sectors * LoadSectorBytes \in Nat /\ f.lba * BlockBytes \in Nat
    BY <1>1, ConstantsAssumption
  <1>3. Entry(p, s) = [platform |-> p, bootable |-> f.bootable,
                       load_bytes |-> f.sectors * LoadSectorBytes,
                       image_offset |-> f.lba * BlockBytes]
    BY DEF Entry, f
  <1> QED BY <1>1, <1>2, <1>3 DEF BootImage, f

LEMMA InitInv == Init => Inv
  <1> SUFFICES ASSUME Init PROVE Inv
    OBVIOUS
  <1> USE DEF Init
  <1>0. input.platform \in Platform /\ input.descriptors \in Seq(Descriptor)
        /\ input.max_catalog_entries \in Nat
    BY InputType
  <1>1. entries \in Seq(BootImage) /\ Len(entries) = 0
    OBVIOUS
  <1>a. cursor \in 1..Slots + 1
    BY ConstantsAssumption
  <1>b. section \in [platform : Platform, left : Nat]
    BY <1>0
  <1>2. TypeOK
    BY <1>0, <1>1, <1>a, <1>b DEF TypeOK
  <1>3. Held /\ Stopped /\ Ended
    BY <1>0 DEF Held, Stopped, Ended
  <1>4. Limited
    BY <1>0, <1>1 DEF Limited
  <1>5. Parsed /\ Closed /\ Fresh
    BY DEF Parsed, Parsing, Closed, Fresh
  <1> QED BY <1>2, <1>3, <1>4, <1>5 DEF Inv

-----------------------------------------------------------------------------
LEMMA TypeStep == ASSUME TypeOK, Fresh, [Next]_vars PROVE TypeOK'
  <1> USE DEF TypeOK
  <1>0. /\ input \in Inputs /\ input.descriptors \in Seq(Descriptor)
        /\ input.slots \in [1..Slots -> Slot]
    BY InputType
  <1>1. CASE Start
    BY <1>1 DEF Start, Return, scan, parse
  <1>2. CASE ReadFails
    BY <1>2 DEF ReadFails, Return, scan, parse
  <1>3. CASE ReadDescriptor
    <2>1. input' = input /\ UNCHANGED parse
      BY <1>3 DEF ReadDescriptor
    <2>2. CASE Read.kind = "boot" /\ Acceptable(Read.lba) /\ found' = Read.lba
               /\ index' = index + 1 /\ UNCHANGED <<phase, result>>
      <3>1. Read \in Descriptor
        BY <1>0, <2>2 DEF Read, Descriptor
      <3>2. Read.lba \in Nat
        BY <2>2, <3>1 DEF Descriptor
      <3> QED BY <2>1, <2>2, <3>2 DEF parse
    <2>3. CASE index' = index + 1 /\ UNCHANGED <<phase, found, result>>
      BY <2>1, <2>3 DEF parse
    <2>4. CASE UNCHANGED scan /\ (\/ Return("absent") \/ Return("error")
                                  \/ phase' = "catalog" /\ UNCHANGED result)
      BY <2>1, <2>4 DEF parse, scan, Return
    <2> QED BY <1>3, <2>2, <2>3, <2>4 DEF ReadDescriptor
  <1>4. CASE NoTerminator
    BY <1>4 DEF NoTerminator, Return, scan, parse
  <1>5. CASE ReadCatalog
    BY <1>5 DEF ReadCatalog, Return, scan, parse, Fresh
  <1>6. CASE EndOfCatalog
    BY <1>6 DEF EndOfCatalog, Return, scan, parse
  <1>7. CASE Header
    <2>1. UNCHANGED <<input, scan, entries>>
      BY <1>7 DEF Header
    <2>2. CASE Return("error") /\ UNCHANGED <<cursor, section, final>>
      BY <2>1, <2>2 DEF Return, scan
    <2>3. CASE /\ input.slots[cursor].kind = "header"
               /\ section' = [platform |-> input.slots[cursor].platform,
                              left |-> input.slots[cursor].count]
               /\ final' = input.slots[cursor].final
               /\ cursor' = cursor + 1
               /\ phase' = "entry"
               /\ UNCHANGED result
      <3>0. input.slots[cursor].count # 0
        BY <1>7, <2>3 DEF Header, Fits, Return
      <3>1. cursor \in 1..Slots
        BY <1>7, ConstantsAssumption DEF Header, OnlyZerosLeft
      <3>2. input.slots[cursor] \in Slot
        BY <1>0, <3>1
      <3>3. /\ input.slots[cursor].final \in BOOLEAN /\ input.slots[cursor].platform \in Platform
            /\ input.slots[cursor].count \in Nat
        BY <3>2, <2>3, SlotType
      <3>4. section' \in [platform : Platform, left : Nat]
        BY <3>3, <2>3
      <3> QED BY <2>1, <2>3, <3>0, <3>1, <3>3, <3>4, ConstantsAssumption DEF scan
    <2> QED BY <1>7, <2>2, <2>3 DEF Header
  <1>8. CASE BootEntry
    <2>1. UNCHANGED <<input, scan, final>>
      BY <1>8 DEF BootEntry
    <2>2. CASE Return("error") /\ UNCHANGED <<cursor, section, entries>>
      BY <2>1, <2>2 DEF Return, scan
    <2>3. CASE /\ cursor <= Slots /\ Parses(input.slots[cursor])
               /\ entries' = Append(entries, Entry(section.platform, input.slots[cursor]))
               /\ section' = [section EXCEPT !.left = @ - 1]
               /\ cursor' = cursor + 1
               /\ phase' = IF section.left = 1 THEN "header" ELSE phase
               /\ UNCHANGED result
      <3>0. cursor \in 1..Slots
        BY <2>3, ConstantsAssumption
      <3>1. input.slots[cursor] \in Slot
        BY <1>0, <3>0
      <3>2. Entry(section.platform, input.slots[cursor]) \in BootImage
        BY <3>1, <2>3, EntryType DEF Parses
      <3>3. section.left # 0
        BY <1>8 DEF BootEntry
      <3>4. section' \in [platform : Platform, left : Nat] /\ section'.left = section.left - 1
        <4>1. section' = [section EXCEPT !.left = section.left - 1]
          BY <2>3
        <4>2. section.left - 1 \in Nat
          BY <3>3
        <4> QED BY <4>1, <4>2
      <3>5. phase' = "entry" => section'.left # 0
        BY <2>3, <3>4
      <3>6. entries' \in Seq(BootImage)
        BY <2>3, <3>2
      <3> QED BY <1>8, <2>1, <2>3, <3>4, <3>5, <3>6, ConstantsAssumption DEF scan, BootEntry
    <2> QED BY <1>8, <2>2, <2>3 DEF BootEntry
  <1>9. CASE Returned \/ UNCHANGED vars
    BY <1>9 DEF Returned, vars, scan, parse
  <1> QED BY <1>1, <1>2, <1>3, <1>4, <1>5, <1>6, <1>7, <1>8, <1>9 DEF Next

-----------------------------------------------------------------------------
(* What a step leaves alone. *)

LEMMA InputFixed == ASSUME [Next]_vars PROVE input' = input
  BY DEF Next, vars, Start, ReadFails, ReadDescriptor, NoTerminator, ReadCatalog,
         EndOfCatalog, Header, BootEntry, Returned

Leaves == Start \/ ReadFails \/ NoTerminator \/ ReadCatalog \/ EndOfCatalog

LEMMA LeavesFrame == ASSUME Leaves PROVE UNCHANGED <<input, scan, parse>>
  BY DEF Leaves, Start, ReadFails, NoTerminator, ReadCatalog, EndOfCatalog

LEMMA NextSplit ==
    [Next]_vars <=>
        ReadDescriptor \/ Leaves \/ Header \/ BootEntry \/ Returned \/ UNCHANGED vars
  BY DEF Next, Leaves

\* A header that is accepted begins the section it describes.
HeaderAccepted ==
    /\ input.slots[cursor].kind = "header" /\ MayFollow /\ Fits(input.slots[cursor].count)
    /\ section' = [platform |-> input.slots[cursor].platform,
                   left |-> input.slots[cursor].count]
    /\ final' = input.slots[cursor].final
    /\ cursor' = cursor + 1
    /\ phase' = "entry"
    /\ UNCHANGED result

LEMMA HeaderCases ==
    ASSUME Header
    PROVE  /\ phase = "header" /\ ~OnlyZerosLeft
           /\ UNCHANGED <<input, scan, entries>>
           /\ HeaderAccepted \/ (Return("error") /\ UNCHANGED <<cursor, section, final>>)
  <1>1. phase = "header" /\ ~OnlyZerosLeft /\ UNCHANGED <<input, scan, entries>>
    BY DEF Header
  <1>2. HeaderAccepted \/ (Return("error") /\ UNCHANGED <<cursor, section, final>>)
    <2> DEFINE slot == input.slots[cursor]
               accepts == /\ Len(entries) < input.max_catalog_entries
                          /\ slot.kind = "header" /\ MayFollow /\ Fits(slot.count)
    <2>1. CASE accepts
      BY <2>1 DEF Header, HeaderAccepted
    <2>2. CASE ~accepts
      BY <2>2 DEF Header
    <2> QED BY <2>1, <2>2
  <1> QED BY <1>1, <1>2

EntryAccepted ==
    /\ cursor <= Slots /\ Parses(input.slots[cursor])
    /\ entries' = Append(entries, Entry(section.platform, input.slots[cursor]))
    /\ section' = [section EXCEPT !.left = @ - 1]
    /\ cursor' = cursor + 1
    /\ phase' = IF section.left = 1 THEN "header" ELSE phase
    /\ UNCHANGED result

LEMMA EntryCases ==
    ASSUME BootEntry
    PROVE  /\ phase = "entry"
           /\ UNCHANGED <<input, scan, final>>
           /\ EntryAccepted \/ (Return("error") /\ UNCHANGED <<cursor, section, entries>>)
  <1>1. phase = "entry" /\ UNCHANGED <<input, scan, final>>
    BY DEF BootEntry
  <1>2. EntryAccepted \/ (Return("error") /\ UNCHANGED <<cursor, section, entries>>)
    <2> DEFINE accepts == cursor <= Slots /\ Parses(input.slots[cursor])
    <2>1. CASE accepts
      BY <2>1, Zenon DEF BootEntry, EntryAccepted
    <2>2. CASE ~accepts
      BY <2>2, Zenon DEF BootEntry
    <2> QED BY <2>1, <2>2
  <1> QED BY <1>1, <1>2

LEMMA HeaderPlace ==
    ASSUME TypeOK, Header
    PROVE  cursor \in 1..Slots /\ input.slots[cursor] \in Slot
  <1>1. cursor \in 1..Slots
    BY HeaderCases, ConstantsAssumption DEF TypeOK, OnlyZerosLeft
  <1>2. input.slots \in [1..Slots -> Slot]
    BY InputType DEF TypeOK
  <1> QED BY <1>1, <1>2

LEMMA EntryPlace ==
    ASSUME TypeOK, EntryAccepted
    PROVE  /\ cursor \in 1..Slots /\ input.slots[cursor] \in Slot
           /\ input.slots[cursor].kind \in {"zero", "entry"}
  <1>1. cursor \in 1..Slots
    BY ConstantsAssumption DEF TypeOK, EntryAccepted
  <1>2. input.slots \in [1..Slots -> Slot]
    BY InputType DEF TypeOK
  <1>3. input.slots[cursor].kind \in {"zero", "entry"}
    BY DEF EntryAccepted, Parses
  <1> QED BY <1>1, <1>2, <1>3

LEMMA SectionLeft ==
    ASSUME TypeOK, phase = "entry", EntryAccepted
    PROVE  section'.left = section.left - 1 /\ section'.platform = section.platform
  <1>1. section \in [platform : Platform, left : Nat] /\ section.left - 1 \in Nat
    BY DEF TypeOK
  <1>2. section' = [section EXCEPT !.left = section.left - 1]
    BY DEF EntryAccepted
  <1> QED BY <1>1, <1>2

-----------------------------------------------------------------------------
LEMMA EndedStep == ASSUME Ended, [Next]_vars PROVE Ended'
  <1>1. CASE ReadDescriptor
    BY <1>1 DEF ReadDescriptor, Scanning, Return, Ended
  <1>2. CASE Leaves
    BY <1>2 DEF Leaves, Start, ReadFails, NoTerminator, ReadCatalog, EndOfCatalog, Return,
                Ended
  <1>3. CASE Header \/ BootEntry
    BY <1>3, HeaderCases, EntryCases DEF HeaderAccepted, EntryAccepted, Return, Ended
  <1>4. CASE Returned \/ UNCHANGED vars
    BY <1>4 DEF Returned, vars, Ended
  <1> QED BY <1>1, <1>2, <1>3, <1>4, NextSplit

LEMMA FreshStep == ASSUME Fresh, [Next]_vars PROVE Fresh'
  <1>1. CASE UNCHANGED <<input, parse>> /\ phase' \notin {"config", "descriptors", "catalog"}
    BY <1>1 DEF Fresh
  <1>2. CASE UNCHANGED <<input, parse>> /\ phase \in {"config", "descriptors", "catalog"}
    BY <1>2 DEF Fresh, parse
  <1>3. CASE UNCHANGED vars
    BY <1>3 DEF Fresh, vars, parse
  <1>4. CASE ReadDescriptor \/ Start \/ ReadFails \/ NoTerminator \/ ReadCatalog
    BY <1>2, <1>4 DEF ReadDescriptor, Scanning, Start, ReadFails, NoTerminator, ReadCatalog
  <1>5. CASE EndOfCatalog
    BY <1>1, <1>5 DEF EndOfCatalog, Return
  <1>6. CASE Header \/ BootEntry
    BY <1>6, HeaderCases, EntryCases DEF Fresh, HeaderAccepted, EntryAccepted, Return
  <1> QED BY <1>3, <1>4, <1>5, <1>6, NextSplit DEF Leaves, Returned

LEMMA ClosedStep == ASSUME Closed, Ended, [Next]_vars PROVE Closed'
  <1>1. CASE EndOfCatalog
    <2>1. OnlyZerosLeft /\ UNCHANGED <<input, cursor>>
      BY <1>1 DEF EndOfCatalog, parse
    <2> QED BY <2>1 DEF Closed, OnlyZerosLeft
  <1>2. CASE Start \/ ReadFails \/ ReadDescriptor \/ NoTerminator \/ ReadCatalog
    <2>1. phase # "returned"
      BY <1>2 DEF Start, ReadFails, ReadDescriptor, Scanning, NoTerminator, ReadCatalog
    <2>2. result' # "ok"
      BY <1>2, <2>1 DEF Start, ReadFails, ReadDescriptor, NoTerminator, ReadCatalog, Return, Ended
    <2> QED BY <2>2 DEF Closed
  <1>3. CASE Header \/ BootEntry
    BY <1>3, HeaderCases, EntryCases DEF HeaderAccepted, EntryAccepted, Return, Closed, Ended
  <1>4. CASE Returned \/ UNCHANGED vars
    BY <1>4 DEF Returned, vars, parse, Closed, OnlyZerosLeft
  <1> QED BY <1>1, <1>2, <1>3, <1>4, NextSplit DEF Leaves

LEMMA HeldStep == ASSUME TypeOK, Held, [Next]_vars PROVE Held'
  <1>1. CASE UNCHANGED <<input, scan>>
    BY <1>1 DEF Held, scan
  <1>2. CASE ReadDescriptor /\ ~UNCHANGED scan
    <2>1. /\ UNCHANGED input /\ index' = index + 1
          /\ \/ Read.kind = "boot" /\ found = 0 /\ found' = Read.lba /\ found' # 0
             \/ Read.kind = "other" /\ found' = found
      BY <1>2 DEF ReadDescriptor, Acceptable
    <2>2. index < Len(input.descriptors) /\ Read = input.descriptors[index + 1]
      BY <2>1 DEF Read
    <2>3. input.descriptors \in Seq(Descriptor) /\ index \in Nat
      BY InputType DEF TypeOK
    <2>4. index + 1 <= Len(input.descriptors)
      BY <2>2, <2>3
    <2>5. \A i \in 1..index + 1 : i \in 1..index \/ i = index + 1
      BY <2>3
    <2>6. CASE Read.kind = "boot"
      <3>1. \A i \in 1..index : input.descriptors[i].kind = "other"
        BY <2>1, <2>6 DEF Held
      <3> QED BY <2>1, <2>2, <2>3, <2>4, <2>5, <2>6, <3>1 DEF Held
    <2>7. CASE Read.kind = "other"
      BY <2>1, <2>2, <2>3, <2>4, <2>5, <2>7 DEF Held
    <2> QED BY <2>1, <2>6, <2>7
  <1>3. UNCHANGED <<input, scan>> \/ (ReadDescriptor /\ ~UNCHANGED scan)
    BY NextSplit, LeavesFrame, HeaderCases, EntryCases, InputFixed DEF Returned, vars
  <1> QED BY <1>1, <1>2, <1>3

LEMMA StoppedStep == ASSUME TypeOK, Stopped, Ended, [Next]_vars PROVE Stopped'
  <1>1. CASE ReadDescriptor
    <2>1. /\ phase = "descriptors" /\ index < input.max_descriptors /\ result = "none"
          /\ UNCHANGED input
      BY <1>1 DEF ReadDescriptor, Scanning, Ended
    <2>2. input.descriptors \in Seq(Descriptor) /\ index \in Nat
          /\ input.max_descriptors \in Nat
      BY InputType DEF TypeOK
    <2>3. CASE /\ Read.kind = "terminator"
               /\ IF found = 0 THEN Return("absent") ELSE phase' = "catalog" /\ UNCHANGED result
               /\ UNCHANGED scan
      <3>1. index < Len(input.descriptors) /\ Read = input.descriptors[index + 1]
        BY <2>3 DEF Read
      <3>2. index + 1 \in 1..input.max_descriptors /\ index + 1 <= Len(input.descriptors)
        BY <2>1, <2>2, <3>1
      <3>3. UNCHANGED <<input, index, found>>
        BY <2>1, <2>3 DEF scan
      <3>4. IF result' = "absent" THEN found = 0 ELSE found # 0
        BY <2>1, <2>3 DEF Return
      <3> QED BY <2>3, <3>1, <3>2, <3>3, <3>4 DEF Stopped
    <2>4. CASE (phase' = "descriptors" /\ result' = "none") \/ Return("error")
      BY <2>4 DEF Stopped, Return
    <2> QED BY <1>1, <2>1, <2>3, <2>4 DEF ReadDescriptor
  <1>2. CASE Leaves
    <2>1. UNCHANGED <<input, index, found>>
      BY <1>2, LeavesFrame DEF scan
    <2>2. CASE Start \/ ReadFails \/ NoTerminator
      BY <2>2 DEF Start, ReadFails, NoTerminator, Return, Stopped, Ended
    <2>3. CASE ReadCatalog \/ EndOfCatalog
      <3>1. /\ phase \in {"catalog", "header"} /\ result = "none"
            /\ result' # "absent"
        BY <2>3 DEF ReadCatalog, EndOfCatalog, Return, Ended
      <3>2. /\ index + 1 \in 1..input.max_descriptors
            /\ index + 1 <= Len(input.descriptors)
            /\ input.descriptors[index + 1].kind = "terminator"
            /\ found # 0
        BY <3>1 DEF Stopped
      <3> QED BY <2>1, <3>1, <3>2 DEF Stopped
    <2> QED BY <1>2, <2>2, <2>3 DEF Leaves
  <1>3. CASE Header \/ BootEntry
    <2>1. /\ UNCHANGED <<input, index, found>> /\ phase \in {"header", "entry"}
          /\ result = "none" /\ result' # "absent"
      BY <1>3, HeaderCases, EntryCases
         DEF scan, HeaderAccepted, EntryAccepted, Return, Ended
    <2>2. /\ index + 1 \in 1..input.max_descriptors
          /\ index + 1 <= Len(input.descriptors)
          /\ input.descriptors[index + 1].kind = "terminator"
          /\ found # 0
      BY <2>1 DEF Stopped
    <2> QED BY <2>1, <2>2 DEF Stopped
  <1>4. CASE Returned \/ UNCHANGED vars
    BY <1>4 DEF Returned, vars, scan, Stopped
  <1> QED BY <1>1, <1>2, <1>3, <1>4, NextSplit

LEMMA LimitedStep == ASSUME TypeOK, Limited, Fresh, Ended, [Next]_vars PROVE Limited'
  <1>0. /\ input.max_catalog_entries \in Nat /\ input' = input
        /\ Len(entries) \in Nat /\ section.left \in Nat
    BY InputType, InputFixed DEF TypeOK
  <1>1. CASE UNCHANGED parse /\ (phase' = "returned" \/ phase' = phase)
    BY <1>0, <1>1 DEF Limited, parse
  <1>2. CASE Start /\ phase' = "descriptors"
    <2>1. input.max_catalog_entries \in 1..Slots
      BY <1>2 DEF Start, ValidConfig, Return
    <2>2. UNCHANGED parse /\ phase = "config"
      BY <1>2 DEF Start
    <2> QED BY <1>0, <1>2, <2>1, <2>2, ConstantsAssumption DEF Limited, parse
  <1>3. CASE ReadDescriptor
    <2>1. UNCHANGED parse /\ phase = "descriptors"
          /\ phase' \in {"descriptors", "catalog", "returned"}
      BY <1>3 DEF ReadDescriptor, Scanning, Return
    <2> QED BY <1>0, <2>1 DEF Limited, parse
  <1>4. CASE ReadCatalog
    <2>1. UNCHANGED parse /\ phase = "catalog" /\ phase' \in {"entry", "returned"}
      BY <1>4 DEF ReadCatalog, Return
    <2>2. entries = <<>> /\ Len(entries) = 0 /\ section.left = 1
          /\ input.max_catalog_entries >= 1
      BY <2>1 DEF Limited, Fresh
    <2> QED BY <1>0, <2>1, <2>2 DEF Limited, parse
  <1>5. CASE Header
    <2>1. CASE Return("error") /\ UNCHANGED <<cursor, section, final>>
      BY <1>1, <1>5, <2>1, HeaderCases DEF Return, parse
    <2>2. CASE HeaderAccepted
      <3>1. section'.left = input.slots[cursor].count /\ UNCHANGED entries
            /\ phase = "header" /\ phase' = "entry"
        BY <1>5, <2>2, HeaderCases DEF HeaderAccepted
      <3>2. Len(entries) + input.slots[cursor].count <= input.max_catalog_entries
        BY <2>2 DEF HeaderAccepted, Fits
      <3> QED BY <1>0, <3>1, <3>2 DEF Limited
    <2> QED BY <1>5, <2>1, <2>2, HeaderCases
  <1>6. CASE BootEntry
    <2>1. CASE Return("error") /\ UNCHANGED <<cursor, section, entries>>
      BY <1>1, <1>6, <2>1, EntryCases DEF Return, parse
    <2>2. CASE EntryAccepted
      <3> DEFINE slot == input.slots[cursor]
                 e == Entry(section.platform, slot)
      <3>1. /\ slot \in Slot /\ slot.kind \in {"zero", "entry"}
            /\ section.platform \in Platform
        BY <2>2, EntryPlace DEF TypeOK
      <3>2. e \in BootImage /\ e.bootable = Fields(slot).bootable
            /\ e.load_bytes = Fields(slot).sectors * LoadSectorBytes
        BY <3>1, EntryType
      <3>3. Fields(slot).bootable => slot.sectors # 0 /\ LoadsInside(e)
        BY <2>2 DEF EntryAccepted, Parses
      <3>4. e.bootable => e.load_bytes # 0
                          /\ e.image_offset + e.load_bytes <= input.total_bytes
        <4>1. SUFFICES ASSUME e.bootable PROVE e.load_bytes # 0
          BY <3>2, <3>3 DEF LoadsInside, Span
        <4>2. slot.kind = "entry" /\ slot.sectors \in Nat /\ Fields(slot) = slot
          BY <3>1, <3>2, <4>1, SlotType DEF Fields, Zero
        <4>3. slot.sectors # 0
          BY <3>2, <3>3, <4>1
        <4> QED BY <3>2, <4>2, <4>3, ConstantsAssumption
      <3>5. PICK x : x = e
        OBVIOUS
      <3>6. /\ entries' = Append(entries, x) /\ x \in BootImage
            /\ x.bootable => x.load_bytes # 0
                             /\ x.image_offset + x.load_bytes <= input.total_bytes
        BY <2>2, <3>2, <3>4, <3>5 DEF EntryAccepted
      <3> HIDE DEF e, slot
      <3>7. Len(entries') = Len(entries) + 1 /\ phase = "entry"
            /\ section'.left = section.left - 1
        BY <1>6, <2>2, <3>6, EntryCases, SectionLeft DEF TypeOK
      <3>8. phase' \in {"header", "entry"} /\ (phase' = "header" => section.left = 1)
        BY <2>2, <3>7 DEF EntryAccepted
      <3>9. \A k \in 1..Len(entries') : entries'[k].bootable =>
               /\ entries'[k].load_bytes # 0
               /\ entries'[k].image_offset + entries'[k].load_bytes <= input.total_bytes
        <4> SUFFICES ASSUME NEW k \in 1..Len(entries')
                     PROVE  entries'[k].bootable =>
                               /\ entries'[k].load_bytes # 0
                               /\ entries'[k].image_offset + entries'[k].load_bytes
                                      <= input.total_bytes
          OBVIOUS
        <4>1. CASE k = Len(entries) + 1
          <5>1. entries'[k] = x
            BY <3>6, <4>1, <1>0 DEF TypeOK
          <5> QED BY <3>6, <5>1
        <4>2. CASE k \in 1..Len(entries)
          <5>1. entries'[k] = entries[k]
            BY <3>6, <4>2 DEF TypeOK
          <5> QED BY <4>2, <5>1 DEF Limited
        <4> QED BY <1>0, <3>7, <4>1, <4>2
      <3> QED BY <1>0, <3>7, <3>8, <3>9 DEF Limited
    <2> QED BY <1>6, <2>1, <2>2, EntryCases
  <1>7. CASE Leaves \/ Returned \/ UNCHANGED vars
    <2>1. CASE Start /\ phase' # "descriptors"
      BY <1>1, <2>1 DEF Start, Return
    <2>2. CASE ReadFails \/ NoTerminator \/ EndOfCatalog
      BY <1>1, <2>2 DEF ReadFails, NoTerminator, EndOfCatalog, Return
    <2>3. CASE Returned \/ UNCHANGED vars
      BY <1>1, <2>3 DEF Returned, vars
    <2> QED BY <1>2, <1>4, <1>7, <2>1, <2>2, <2>3 DEF Leaves
  <1> QED BY <1>3, <1>5, <1>6, <1>7, NextSplit

-----------------------------------------------------------------------------
(* The cut of the slots parsed so far, as it grows. *)

LEMMA HeadersFinite ==
    ASSUME TypeOK, NEW H \in SUBSET (2..cursor - 1)
    PROVE  /\ IsFiniteSet(H) /\ Cardinality(H) \in Nat
           /\ \A i \in 1..cursor : IsFiniteSet(Before(H, i)) /\ Cardinality(Before(H, i)) \in Nat
           /\ H \subseteq 1..cursor - 1 /\ cursor \notin H /\ Before(H, cursor) = H
           /\ Cardinality(H) <= cursor - 1
  <1>1. cursor \in Nat \ {0}
    BY ConstantsAssumption DEF TypeOK
  <1>2. IsFiniteSet(1..cursor - 1) /\ Cardinality(1..cursor - 1) = cursor - 1
    BY <1>1, FS_Interval
  <1>3. H \subseteq 1..cursor - 1
    BY <1>1
  <1>4. IsFiniteSet(H) /\ Cardinality(H) <= cursor - 1
    <2> DEFINE I == 1..cursor - 1
    <2>1. IsFiniteSet(I) /\ H \in SUBSET I
      BY <1>2, <1>3
    <2>2. IsFiniteSet(H) /\ Cardinality(H) <= Cardinality(I)
      <3> HIDE DEF I
      <3> QED BY <2>1, FS_Subset
    <2> QED BY <1>2, <2>2
  <1>5. \A i \in 1..cursor : IsFiniteSet(Before(H, i))
    BY <1>4, FS_Subset DEF Before
  <1>6. cursor \notin H /\ Before(H, cursor) = H
    <2>1. \A h \in H : h < cursor
      BY <1>1
    <2>2. {h \in H : h < cursor} = H
      BY <2>1
    <2>3. cursor \notin H
      BY <1>1, <2>1
    <2> QED BY <2>2, <2>3 DEF Before
  <1> QED BY <1>3, <1>4, <1>5, <1>6, FS_CardinalityType

LEMMA CutBegins ==
    ASSUME TypeOK, Fresh, Limited, ReadCatalog, phase' = "entry"
    PROVE  Cut({}, 0)' /\ Current(0)' /\ Lists({}, cursor - 1)'
  <1>1. /\ UNCHANGED <<input, cursor, section, final, entries>>
        /\ cursor = 1 /\ ~final /\ section = [platform |-> input.platform, left |-> 1]
        /\ entries = <<>> /\ Len(entries) = 0
    BY DEF ReadCatalog, parse, Fresh, Limited
  <1>2. Cut({}, 0)'
    BY <1>1 DEF Cut, EndOf, Left
  <1>3. Current(0)'
    BY <1>1 DEF Current, PlatformOf, TypeOK
  <1>4. Lists({}, cursor - 1)'
    BY <1>1, FS_EmptySet DEF Lists
  <1> QED BY <1>2, <1>3, <1>4

\* A header that is accepted follows a section that is complete, and starts the next.
LEMMA CutAtHeader ==
    ASSUME TypeOK, phase = "header", HeaderAccepted, cursor \in 1..Slots,
           UNCHANGED <<input, entries>>,
           NEW H \in SUBSET (2..cursor - 1), NEW c \in H \cup {0},
           Cut(H, c), Current(c), Lists(H, cursor - 1),
           NEW m, m = cursor
    PROVE  /\ H \cup {m} \in SUBSET (2..cursor' - 1)
           /\ Cut(H \cup {m}, m)' /\ Current(m)' /\ Lists(H \cup {m}, cursor - 1)'
  <1> DEFINE n == cursor
             slot == input.slots[cursor]
  <1>0. /\ n \in Nat \ {0} /\ H \subseteq 2..n - 1 /\ n \notin H
        /\ EndOf(c) = n - 1 /\ slot.kind = "header" /\ ~final
        /\ slot.count \in Nat \ {0} /\ slot.final \in BOOLEAN
    <2>1. input.slots[cursor] \in Slot
      BY InputType DEF TypeOK
    <2>2. slot.kind = "header" /\ slot.count # 0 /\ ~final
      BY DEF HeaderAccepted, Fits, MayFollow
    <2> QED BY <2>1, <2>2, SlotType DEF TypeOK, Cut, Left
  <1>1. \A g \in H : g \in Nat /\ input.slots[g].count \in Nat \ {0}
    <2> SUFFICES ASSUME NEW g \in H
                 PROVE  g \in Nat /\ input.slots[g].count \in Nat \ {0}
      OBVIOUS
    <2>1. g \in 1..Slots
      BY <1>0, ConstantsAssumption DEF TypeOK
    <2>2. input.slots[g] \in Slot
      BY <2>1, InputType DEF TypeOK
    <2>3. input.slots[g].kind = "header" /\ input.slots[g].count # 0
      BY DEF Cut
    <2> QED BY <2>1, <2>2, <2>3, SlotType
  <1>2. n >= 2
    BY <1>0, <1>1 DEF EndOf
  <1>3. m = cursor
    OBVIOUS
  <1>4. /\ cursor' = m + 1 /\ phase' = "entry" /\ UNCHANGED <<input, entries>>
        /\ section'.left = slot.count /\ section'.platform = slot.platform
        /\ final' = slot.final
    BY <1>3 DEF HeaderAccepted
  <1>5. H \cup {m} \in SUBSET (2..cursor' - 1)
    <2>1. cursor' - 1 = m
      BY <1>0, <1>3, <1>4
    <2>2. \A g \in H \cup {m} : g \in 2..m
      <3>1. \A g \in H : g \in 2..n - 1
        BY <1>0
      <3>2. \A g \in 2..n - 1 : g \in 2..m
        BY <1>0, <1>3
      <3>3. m \in 2..m
        BY <1>0, <1>2, <1>3
      <3> QED BY <3>1, <3>2, <3>3
    <2> QED BY <2>1, <2>2
  <1>6. Cut(H \cup {m}, m)'
    <2>1. EndOf(m) = m + slot.count
      BY <1>0, <1>3 DEF EndOf
    <2>2. \A g \in H \cup {m} : g <= m
      BY <1>0, <1>3
    <2>3. \A g \in H \cup {m} : input.slots[g].kind = "header" /\ input.slots[g].count # 0
      BY <1>0, <1>3 DEF Cut
    <2>4. \A h \in H \cup {m, 0} : h # m =>
             EndOf(h) + 1 \in H \cup {m} /\ (h # 0 => ~input.slots[h].final)
      <3> SUFFICES ASSUME NEW h \in H \cup {0}
                   PROVE  EndOf(h) + 1 \in H \cup {m} /\ (h # 0 => ~input.slots[h].final)
        OBVIOUS
      <3>1. CASE h = c
        <4>1. EndOf(h) + 1 = m
          BY <1>0, <1>3, <3>1
        <4>2. ~(c # 0 /\ input.slots[c].final)
          BY <1>0, Zenon DEF Current
        <4> QED BY <3>1, <4>1, <4>2
      <3>2. CASE h # c
        BY <3>2 DEF Cut
      <3> QED BY <3>1, <3>2
    <2>5. \A h \in H \cup {m, 0} : \A g \in H \cup {m} : g > h => g > EndOf(h)
      <3> SUFFICES ASSUME NEW h \in H \cup {m, 0}, NEW g \in H \cup {m}, g > h
                   PROVE  g > EndOf(h)
        OBVIOUS
      <3>1. CASE g \in H /\ h \in H \cup {0}
        BY <3>1 DEF Cut
      <3>2. CASE g = m /\ h \in H \cup {0}
        <4>1. CASE h = c
          BY <1>0, <1>3, <3>2, <4>1
        <4>2. CASE h # c
          <5>1. EndOf(h) + 1 \in H
            BY <3>2, <4>2 DEF Cut
          <5>2. EndOf(h) \in Nat
            BY <1>1, <3>2 DEF EndOf
          <5> QED BY <1>0, <1>3, <3>2, <5>1, <5>2
        <4> QED BY <4>1, <4>2
      <3>3. CASE h = m
        BY <1>0, <1>3, <3>3
      <3> QED BY <3>1, <3>2, <3>3
    <2>6. \A i \in (1..m) \ (H \cup {m}) : input.slots[i].kind \in {"zero", "entry"}
      BY <1>0, <1>3 DEF Cut
    <2> QED BY <1>0, <1>3, <1>4, <2>1, <2>2, <2>3, <2>4, <2>5, <2>6 DEF Cut, Left, EndOf
  <1>7. Current(m)'
    <2>1. m # 0 /\ slot.final \in BOOLEAN /\ input.slots[m] = slot /\ input' = input
      BY <1>0, <1>3, <1>4
    <2>2. final' = (m # 0 /\ input'.slots[m].final)
      BY <1>4, <2>1
    <2>3. section'.platform = PlatformOf(m)'
      BY <1>4, <2>1 DEF PlatformOf
    <2> QED BY <2>2, <2>3 DEF Current
  <1>8. Lists(H \cup {m}, cursor - 1)'
    <2>1. Cardinality(H \cup {m}) = Cardinality(H) + 1 /\ Cardinality(H) \in Nat
      BY <1>0, <1>3, HeadersFinite, FS_AddElement
    <2>2. \A i \in (1..m) \ (H \cup {m}) : i \in (1..m - 1) \ H /\ Before(H \cup {m}, i) = Before(H, i)
      BY <1>0, <1>3 DEF Before
    <2>3. \A i \in (1..m) \ (H \cup {m}) :
             SectionOf(H \cup {m}, i) = SectionOf(H, i)
      BY <2>2 DEF SectionOf
    <2>4. Len(entries) = m - Cardinality(H \cup {m})
      BY <1>0, <1>3, <2>1 DEF Lists
    <2>5. \A i \in (1..m) \ (H \cup {m}) :
             entries[i - Cardinality(Before(H \cup {m}, i))]
                 = Entry(PlatformOf(SectionOf(H \cup {m}, i)), input.slots[i])
      BY <1>3, <2>2, <2>3 DEF Lists
    <2>6. cursor' - 1 = m
      BY <1>0, <1>3, <1>4
    <2>7. input' = input /\ entries' = entries
      BY <1>4
    <2>8. \A i \in (1..m) \ (H \cup {m}) :
             Entry(PlatformOf(SectionOf(H \cup {m}, i)), input.slots[i])'
                 = Entry(PlatformOf(SectionOf(H \cup {m}, i)), input.slots[i])
      BY <2>7 DEF PlatformOf
    <2> QED BY <2>4, <2>5, <2>6, <2>7, <2>8 DEF Lists
  <1> QED BY <1>5, <1>6, <1>7, <1>8

\* The place of an entry among the entries: behind those of the slots before its own.
LEMMA PlaceInside ==
    ASSUME NEW n \in Nat, NEW H \in SUBSET (1..n), NEW i \in (1..n) \ H
    PROVE  i - Cardinality(Before(H, i)) \in 1..n - Cardinality(H)
  <1> DEFINE B == Before(H, i)
             A == H \ B
  <1>1. IsFiniteSet(H) /\ IsFiniteSet(B) /\ IsFiniteSet(A)
    <2>1. IsFiniteSet(1..n)
      BY FS_Interval
    <2>2. B \in SUBSET (1..n) /\ A \in SUBSET (1..n)
      BY DEF Before
    <2> QED BY <2>1, <2>2, FS_Subset
  <1>2. B \in SUBSET (1..i - 1)
    <2>1. \A h \in B : h \in 1..n /\ h < i
      BY DEF Before
    <2>2. \A h \in 1..n : h < i => h \in 1..i - 1
      OBVIOUS
    <2> HIDE DEF B
    <2> QED BY <2>1, <2>2
  <1>3. A \in SUBSET (i + 1..n)
    <2>1. \A h \in A : h \in 1..n /\ ~(h < i) /\ h # i
      BY DEF Before
    <2>2. \A h \in 1..n : ~(h < i) /\ h # i => h \in i + 1..n
      OBVIOUS
    <2> HIDE DEF A
    <2> QED BY <2>1, <2>2
  <1>4. Cardinality(B) <= i - 1
    <2>1. IsFiniteSet(1..i - 1) /\ Cardinality(1..i - 1) = i - 1
      BY FS_Interval
    <2> QED BY <1>2, <2>1, FS_Subset
  <1>5. Cardinality(A) <= n - i
    <2>1. IsFiniteSet(i + 1..n) /\ Cardinality(i + 1..n) = n - i
      BY FS_Interval
    <2> QED BY <1>3, <2>1, FS_Subset
  <1>6. Cardinality(H) = Cardinality(A) + Cardinality(B)
    <2>1. A \cup B = H /\ A \cap B = {}
      <3>1. B \subseteq H
        BY DEF Before
      <3> HIDE DEF B
      <3> QED BY <3>1
    <2>2. Cardinality(A \cup B) = Cardinality(A) + Cardinality(B) - Cardinality(A \cap B)
      BY <1>1, FS_Union
    <2>3. Cardinality(A \cap B) = 0
      BY <2>1, FS_EmptySet
    <2>4. Cardinality(A) \in Nat /\ Cardinality(B) \in Nat
      BY <1>1, FS_CardinalityType
    <2>5. Cardinality(A \cup B) = Cardinality(H)
      BY <2>1
    <2> HIDE DEF A, B
    <2>6. Cardinality(H) = Cardinality(A) + Cardinality(B) - 0
      BY <2>2, <2>3, <2>5
    <2> QED BY <2>4, <2>6
  <1>7. Cardinality(A) \in Nat /\ Cardinality(B) \in Nat
    BY <1>1, FS_CardinalityType
  <1> HIDE DEF A
  <1> QED BY <1>4, <1>5, <1>6, <1>7

\* An entry that is accepted belongs to the section being parsed.
LEMMA CutAtEntry ==
    ASSUME TypeOK, phase = "entry", EntryAccepted, UNCHANGED <<input, final>>,
           NEW H \in SUBSET (2..cursor - 1), NEW c \in H \cup {0},
           Cut(H, c), Current(c), Lists(H, cursor - 1)
    PROVE  /\ H \in SUBSET (2..cursor' - 1)
           /\ Cut(H, c)' /\ Current(c)' /\ Lists(H, cursor - 1)'
  <1> DEFINE n == cursor
  <1>1. /\ n \in 1..Slots /\ n \in Nat \ {0} /\ input.slots[n] \in Slot
        /\ input.slots[n].kind \in {"zero", "entry"}
    BY EntryPlace
  <1>2. /\ cursor' = n + 1 /\ UNCHANGED <<input, final>>
        /\ section.left \in Nat \ {0} /\ section'.platform = section.platform
        /\ Left' = section.left - 1 /\ Left = section.left
        /\ phase' \in {"header", "entry"}
    <2>1. section.left \in Nat \ {0} /\ section'.left = section.left - 1
          /\ section'.platform = section.platform
      BY SectionLeft DEF TypeOK
    <2>2. cursor' = n + 1 /\ phase' = IF section.left = 1 THEN "header" ELSE "entry"
      BY DEF EntryAccepted
    <2> QED BY <2>1, <2>2 DEF Left
  <1>3. H \subseteq 2..n - 1 /\ H \subseteq 1..n - 1 /\ n \notin H
    BY <1>1
  <1>4. H \in SUBSET (2..cursor' - 1)
    BY <1>1, <1>2, <1>3
  <1>5. Cut(H, c)'
    <2>1. \A i \in (1..n) \ H : input.slots[i].kind \in {"zero", "entry"}
      BY <1>1 DEF Cut
    <2>2. EndOf(c) = n + Left'
      BY <1>1, <1>2 DEF Cut
    <2>3. \A h \in H \cup {0} : EndOf(h)' = EndOf(h)
      BY <1>2 DEF EndOf
    <2>4. cursor' - 1 = n
      BY <1>1, <1>2
    <2> QED BY <1>2, <2>1, <2>2, <2>3, <2>4 DEF Cut
  <1>6. Current(c)'
    BY <1>2 DEF Current, PlatformOf
  <1>7. Lists(H, cursor - 1)'
    <2>1. PICK m : m = n
      OBVIOUS
    <2>2. PICK x : x = Entry(section.platform, input.slots[m])
      OBVIOUS
    <2>3. /\ entries' = Append(entries, x) /\ x \in BootImage
          /\ entries \in Seq(BootImage)
      <3>1. section.platform \in Platform
        BY DEF TypeOK
      <3>2. x \in BootImage
        BY <1>1, <2>1, <2>2, <3>1, EntryType
      <3> QED BY <2>1, <2>2, <3>2 DEF TypeOK, EntryAccepted
    <2>4. /\ Len(entries) = m - 1 - Cardinality(H) /\ Cardinality(H) \in Nat
          /\ Before(H, m) = H
      BY <2>1, HeadersFinite DEF Lists
    <2>5. Len(entries') = m - Cardinality(H)
      <3>1. Len(entries') = Len(entries) + 1
        BY <2>3
      <3>2. m \in Nat
        BY <1>1, <2>1
      <3> QED BY <2>4, <3>1, <3>2
    <2>6. SectionOf(H, m) = c
      <3> HIDE DEF n
      <3>1. \A g \in H \cup {0} : g <= c
        <4>1. \A g \in H : g <= c
          BY DEF Cut
        <4>2. 0 <= c
          BY <1>3
        <4> QED BY <4>1, <4>2
      <3>2. ASSUME NEW h \in H \cup {0}, \A g \in H \cup {0} : g <= h PROVE h = c
        <4>1. h <= c /\ c <= h
          BY <3>1, <3>2
        <4> QED BY <1>3, <4>1
      <3> QED BY <2>4, <3>1, <3>2 DEF SectionOf
    <2>7. \A i \in (1..m) \ H :
             entries'[i - Cardinality(Before(H, i))]
                 = Entry(PlatformOf(SectionOf(H, i)), input.slots[i])
      <3> SUFFICES ASSUME NEW i \in (1..m) \ H
                   PROVE  entries'[i - Cardinality(Before(H, i))]
                              = Entry(PlatformOf(SectionOf(H, i)), input.slots[i])
        OBVIOUS
      <3>1. CASE i = m
        <4>1. PlatformOf(c) = section.platform
          BY DEF Current
        <4>2. entries'[m - Cardinality(H)] = x
          BY <1>1, <2>1, <2>3, <2>4
        <4> QED BY <2>2, <2>4, <2>6, <3>1, <4>1, <4>2
      <3>2. CASE i \in (1..m - 1) \ H
        <4>1. m - 1 \in Nat /\ H \in SUBSET (1..m - 1)
          BY <1>1, <1>3, <2>1
        <4>2. i - Cardinality(Before(H, i)) \in 1..m - 1 - Cardinality(H)
          BY <3>2, <4>1, PlaceInside
        <4>3. PICK k : k = i - Cardinality(Before(H, i))
          OBVIOUS
        <4>4. entries'[k] = entries[k]
          BY <2>3, <2>4, <4>2, <4>3
        <4>5. entries[k] = Entry(PlatformOf(SectionOf(H, i)), input.slots[i])
          BY <2>1, <3>2, <4>3 DEF Lists
        <4> QED BY <4>3, <4>4, <4>5
      <3> QED BY <1>1, <2>1, <3>1, <3>2
    <2>8. cursor' - 1 = m
      BY <1>1, <1>2, <2>1
    <2>9. \A i \in (1..m) \ H :
             Entry(PlatformOf(SectionOf(H, i)), input.slots[i])'
                 = Entry(PlatformOf(SectionOf(H, i)), input.slots[i])
      BY <1>2 DEF PlatformOf
    <2> QED BY <1>2, <2>5, <2>7, <2>8, <2>9 DEF Lists
  <1> QED BY <1>4, <1>5, <1>6, <1>7

LEMMA ListsSame ==
    ASSUME UNCHANGED <<input, cursor, entries>>, NEW H, Lists(H, cursor - 1)
    PROVE  Lists(H, cursor - 1)'
  <1>1. \A i \in (1..cursor - 1) \ H :
           Entry(PlatformOf(SectionOf(H, i)), input.slots[i])'
               = Entry(PlatformOf(SectionOf(H, i)), input.slots[i])
    BY DEF PlatformOf
  <1> QED BY <1>1 DEF Lists

LEMMA ParsedStep ==
    ASSUME TypeOK, Fresh, Limited, Ended, Parsed, [Next]_vars
    PROVE  Parsed'
  <1>1. CASE ~Parsing'
    BY <1>1 DEF Parsed
  <1>2. CASE ReadCatalog /\ Parsing'
    <2>1. phase' = "entry"
      BY <1>2 DEF ReadCatalog, Return, Parsing
    <2>2. Cut({}, 0)' /\ Current(0)' /\ Lists({}, cursor - 1)'
      BY <1>2, <2>1, CutBegins
    <2>3. {} \in SUBSET (2..cursor' - 1) /\ 0 \in {} \cup {0}
      OBVIOUS
    <2> QED BY <2>2, <2>3 DEF Parsed
  <1>3. CASE EndOfCatalog
    <2>1. /\ phase = "header" /\ phase' = "returned" /\ result' = "ok"
          /\ UNCHANGED <<input, cursor, section, final, entries>>
      BY <1>3 DEF EndOfCatalog, Return, parse
    <2>2. PICK H \in SUBSET (2..cursor - 1) : \E c \in H \cup {0} :
             Cut(H, c) /\ Current(c) /\ Lists(H, cursor - 1)
      BY <2>1 DEF Parsed, Parsing
    <2>3. PICK c \in H \cup {0} : Cut(H, c) /\ Current(c) /\ Lists(H, cursor - 1)
      BY <2>2
    <2>4. Cut(H, c)'
      BY <2>1, <2>3 DEF Cut, EndOf, Left
    <2>5. Current(c)'
      BY <2>1, <2>3 DEF Current
    <2>6. Lists(H, cursor - 1)'
      BY <2>1, <2>3, ListsSame
    <2> QED BY <2>1, <2>4, <2>5, <2>6 DEF Parsed
  <1>4. CASE Header /\ Parsing'
    <2>1. HeaderAccepted /\ phase = "header" /\ UNCHANGED <<input, entries>>
      BY <1>4, HeaderCases DEF Return, Parsing
    <2>2. PICK H \in SUBSET (2..cursor - 1) : \E c \in H \cup {0} :
             Cut(H, c) /\ Current(c) /\ Lists(H, cursor - 1)
      BY <2>1 DEF Parsed, Parsing
    <2>3. PICK c \in H \cup {0} : Cut(H, c) /\ Current(c) /\ Lists(H, cursor - 1)
      BY <2>2
    <2>4. PICK m : m = cursor
      OBVIOUS
    <2>5. cursor \in 1..Slots
      BY <1>4, HeaderPlace
    <2>6. /\ H \cup {m} \in SUBSET (2..cursor' - 1)
          /\ Cut(H \cup {m}, m)' /\ Current(m)' /\ Lists(H \cup {m}, cursor - 1)'
      BY <2>1, <2>3, <2>4, <2>5, CutAtHeader
    <2>7. m \in (H \cup {m}) \cup {0}
      OBVIOUS
    <2> QED BY <2>6, <2>7 DEF Parsed
  <1>5. CASE BootEntry /\ Parsing'
    <2>1. EntryAccepted /\ phase = "entry" /\ UNCHANGED <<input, final>>
      BY <1>5, EntryCases DEF Return, Parsing
    <2>2. PICK H \in SUBSET (2..cursor - 1) : \E c \in H \cup {0} :
             Cut(H, c) /\ Current(c) /\ Lists(H, cursor - 1)
      BY <2>1 DEF Parsed, Parsing
    <2>3. PICK c \in H \cup {0} : Cut(H, c) /\ Current(c) /\ Lists(H, cursor - 1)
      BY <2>2
    <2>4. /\ H \in SUBSET (2..cursor' - 1)
          /\ Cut(H, c)' /\ Current(c)' /\ Lists(H, cursor - 1)'
      BY <2>1, <2>3, CutAtEntry
    <2> QED BY <2>4 DEF Parsed
  <1>6. CASE Returned \/ UNCHANGED vars
    <2>1. UNCHANGED <<input, phase, cursor, section, final, entries, result>>
      BY <1>6 DEF Returned, vars, parse
    <2>2. SUFFICES ASSUME Parsing'
                   PROVE  \E H \in SUBSET (2..cursor' - 1) : \E c \in H \cup {0} :
                             Cut(H, c)' /\ Current(c)' /\ Lists(H, cursor - 1)'
      BY DEF Parsed
    <2>3. PICK H \in SUBSET (2..cursor - 1) : \E c \in H \cup {0} :
             Cut(H, c) /\ Current(c) /\ Lists(H, cursor - 1)
      BY <2>1, <2>2 DEF Parsed, Parsing
    <2>4. PICK c \in H \cup {0} : Cut(H, c) /\ Current(c) /\ Lists(H, cursor - 1)
      BY <2>3
    <2>5. Cut(H, c)' /\ Current(c)'
      BY <2>1, <2>4 DEF Cut, EndOf, Left, Current, PlatformOf
    <2>6. Lists(H, cursor - 1)'
      BY <2>1, <2>4, ListsSame
    <2> QED BY <2>1, <2>5, <2>6
  <1>7. CASE (Start \/ ReadFails \/ ReadDescriptor \/ NoTerminator) /\ Parsing'
    <2>1. phase # "returned"
      BY <1>7 DEF Start, ReadFails, ReadDescriptor, Scanning, NoTerminator
    <2>2. result' # "ok" /\ phase' \notin {"header", "entry"}
      BY <1>7, <2>1 DEF Start, ReadFails, ReadDescriptor, Scanning, NoTerminator, Return, Ended
    <2> QED BY <1>7, <2>2 DEF Parsing
  <1> QED BY <1>1, <1>2, <1>3, <1>4, <1>5, <1>6, <1>7, NextSplit DEF Leaves

-----------------------------------------------------------------------------
LEMMA InvAlways == Spec => []Inv
  <1>1. Inv /\ [Next]_vars => Inv'
    BY TypeStep, HeldStep, StoppedStep, EndedStep, LimitedStep, ParsedStep, ClosedStep,
       FreshStep DEF Inv
  <1> QED BY InitInv, <1>1, PTL DEF Spec

\* Every variable of catalog_el_torito keeps its type, whatever the slots hold: a boot
\* image's length and offset are never ill-formed, and the cursor stays in the block.
THEOREM TypeCorrect == Spec => []TypeOK
  <1>1. Inv => TypeOK
    BY DEF Inv
  <1> QED BY <1>1, InvAlways, PTL

\* Where the scan stopped is the first terminator, so the boot records are those held.
LEMMA ScanEnds ==
    ASSUME Inv, result \in {"ok", "absent"}
    PROVE  /\ Terminator = index + 1 /\ index \in Nat
           /\ BootRecords = {i \in 1..index : input.descriptors[i].kind = "boot"}
  <1> DEFINE d == input.descriptors
             ends == {i \in 1..Len(d) : d[i].kind = "terminator"}
  <1>1. d \in Seq(Descriptor) /\ index \in Nat /\ Len(d) \in Nat
    BY InputType DEF Inv, TypeOK
  <1>2. index + 1 <= Len(d) /\ d[index + 1].kind = "terminator"
    BY DEF Inv, Stopped
  <1>3. \A i \in 1..index : d[i].kind \in {"other", "boot"}
    BY DEF Inv, Held
  <1>4. index + 1 \in ends
    BY <1>1, <1>2
  <1>5. \A i \in ends : index + 1 <= i
    BY <1>1, <1>3
  <1>6. \A i \in ends : (\A j \in ends : i <= j) => i = index + 1
    BY <1>1, <1>4, <1>5
  <1>7. Terminator = CHOOSE i \in ends : \A j \in ends : i <= j
    BY <1>4 DEF Terminator
  <1>8. Terminator = index + 1
    <2> HIDE DEF ends
    <2> QED BY <1>4, <1>5, <1>6, <1>7
  <1>9. \A i \in 1..index + 1 : d[i].kind = "boot" => i \in 1..index
    BY <1>1, <1>2
  <1> QED BY <1>1, <1>8, <1>9 DEF BootRecords

\* A catalog is returned only from the one boot record of a terminated descriptor
\* sequence, and "no catalog" only where the sequence has none, however long it is and
\* wherever reads failed.
THEOREM AuthorityIsUnique == Spec => []OneAuthority
  <1>1. Inv => OneAuthority
    <2> SUFFICES ASSUME Inv PROVE OneAuthority
      OBVIOUS
    <2>1. CASE result \notin {"ok", "absent"}
      BY <2>1 DEF OneAuthority
    <2>2. CASE result = "absent"
      <3>1. found = 0 /\ index + 1 \in 1..input.max_descriptors
        BY <2>2 DEF Inv, Stopped
      <3>2. \A i \in 1..index : input.descriptors[i].kind # "boot"
        BY <3>1 DEF Inv, Held
      <3> QED BY <2>2, <3>1, <3>2, ScanEnds DEF OneAuthority
    <2>3. CASE result = "ok"
      <3>1. found # 0 /\ index + 1 \in 1..input.max_descriptors
        BY <2>3 DEF Inv, Stopped
      <3>2. PICK i \in 1..index : input.descriptors[i].kind = "boot"
        BY <3>1 DEF Inv, Held
      <3>3. found = input.descriptors[i].lba
        BY <3>2 DEF Inv, Held
      <3>4. BootRecords = {i}
        <4>1. \A j \in 1..index : input.descriptors[j].kind = "boot" => j = i
          BY <3>2 DEF Inv, Held
        <4> QED BY <2>3, <3>2, <4>1, ScanEnds
      <3> QED BY <2>3, <3>1, <3>3, <3>4, ScanEnds DEF OneAuthority
    <2> QED BY <2>1, <2>2, <2>3
  <1> QED BY <1>1, InvAlways, PTL

LEMMA AcceptedIsWhole ==
    ASSUME Inv, result = "ok"
    PROVE  \E H \in SUBSET (2..Slots), last \in 1..Slots : Sections(H, last) /\ Lists(H, last)
  <1>1. phase = "returned" /\ OnlyZerosLeft /\ cursor \in 1..Slots + 1 /\ Left = 0
    BY DEF Inv, Ended, Closed, TypeOK, Left
  <1>2. PICK H \in SUBSET (2..cursor - 1) : \E c \in H \cup {0} :
           Cut(H, c) /\ Current(c) /\ Lists(H, cursor - 1)
    BY DEF Inv, Parsed, Parsing
  <1>3. PICK c \in H \cup {0} : Cut(H, c) /\ Lists(H, cursor - 1)
    BY <1>2
  <1>4. PICK last : last = cursor - 1
    OBVIOUS
  <1>5. last \in 0..Slots /\ cursor = last + 1 /\ H \in SUBSET (2..last)
    BY <1>1, <1>4, ConstantsAssumption
  <1>6. \A h \in H : h \in 2..last /\ input.slots[h].count \in Nat \ {0}
    <2> SUFFICES ASSUME NEW h \in H
                 PROVE  h \in 2..last /\ input.slots[h].count \in Nat \ {0}
      OBVIOUS
    <2>1. h \in 2..last /\ h \in 1..Slots
      BY <1>5, ConstantsAssumption
    <2>2. input.slots[h] \in Slot
      BY <2>1, InputType DEF Inv, TypeOK
    <2>3. input.slots[h].kind = "header" /\ input.slots[h].count # 0
      BY <1>3 DEF Cut
    <2> QED BY <2>1, <2>2, <2>3, SlotType
  <1>7. EndOf(c) = last
    BY <1>1, <1>3, <1>4, <1>5 DEF Cut
  <1>8. last \in 1..Slots
    BY <1>5, <1>6, <1>7 DEF EndOf
  <1>9. \A h \in H \cup {0} : EndOf(h) \in Nat /\ EndOf(h) <= last
    <2> SUFFICES ASSUME NEW h \in H \cup {0} PROVE EndOf(h) \in Nat /\ EndOf(h) <= last
      OBVIOUS
    <2>1. EndOf(h) \in Nat
      BY <1>6 DEF EndOf
    <2>2. CASE h # c
      <3>1. EndOf(h) + 1 \in H
        BY <1>3, <2>2 DEF Cut
      <3>2. EndOf(h) + 1 \in 2..last
        BY <1>6, <3>1
      <3> QED BY <1>5, <2>1, <3>2
    <2> QED BY <1>5, <1>7, <2>1, <2>2
  <1>10. Sections(H, last)
    <2>1. last <= Slots /\ \A i \in last + 1..Slots : input.slots[i] = Zero
      BY <1>1, <1>5, <1>8 DEF OnlyZerosLeft
    <2>2. \A h \in H : input.slots[h].kind = "header" /\ input.slots[h].count # 0
      BY <1>3 DEF Cut
    <2>3. \A h \in H \cup {0} : \A i \in h + 1..EndOf(h) :
             input.slots[i].kind \in {"zero", "entry"}
      <3> SUFFICES ASSUME NEW h \in H \cup {0}, NEW i \in h + 1..EndOf(h)
                   PROVE  input.slots[i].kind \in {"zero", "entry"}
        OBVIOUS
      <3>1. i \in 1..last /\ i > h /\ ~(i > EndOf(h)) /\ h \in Nat
        BY <1>5, <1>6, <1>9
      <3>2. i \notin H
        BY <1>3, <3>1 DEF Cut
      <3> QED BY <1>3, <1>4, <3>1, <3>2 DEF Cut
    <2>4. \A h \in H \cup {0} :
             IF \A g \in H : g <= h
             THEN EndOf(h) = last
             ELSE EndOf(h) + 1 \in H /\ (h # 0 => ~input.slots[h].final)
      <3> SUFFICES ASSUME NEW h \in H \cup {0}
                   PROVE  IF \A g \in H : g <= h
                          THEN EndOf(h) = last
                          ELSE EndOf(h) + 1 \in H /\ (h # 0 => ~input.slots[h].final)
        OBVIOUS
      <3>1. CASE h = c
        BY <1>3, <1>7, <3>1 DEF Cut
      <3>2. CASE h # c
        <4>1. EndOf(h) + 1 \in H /\ (h # 0 => ~input.slots[h].final)
          BY <1>3, <3>2 DEF Cut
        <4>2. h <= c /\ h \in Nat /\ c \in Nat
          BY <1>3, <1>6 DEF Cut
        <4>3. c \in H /\ ~(c <= h)
          BY <1>6, <3>2, <4>2
        <4> QED BY <4>1, <4>3
      <3> QED BY <3>1, <3>2
    <2> QED BY <2>1, <2>2, <2>3, <2>4 DEF Sections
  <1>11. H \in SUBSET (2..Slots)
    <2>1. \A h \in 2..last : h \in 2..Slots
      BY <1>8, ConstantsAssumption
    <2> QED BY <1>5, <2>1
  <1> QED BY <1>3, <1>4, <1>8, <1>10, <1>11

\* A boot catalog is accepted only if it is well-formed as a whole, for every block of
\* slots: its headers cut it into sections as long as they claim, none follows the final
\* one, each entry has the platform of its own section, and what boots loads from the
\* source; and at no step are there more entries than the caller allowed.
THEOREM CatalogIsWellFormed == Spec => []CatalogIsTheBlock
  <1>1. Inv => CatalogIsTheBlock
    <2> SUFFICES ASSUME Inv PROVE CatalogIsTheBlock
      OBVIOUS
    <2>1. Len(entries) <= input.max_catalog_entries
      <3>1. Len(entries) \in Nat /\ section.left \in Nat /\ input.max_catalog_entries \in Nat
        BY InputType DEF Inv, TypeOK
      <3> QED BY <3>1 DEF Inv, Limited
    <2>2. \A k \in 1..Len(entries) : entries[k].bootable =>
             /\ entries[k].load_bytes # 0
             /\ entries[k].image_offset + entries[k].load_bytes <= input.total_bytes
      BY DEF Inv, Limited
    <2> QED BY <2>1, <2>2, AcceptedIsWhole DEF CatalogIsTheBlock
  <1> QED BY <1>1, InvAlways, PTL
=============================================================================
