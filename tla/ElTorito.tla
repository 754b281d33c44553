------------------------------ MODULE ElTorito ------------------------------
(***************************************************************************)
(* catalog_el_torito of boot_media/el_torito.rs: the one boot record of a  *)
(* terminated descriptor sequence, and the boot catalog it points to.      *)
(*                                                                         *)
(* The catalog is one block of fixed-size slots.  What a slot is depends   *)
(* on where the parser meets it: a slot of zeros is the end of the catalog *)
(* where a header may stand, and an entry that does not boot inside a      *)
(* section.  So an input is a block of slots told apart by their first     *)
(* byte and the fields that are read, and the parser gives them meaning.   *)
(***************************************************************************)
EXTENDS Integers, Sequences, FiniteSets

CONSTANTS
    Inputs,            \* the [config, descriptors, catalog, total_bytes] called with
    Platform,          \* platform codes
    BlockBytes,        \* ISO_BLOCK_BYTES, 2048 in the code
    FirstDescriptor,   \* FIRST_DESCRIPTOR_BLOCK, 16 in the code
    LoadSectorBytes,   \* 512 in the code
    Slots              \* the catalog's slots behind the validation entry, 63 in the code

\* A descriptor: of another standard, a boot record with the block it points to,
\* any other one, or the terminator.
Descriptor ==
    [kind : {"invalid", "other", "terminator"}] \cup [kind : {"boot"}, lba : Nat]

\* A slot by its first byte: zeros throughout, a section header (0x90, or 0x91 for
\* the final one), an entry (0x88 or 0x00), an extension (0x44), anything else.
Slot ==
    [kind : {"zero", "extension", "other"}]
        \cup [kind : {"header"}, final : BOOLEAN, platform : Platform, count : Nat]
        \cup [kind : {"entry"}, bootable : BOOLEAN, media : BOOLEAN, sectors : Nat,
              lba : Nat]

ASSUME ConstantsAssumption ==
    /\ BlockBytes \in Nat \ {0} /\ FirstDescriptor \in Nat /\ Slots \in Nat \ {0}
    /\ LoadSectorBytes \in Nat \ {0}

ASSUME InputsAssumption ==
    \A i \in Inputs :
        /\ i.total_bytes \in Nat
        /\ i.max_descriptors \in Nat /\ i.max_catalog_entries \in Nat
        /\ i.descriptors \in Seq(Descriptor)
        /\ i.validated \in BOOLEAN /\ i.platform \in Platform
        /\ i.slots \in [1..Slots -> Slot]

VARIABLES
    input,       \* the call's arguments and the image, fixed
    phase,       \* "config", "descriptors", "catalog", "header", "entry", "returned"
    index,       \* the descriptor to read
    found,       \* the boot record's block, 0 for None
    cursor,      \* the slot to parse
    section,     \* the platform and the entries left of the section being parsed
    final,       \* the final section's header was seen
    entries,     \* the entries parsed
    result       \* "none", "absent", "ok" or "error"

scan == <<index, found>>
parse == <<cursor, section, final, entries>>
vars == <<input, phase, scan, parse, result>>

Zero == [kind |-> "zero"]

\* An entry of zeros neither boots nor loads.
Fields(slot) ==
    IF slot = Zero
    THEN [kind |-> "entry", bootable |-> FALSE, media |-> TRUE, sectors |-> 0, lba |-> 0]
    ELSE slot

Entry(platform, slot) ==
    [platform |-> platform, bootable |-> Fields(slot).bootable,
     load_bytes |-> Fields(slot).sectors * LoadSectorBytes,
     image_offset |-> Fields(slot).lba * BlockBytes]

ValidConfig ==
    /\ input.total_bytes >= (FirstDescriptor + 2) * BlockBytes
    /\ input.max_descriptors # 0
    /\ input.max_catalog_entries \in 1..Slots

\* require_span
Span(offset, length) == offset + length <= input.total_bytes

-----------------------------------------------------------------------------
Init ==
    /\ input \in Inputs
    /\ phase = "config"
    /\ index = 0
    /\ found = 0
    /\ cursor = 1
    /\ section = [platform |-> input.platform, left |-> 1]
    /\ final = FALSE
    /\ entries = <<>>
    /\ result = "none"

Return(r) == phase' = "returned" /\ result' = r

Start ==
    /\ phase = "config"
    /\ IF ValidConfig THEN phase' = "descriptors" /\ UNCHANGED result ELSE Return("error")
    /\ UNCHANGED <<input, scan, parse>>

\* Any read may fail, and a block outside the source is not read.
ReadFails ==
    /\ phase \in {"descriptors", "catalog"}
    /\ Return("error")
    /\ UNCHANGED <<input, scan, parse>>

Scanning == phase = "descriptors" /\ index < input.max_descriptors

Read ==
    IF index < Len(input.descriptors) THEN input.descriptors[index + 1]
    ELSE [kind |-> "invalid"]

\* Slip: a second boot record replaces the first.
SecondReplaces(lba) == lba # 0

\* A boot record points somewhere, and is the only one.
Acceptable(lba) == lba # 0 /\ found = 0

ReadDescriptor ==
    /\ Scanning
    /\ Span((FirstDescriptor + index) * BlockBytes, BlockBytes)
    /\ \/ /\ Read.kind = "boot" /\ Acceptable(Read.lba)
          /\ found' = Read.lba
          /\ index' = index + 1
          /\ UNCHANGED <<phase, result>>
       \/ /\ Read.kind = "other"
          /\ index' = index + 1
          /\ UNCHANGED <<phase, found, result>>
       \/ /\ Read.kind = "terminator"
          /\ IF found = 0 THEN Return("absent") ELSE phase' = "catalog" /\ UNCHANGED result
          /\ UNCHANGED scan
       \/ /\ \/ Read.kind = "invalid"
             \/ Read.kind = "boot" /\ ~Acceptable(Read.lba)
          /\ Return("error")
          /\ UNCHANGED scan
    /\ UNCHANGED <<input, parse>>

NoTerminator ==
    /\ phase = "descriptors"
    /\ index >= input.max_descriptors
    /\ Return("error")
    /\ UNCHANGED <<input, scan, parse>>

\* The catalog's block, and its validation entry: header, key bytes and checksum.
ReadCatalog ==
    /\ phase = "catalog"
    /\ Span(found * BlockBytes, BlockBytes)
    /\ IF input.validated THEN phase' = "entry" /\ UNCHANGED result ELSE Return("error")
    /\ UNCHANGED <<input, scan, parse>>

-----------------------------------------------------------------------------
(* parse_catalog: the default entry, then sections until only zeros are left. *)

OnlyZerosLeft == \A i \in cursor..Slots : input.slots[i] = Zero

EndOfCatalog ==
    /\ phase = "header"
    /\ OnlyZerosLeft
    /\ Return("ok")
    /\ UNCHANGED <<input, scan, parse>>

\* A section has entries, and all of them fit under the limit.
Fits(count) == count # 0 /\ Len(entries) + count <= input.max_catalog_entries

\* Slip: a section may follow the final one.
MayFollowFinal == TRUE

MayFollow == ~final

Header ==
    /\ phase = "header"
    /\ ~OnlyZerosLeft
    /\ LET slot == input.slots[cursor]
       IN  IF /\ Len(entries) < input.max_catalog_entries
              /\ slot.kind = "header"
              /\ MayFollow
              /\ Fits(slot.count)
           THEN /\ section' = [platform |-> slot.platform, left |-> slot.count]
                /\ final' = slot.final
                /\ cursor' = cursor + 1
                /\ phase' = "entry"
                /\ UNCHANGED result
           ELSE Return("error") /\ UNCHANGED <<cursor, section, final>>
    /\ UNCHANGED <<input, scan, entries>>

LoadsInside(entry) == Span(entry.image_offset, entry.load_bytes)

\* parse_boot_entry: what boots names an image, loads some of it, and stays inside.
Parses(slot) ==
    /\ slot.kind \in {"zero", "entry"}
    /\ Fields(slot).media
    /\ Fields(slot).bootable =>
           /\ slot.sectors # 0 /\ slot.lba # 0
           /\ LoadsInside(Entry(section.platform, slot))

\* One entry; a slot past the block's end is truncated.
BootEntry ==
    /\ phase = "entry"
    /\ IF cursor <= Slots /\ Parses(input.slots[cursor])
       THEN /\ entries' = Append(entries, Entry(section.platform, input.slots[cursor]))
            /\ section' = [section EXCEPT !.left = @ - 1]
            /\ cursor' = cursor + 1
            /\ phase' = IF section.left = 1 THEN "header" ELSE phase
            /\ UNCHANGED result
       ELSE Return("error") /\ UNCHANGED <<cursor, section, entries>>
    /\ UNCHANGED <<input, scan, final>>

Returned == phase = "returned" /\ UNCHANGED vars

Next ==
    \/ Start \/ ReadFails \/ ReadDescriptor \/ NoTerminator \/ ReadCatalog
    \/ EndOfCatalog \/ Header \/ BootEntry \/ Returned

Spec == Init /\ [][Next]_vars

-----------------------------------------------------------------------------
(* Properties.                                                             *)

\* Where the descriptor sequence ends, 0 for nowhere in reach.
Terminator ==
    LET ends == {i \in 1..Len(input.descriptors) :
                    input.descriptors[i].kind = "terminator"}
    IN  IF ends = {} THEN 0 ELSE CHOOSE i \in ends : \A j \in ends : i <= j

BootRecords ==
    {i \in 1..Terminator : input.descriptors[i].kind = "boot"}

\* The authority an installer is handed: a catalog is returned only from the one
\* boot record of a terminated sequence, "no catalog" only where that sequence has
\* no boot record, and a descriptor behind the terminator never counts.
OneAuthority ==
    /\ result \in {"ok", "absent"} =>
           Terminator \in 1..input.max_descriptors
    /\ result = "absent" => BootRecords = {}
    /\ result = "ok" =>
           \E i \in BootRecords :
               BootRecords = {i} /\ found = input.descriptors[i].lba /\ found # 0

(***************************************************************************)
(* The grammar of a catalog, without a cursor: the slots that are headers  *)
(* cut it into runs of entries, each as long as its header says.  Slot 0   *)
(* stands for the validation entry, which the default entry follows.       *)
(***************************************************************************)
\* The last slot of the part of the catalog that begins at slot h.
EndOf(h) == h + (IF h = 0 THEN 1 ELSE input.slots[h].count)

PlatformOf(h) == IF h = 0 THEN input.platform ELSE input.slots[h].platform

\* The catalog is made of the sections with headers at the slots of H: the last one
\* ends at slot last, and zeros follow it.
Sections(H, last) ==
    /\ last <= Slots
    /\ \A i \in last + 1..Slots : input.slots[i] = Zero
    /\ \A h \in H : input.slots[h].kind = "header" /\ input.slots[h].count # 0
    /\ \A h \in H \cup {0} :
          /\ \A i \in h + 1..EndOf(h) : input.slots[i].kind \in {"zero", "entry"}
          /\ IF \A g \in H : g <= h
             THEN EndOf(h) = last
             ELSE /\ EndOf(h) + 1 \in H
                  /\ h # 0 => ~input.slots[h].final

Before(H, i) == {h \in H : h < i}

\* The section of H that slot i lies in.
SectionOf(H, i) ==
    LET before == Before(H, i) \cup {0}
    IN  CHOOSE h \in before : \A g \in before : g <= h

\* Those headers aside, the slots up to last are the entries in their order, each
\* with the platform of its own section.
Lists(H, last) ==
    /\ Len(entries) = last - Cardinality(H)
    /\ \A i \in (1..last) \ H :
          entries[i - Cardinality(Before(H, i))]
              = Entry(PlatformOf(SectionOf(H, i)), input.slots[i])

\* A catalog that is accepted is well-formed as a whole, whatever the slots say
\* out of their place: one default entry, sections as long as their headers claim,
\* nothing but zeros behind a final one, and no entry under another section's
\* platform.  A final header is not required, by the code or here.
\* What boots loads from the source.  No more entries are kept than the caller
\* allowed, at any step.
CatalogIsTheBlock ==
    /\ Len(entries) <= input.max_catalog_entries
    /\ result = "ok" =>
        /\ \E H \in SUBSET (2..Slots), last \in 1..Slots : Sections(H, last) /\ Lists(H, last)
        /\ \A k \in 1..Len(entries) : entries[k].bootable =>
              /\ entries[k].load_bytes # 0
              /\ entries[k].image_offset + entries[k].load_bytes <= input.total_bytes
=============================================================================
