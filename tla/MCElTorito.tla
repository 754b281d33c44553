----------------------------- MODULE MCElTorito -----------------------------
(***************************************************************************)
(* Small boot catalogs for ElTorito: every block of five slots made of     *)
(* zeros, sound entries and headers, behind a sound descriptor sequence;   *)
(* every kind of entry as the default one and in a section; two sections   *)
(* of any two platforms; and every descriptor sequence of up to three in   *)
(* front of a sound block.                                                 *)
(***************************************************************************)
EXTENDS ElTorito

Boots(sectors, lba) ==
    [kind |-> "entry", bootable |-> TRUE, media |-> TRUE, sectors |-> sectors, lba |-> lba]

SectionOn(platform, last, count) ==
    [kind |-> "header", final |-> last, platform |-> platform, count |-> count]

Section(last, count) == SectionOn(2, last, count)

\* The source has 16 bytes: an image at block 3 may load four sectors of one byte.
SoundSlots ==
    {Zero, Boots(4, 3)} \cup {Section(last, count) : last \in BOOLEAN, count \in 1..2}

AnyEntry ==
    {[kind |-> "other"], [kind |-> "extension"], Boots(5, 3), Boots(0, 3), Boots(4, 0)}
        \cup [kind : {"entry"}, bootable : {FALSE}, media : BOOLEAN, sectors : {9}, lba : {9}]

Simple == <<Boots(4, 3), Zero, Zero, Zero, Zero>>

MCDescriptors ==
    {[kind |-> "invalid"], [kind |-> "other"], [kind |-> "terminator"],
     [kind |-> "boot", lba |-> 0], [kind |-> "boot", lba |-> 2],
     [kind |-> "boot", lba |-> 3], [kind |-> "boot", lba |-> 9]}

Sound == <<[kind |-> "boot", lba |-> 2], [kind |-> "terminator"]>>

Call(descriptors, slots, validated, limit, total) ==
    [descriptors |-> descriptors, slots |-> slots, validated |-> validated,
     platform |-> 1, total_bytes |-> total, max_descriptors |-> 3,
     max_catalog_entries |-> limit]

MCInputs ==
    {Call(Sound, slots, TRUE, limit, 16) :
        slots \in [1..5 -> SoundSlots], limit \in {2, 4}}
    \cup {Call(Sound, <<first, Section(FALSE, 1), second, Zero, Zero>>, TRUE, 4, 16) :
        first \in AnyEntry, second \in AnyEntry}
    \cup {Call(Sound, <<Zero, header, Zero, Zero, Zero>>, TRUE, limit, 16) :
        header \in AnyEntry \cup {Section(FALSE, 0)}, limit \in {0, 1, 5, 6}}
    \cup {Call(Sound, <<Boots(4, 3), SectionOn(p, FALSE, 1), Boots(4, 3),
                        SectionOn(q, last, 1), Boots(4, 3)>>, TRUE, 4, 16) :
        p \in 1..3, q \in 1..3, last \in BOOLEAN}
    \cup {Call(descriptors, Simple, validated, 4, total) :
        descriptors \in UNION {[1..n -> MCDescriptors] : n \in 0..3},
        validated \in BOOLEAN, total \in {11, 12, 16}}
=============================================================================
