----------------------------- MODULE MCUdfBody -----------------------------
(***************************************************************************)
(* A source of five two-byte sectors with a three-sector partition at      *)
(* sector 1.  The metadata file is in one or two pieces, in order or not,  *)
(* contiguous or not, with its copy elsewhere or shared.  The entries have *)
(* up to two runs, of no, one, two or three bytes, which may start inside  *)
(* a sector, cross a piece of the metadata file, or leave the partition.   *)
(***************************************************************************)
EXTENDS UdfFile

D(reference, offset, length, type) ==
    [reference |-> reference, offset |-> offset, length |-> length, type |-> type]

E(descriptors, length) == [descriptors |-> descriptors, information_length |-> length]

Map(main, mirror, alignment, duplicate) ==
    [main |-> main, mirror |-> mirror, bare |-> TRUE, allocation_blocks |-> 1,
     alignment_blocks |-> alignment, duplicate |-> duplicate]

Straight == E(<<D(0, 0, 4, 0)>>, 4)
Swapped == E(<<D(0, 4, 2, 0), D(0, 0, 2, 0)>>, 4)
Sparse == E(<<D(0, 2, 2, 0), D(0, 0, 2, 2)>>, 4)
Longer == E(<<D(0, 0, 4, 0)>>, 2)
Reserved == E(<<D(0, 0, 2, 0), D(0, 2, 2, 1)>>, 4)

MCMaps ==
    {<<>>} \cup
    {<<Map(m, c, 1, m # c)>> : m \in {Swapped, Sparse, Longer}, c \in {Straight, Swapped, Longer}}
    \cup {<<Map(Straight, Swapped, 2, TRUE)>>, <<Map(Swapped, Swapped, 2, FALSE)>>,
          <<Map(Straight, Straight, 1, TRUE)>>, <<Map(Reserved, Straight, 1, TRUE)>>,
          <<[Map(Straight, Swapped, 1, TRUE) EXCEPT !.bare = FALSE]>>}

MCRuns ==
    {D(r, o, l, 0) : r \in 0..1, o \in {0, 1, 4}, l \in {0, 1, 3}}
    \cup {D(1, 2, 2, 2), D(0, 2, 3, 1), D(0, 0, 2, 3)}

MCEntries ==
    {E(<<d>>, n) : d \in MCRuns, n \in {0, 2, 3}}
    \cup {E(<<D(r, 1, 2, 0), d>>, 4) : r \in 0..1, d \in MCRuns}
    \cup {E(<<d, D(1, 0, 4, 0)>>, 4) : d \in MCRuns}

MCInputs ==
    {[start_sector |-> 1, sectors |-> 3, total_bytes |-> 10, maps |-> m, entry |-> e] :
        m \in MCMaps, e \in MCEntries}
=============================================================================
