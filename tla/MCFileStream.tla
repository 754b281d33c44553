---------------------------- MODULE MCFileStream ----------------------------
(* Small entries for FileStream: sources of six bytes, chunks of two.      *)
EXTENDS FileStream

Pieces == [offset : {0, 4}, length : {0, 1, 3}, recorded : BOOLEAN]

IsoEntries ==
    {[format |-> "iso", directory |-> d, multi_extent |-> m, length |-> n,
      extents |-> <<[offset |-> o, length |-> n, recorded |-> TRUE]>>] :
        d \in BOOLEAN, m \in BOOLEAN, n \in 0..5, o \in {0, 2, 4}}

UdfEntries ==
    {[format |-> "udf", directory |-> FALSE, multi_extent |-> FALSE, length |-> n,
      extents |-> e] :
        n \in {0, 2, 5}, e \in {<<>>} \cup [1..1 -> Pieces] \cup [1..2 -> Pieces]}

MCCalls ==
    [entry : IsoEntries \cup UdfEntries, source_bytes : {6}, max_output_bytes : {4, 5}]
=============================================================================
