----------------------------- MODULE MCFunctions -----------------------------
(***************************************************************************)
(* Sizes are in numbers of four bits and integers of eight, with 4 for     *)
(* 1024; executables have their real field sizes.                          *)
(***************************************************************************)
EXTENDS PureFunctions

MCSizes ==
    [word : {"size"}, sign : {"", "+", "-"}, numerator : 0..40,
     denominator : {0, 1, 2, 10}, unit : Units, sector_size : {0, 3}]
    \cup [word : {"", "max"}, sign : {"", "+", "-"}, numerator : {1}, denominator : {1},
          unit : {""}, sector_size : {1}]

Currents == {-MaxBytes - 1, -1, 0, 50, MaxBytes}

Overlap(s, t) ==
    /\ s # t
    /\ Place(s).offset < SignatureEnd(t)
    /\ Place(t).offset < SignatureEnd(s)

MCPartitions ==
    {p \in [signatures : {s \in SUBSET {Order[i] : i \in 1..Len(Order)} :
                             \A a, b \in s : ~Overlap(a, b)},
            flags : SUBSET {"compat", "incompat", "ro_compat"}] :
        p.flags # {} => "Ext" \in p.signatures}

\* Just before and at the end of each signature and flag, and around the probe's.
Cuts ==
    UNION {{n - 1, n} : n \in {SignatureEnd(Order[i]) : i \in 1..Len(Order)}
                              \cup {FlagEnd(f) : f \in {"compat", "incompat", "ro_compat"}}
                              \cup {1, ProbeBytes + 1}}

MCRuns == [offset : {0, 300}, size : {0, 20}]

MCImages ==
    [mz : {TRUE}, pe_offset : {64}, pe : {TRUE}, machine : {X64}, optional_size : {96, 135, 136, 152},
     magic : {"pe32", "pe32+"}, subsystem : {2, Console}, headers : {0, 310},
     sections : [1..1 -> MCRuns] \cup [1..2 -> MCRuns],
     certificate : [offset : {315}, size : {0, 4, 40}]]
    \cup
    [mz : BOOLEAN, pe_offset : {64}, pe : BOOLEAN, machine : {0, X64}, optional_size : {112},
     magic : {"pe32", "pe32+", "other"}, subsystem : {Console}, headers : {0},
     sections : {<<>>} \cup [1..2 -> {[offset |-> 300, size |-> 20]}]
                \cup [1..3 -> {[offset |-> 300, size |-> 20]}],
     certificate : {[offset |-> 0, size |-> 0]}]

MCSizeQuestions == [about : {"size"}, text : MCSizes, current : Currents]

MCTypeQuestions ==
    [about : {"type"}, filesystem : Filesystem,
     end_offset : {ChsLimit - 1, ChsLimit, ChsLimit + 1},
     length : {SmallBytes - 1, SmallBytes, SmallBytes + 1}]

MCProbeQuestions == [about : {"probe"}, partition : MCPartitions, cut : Cuts]

MCExtentQuestions ==
    [about : {"extent"}, image : MCImages, length : {64, 320, 360}, maximum_sections : {2}]

MCPageQuestions ==
    [about : {"page"}, policy : [maximum : {0, 2, 3}, allow_zero : BOOLEAN], start : 0..4,
     requested : 0..4, returned : 0..3, total : 0..4, actual : 0..3]
=============================================================================
