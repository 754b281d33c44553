---------------------------- MODULE MCIsoCatalog ----------------------------
(* Small images and configurations for IsoCatalog.                         *)
EXTENDS IsoCatalog, TLC

MCName == {"a", "b", "c"}

\* Cells are counted in half blocks; a sector of the descriptor area is one.
BlockBytes == 2

RootExtent == [offset |-> 4, length |-> 4]
SubExtent == [offset |-> 8, length |-> 2]
HalfExtent == [offset |-> 8, length |-> 1]   \* shares its offset with SubExtent
DeepExtent == [offset |-> 6, length |-> 2]   \* named by HalfExtent's directory
LargeExtent == [offset |-> 2, length |-> 5]  \* over the directory limit

Record(name, form, size, block, length, dir) ==
    [form |-> form, size |-> size, name |-> name, block |-> block,
     length |-> length, directory |-> dir]

Zero == Record("a", "zero", 1, 0, 0, FALSE)
File(name) == Record(name, "ok", 1, 4, 2, FALSE)
Subdirectory(name, e) ==
    Record(name, "ok", 1, e.offset \div BlockBytes, e.length, TRUE)

Entries(name) ==
    {File(name),
     Subdirectory(name, RootExtent),
     Subdirectory(name, SubExtent),
     Subdirectory(name, HalfExtent)}

Alphabet(name) ==
    Entries(name) \cup
    {Subdirectory(name, LargeExtent),
     Record(name, "ok", 1, 5, 3, TRUE),              \* past the volume
     Record(name, "interleaved", 1, 4, 2, FALSE),
     Record(name, "self", 1, 2, 4, TRUE),
     Record(name, "short", 1, 0, 0, FALSE),
     Record(name, "ok", 2, 4, 2, FALSE)}

SubContents ==
    {<<File("a"), Zero>>,
     <<Subdirectory("a", RootExtent), Subdirectory("b", SubExtent)>>,
     <<Subdirectory("a", HalfExtent), File("b")>>,
     <<File("a"), Record("b", "ok", 2, 4, 2, FALSE)>>,
     <<Record("a", "name", 1, 4, 2, FALSE), Record("b", "name", 1, 4, 2, FALSE)>>}

HalfContents == {<<File("c")>>, <<Subdirectory("c", DeepExtent)>>}

Directories(root, sub, half) ==
    (RootExtent :> root) @@ (SubExtent :> sub) @@ (HalfExtent :> half)
        @@ (DeepExtent :> <<File("a"), File("b")>>)
        @@ (LargeExtent :> <<File("a"), Zero, File("b"), File("c"), Zero>>)

\* The record at the start of each root block, and the cell after it.
Trees ==
    {Directories(<<x, Zero, y, Zero>>, sub, half) :
        x \in Alphabet("a"), y \in Entries("b"),
        sub \in SubContents, half \in HalfContents}

OneTree ==
    Directories(<<File("a"), Zero, Subdirectory("b", SubExtent), Zero>>,
                <<File("a"), Zero>>, <<File("c")>>)

\* A root whose second block starts with padding.
PaddedTree ==
    Directories(<<File("a"), Zero, Zero, Zero>>, <<File("a"), Zero>>, <<File("c")>>)

Volume1(kind, root) ==
    [kind |-> kind, valid |-> TRUE, sane |-> TRUE, block_bytes |-> BlockBytes,
     volume_bytes |-> 10, root |-> root, root_is_directory |-> TRUE]

Primary == Volume1("primary", RootExtent)
Joliet == Volume1("joliet", SubExtent)
Other == Volume1("other", RootExtent)
Terminator == Volume1("terminator", RootExtent)

\* Descriptor sequences: usual, with Joliet, and each way of being refused.
Sequences1 ==
    {<<Primary, Terminator>>,
     <<Primary, Joliet, Terminator>>,
     <<Joliet, Other, Primary, Terminator>>,
     <<Primary, Terminator, Joliet, Terminator>>,
     <<Volume1("joliet", RootExtent), Joliet, Primary, Terminator>>,
     <<Primary, Volume1("primary", SubExtent), Terminator>>,
     <<Joliet, Terminator>>,
     <<Primary>>,
     <<Other, Other, Other, Other>>,
     <<[Primary EXCEPT !.valid = FALSE]>>,
     <<[Primary EXCEPT !.sane = FALSE]>>,
     <<[Primary EXCEPT !.volume_bytes = 13]>>,
     <<[Primary EXCEPT !.root.length = 7]>>,
     <<[Primary EXCEPT !.root.offset = 10], Terminator>>,
     <<[Primary EXCEPT !.root_is_directory = FALSE]>>,
     <<[Primary EXCEPT !.root.length = 5], Terminator>>}

Wide == [total_bytes |-> 12, max_descriptors |-> 4, max_directories |-> 4,
         max_entries |-> 9, max_depth |-> 3, max_directory_bytes |-> 4]

Configs ==
    {Wide, [Wide EXCEPT !.max_entries = 3], [Wide EXCEPT !.max_directories = 2],
     [Wide EXCEPT !.max_depth = 1]}

Walks ==
    {[config |-> c, image |-> [descriptors |-> <<Primary, Terminator>>, directories |-> t]] :
        c \in Configs, t \in Trees}

Scans ==
    {[config |-> c, image |-> [descriptors |-> s, directories |-> OneTree]] :
        c \in {Wide, [Wide EXCEPT !.total_bytes = 4], [Wide EXCEPT !.total_bytes = 2]},
        s \in Sequences1}

\* Images in which no directory block starts with padding.
MCInputs == Walks \cup Scans

PaddedInputs ==
    {[config |-> Wide,
      image |-> [descriptors |-> s, directories |-> PaddedTree]] : s \in Sequences1}
=============================================================================
