---------------------------- MODULE MCUdfCatalog ----------------------------
(* Small images and configurations for UdfCatalog.                         *)
EXTENDS UdfCatalog, TLC

MCName == {"a", "b", "c"}

\* ICBs: two maps, and a block number used in both.
Root == <<0, 1>>
Sub == <<1, 1>>     \* the root's block, in the metadata partition
Deep == <<0, 2>>
Large == <<0, 3>>
File == <<0, 4>>
Absent == <<0, 5>>
Elsewhere == <<2, 1>>
Leaf == <<0, 6>>

R(form, name, icb) == [form |-> form, name |-> name, icb |-> icb]

FE(dir, length, records, tail) ==
    [directory |-> dir, length |-> length, records |-> records, tail |-> tail]

Links(name) == {R("ok", name, icb) : icb \in {Root, Sub, Deep, File}}

Others(name) ==
    {R("ok", name, icb) : icb \in {Large, Absent, Elsewhere}}
    \cup {R(form, name, File) : form \in {"truncated", "tag", "skipped", "name"}}

\* Every pair of records in the root, a few directories below it.
Trees ==
    {(Root :> FE(TRUE, 2, <<x, y>>, "none"))
        @@ (Sub :> FE(TRUE, 2, <<s, R("ok", "b", File)>>, tail))
        @@ (Deep :> FE(TRUE, 1, <<R("ok", "c", d)>>, "zero"))
        @@ (Large :> FE(TRUE, 9, <<R("ok", "a", File)>>, "none"))
        @@ (Leaf :> FE(TRUE, 1, <<R("ok", "b", File)>>, "none"))
        @@ (File :> FE(FALSE, 1, <<>>, "none")) :
        x \in Links("a") \cup Others("a"), y \in Links("b"),
        s \in Links("a"), d \in {Root, Leaf}, tail \in {"none", "nonzero"}}

OneTree ==
    (Root :> FE(TRUE, 1, <<R("ok", "a", File)>>, "none"))
        @@ (File :> FE(FALSE, 1, <<>>, "none"))

V(tag, sequence, number) ==
    [tag |-> tag, valid |-> TRUE, sequence |-> sequence, number |-> number,
     inside |-> TRUE, sane |-> TRUE, maps |-> 2, root |-> Root]

Usual == <<V(5, 1, 7), V(6, 1, 7), V(8, 0, 0)>>

Anchors == (2 :> "primary") @@ (5 :> "agrees")

Extent(sectors) == [offset |-> 2, length |-> 2 * sectors]

Good ==
    [recognition |-> <<"BEA", "NSR", "TEA">>, anchors |-> Anchors,
     descriptor_extent |-> Extent(3), descriptors |-> Usual, entries |-> OneTree]

Wide == [total_bytes |-> 12, max_directories |-> 4, max_entries |-> 9,
         max_depth |-> 3, max_directory_bytes |-> 4]

Walks ==
    {[config |-> c, image |-> [Good EXCEPT !.entries = t]] :
        c \in {Wide, [Wide EXCEPT !.max_entries = 3], [Wide EXCEPT !.max_directories = 2],
               [Wide EXCEPT !.max_depth = 1]},
        t \in Trees}

Recognitions ==
    [1..4 -> {"BEA", "NSR", "TEA", "other"}]

AnchorsOf(sectors) ==
    {(2 :> "primary") @@ (s :> a) : s \in 0..sectors - 1, a \in {"agrees", "differs"}}
    \cup {(s :> "primary") : s \in {1, 2}}

\* Two partition and two logical volume descriptors in every order.
DescriptorSequences ==
    {<<a, b, c, V(8, 0, 0), d>> :
        a \in {V(5, 1, 7), V(6, 1, 7), V(6, 2, 8)}, b \in {V(5, 1, 8), V(5, 2, 7)},
        c \in {V(6, 1, 8), V(6, 2, 7), V(1, 1, 7)},
        d \in {V(5, 3, 9), V(6, 3, 9)}}
    \cup {<<V(5, 1, 7), V(6, 1, 7)>>, <<V(5, 1, 7), V(8, 0, 0)>>, <<V(6, 1, 7), V(8, 0, 0)>>,
          <<[V(5, 1, 7) EXCEPT !.valid = FALSE], V(6, 1, 7), V(8, 0, 0)>>,
          <<[V(5, 1, 7) EXCEPT !.inside = FALSE], V(6, 1, 7), V(8, 0, 0)>>,
          <<V(5, 1, 7), [V(6, 1, 7) EXCEPT !.maps = 0], V(8, 0, 0)>>,
          <<V(5, 1, 7), [V(6, 1, 7) EXCEPT !.maps = 1, !.root = Sub], V(8, 0, 0)>>,
          <<V(5, 1, 7), [V(6, 1, 7) EXCEPT !.sane = FALSE], V(8, 0, 0)>>}

Scans ==
    {[config |-> Wide, image |-> [Good EXCEPT !.recognition = r]] : r \in Recognitions}
    \cup UNION {{[config |-> [Wide EXCEPT !.total_bytes = 2 * n],
                  image |-> [Good EXCEPT !.anchors = a, !.descriptor_extent.offset = 0]] :
                     a \in AnchorsOf(n)} : n \in 2..6}
    \cup {[config |-> [Wide EXCEPT !.total_bytes = 14],
           image |-> [Good EXCEPT !.anchors = (2 :> "primary") @@ (6 :> "agrees"),
                                  !.descriptors = d, !.descriptor_extent = Extent(n)]] :
              d \in DescriptorSequences, n \in 2..5}
    \cup {[config |-> Wide, image |-> [Good EXCEPT !.descriptor_extent.length = n]] :
              n \in {0, 3, 12, 14}}

MCInputs == Walks \cup Scans
=============================================================================
