------------------------------ MODULE MCLznt1 ------------------------------
(* Six-bit tokens over chunks of sixteen bytes: up to three literals, then  *)
(* two copies, in a first or a second chunk.                                *)
EXTENDS Lznt1

Literals(n) == [i \in 1..n |-> [kind |-> "literal", byte |-> i]]

Copy(displacement, length) ==
    [kind |-> "copy", displacement |-> displacement, length |-> length]

Copies ==
    {Copy(d, l) : d \in {1, 2, 3, 4, 5, 7, 9}, l \in {3, 4, 5, 6, 9, 18}}

Compressed(ops) == [form |-> "compressed", operations |-> ops]

Bodies ==
    {ops \in {Literals(n) \o <<c, d>> : n \in {1, 2, 3, 5}, c \in Copies, d \in Copies} :
        Encodable(ops)}

\* Chunks in which no copy stands at a power of two from 2^MinDisplacementBits on.
Regular ==
    {ops \in Bodies : \A i \in 1..Len(ops) : ~OnPower(ops, i)}

Raw(n) == [form |-> "raw", operations |-> Literals(n)]

Other(form) == [form |-> form, operations |-> <<>>]

Inputs1(bodies) ==
    {[chunks |-> <<Compressed(b)>>, output_limit |-> l] : b \in bodies, l \in {8, 32}}
    \cup {[chunks |-> <<Raw(7), Compressed(b), Other("end"), Other("end")>>, output_limit |-> 14] :
             b \in bodies}

MCInputs ==
    Inputs1(Regular)
    \cup {[chunks |-> <<Raw(n), Other(f), Raw(1)>>, output_limit |-> l] :
             n \in {3, 17}, f \in {"end", "header", "signature", "truncated"}, l \in {0, 2, 32}}
    \cup {[chunks |-> <<Compressed(Literals(n) \o <<[kind |-> "cut"]>>)>>,
           output_limit |-> l] : n \in {1, 16, 17}, l \in {4, 32}}

PowerInputs == Inputs1(Bodies)
=============================================================================
