------------------------------- MODULE Lznt1 -------------------------------
(***************************************************************************)
(* decompress_lznt1 of recovery/mft_lznt1.rs: chunks of literals and       *)
(* back-references, decoded one item at a time under a chunk limit and an  *)
(* output limit.                                                           *)
(*                                                                         *)
(* An input is what an encoder meant: per chunk, the operations of the     *)
(* LZNT1 format.  The decoder sees of a copy only its token, an integer in *)
(* which displacement and length share the bits according to the number of *)
(* bytes the chunk holds so far.  Flag bytes and chunk sizes only say      *)
(* where items begin, so a chunk is the sequence of its items.             *)
(***************************************************************************)
EXTENDS Integers, Sequences

CONSTANTS
    Inputs,
    TokenBits,            \* 16 in the code
    MinDisplacementBits,  \* 4 in the code
    ChunkBytes,           \* LZNT1_CHUNK_BYTES, 4096 in the code
    MinMatch              \* 3 in the code

\* 2^n, as the shifts of a token make it.
Power[n \in 0..TokenBits] == IF n = 0 THEN 1 ELSE 2 * Power[n - 1]

ASSUME TokenAssumption ==
    /\ TokenBits \in Nat /\ MinDisplacementBits \in 1..TokenBits
    /\ ChunkBytes \in Nat \ {0} /\ ChunkBytes < Power[TokenBits]
    /\ MinMatch \in Nat \ {0}

Byte == [kind : {"literal"}, byte : Nat]

\* "cut" is a match token of which a byte is missing.
Operation ==
    Byte \cup [kind : {"copy"}, displacement : Nat \ {0}, length : Nat \ {0}]
        \cup [kind : {"cut"}]

Chunk ==
    [form : {"compressed"}, operations : Seq(Operation)]
        \cup [form : {"raw"}, operations : Seq(Byte)]
        \cup [form : {"end", "header", "signature", "truncated"}, operations : {<<>>}]

(***************************************************************************)
(* The format: with "produced" bytes in the chunk, a displacement takes as *)
(* many bits as it takes to count them, and never less than the minimum.   *)
(***************************************************************************)
Length(op) ==
    IF op.kind = "copy" THEN op.length ELSE IF op.kind = "literal" THEN 1 ELSE 0

\* The bytes of the first operations, for each number of them.
Counts(ops) ==
    LET count[n \in 0..Len(ops)] == IF n = 0 THEN 0 ELSE count[n - 1] + Length(ops[n])
    IN  count

Produced(ops, i) == Counts(ops)[i - 1]

DisplacementBits(produced) ==
    CHOOSE bits \in MinDisplacementBits..TokenBits :
        /\ Power[bits] >= produced
        /\ bits = MinDisplacementBits \/ Power[bits - 1] < produced

Token(ops, i) ==
    (ops[i].displacement - 1) * Power[TokenBits - DisplacementBits(Produced(ops, i))]
        + ops[i].length - MinMatch

\* The token of every copy has room for its displacement and its length.
Encodable(ops) ==
    \A i \in 1..Len(ops) : ops[i].kind = "copy" =>
        LET bits == DisplacementBits(Produced(ops, i))
        IN  /\ Produced(ops, i) <= ChunkBytes
            /\ ops[i].displacement <= Power[bits]
            /\ ops[i].length - MinMatch \in 0..Power[TokenBits - bits] - 1

ASSUME StreamsAssumption ==
    /\ Inputs \subseteq [chunks : Seq(Chunk), output_limit : Nat]
    /\ \A i \in Inputs : \A c \in 1..Len(i.chunks) : Encodable(i.chunks[c].operations)

\* A copy begins where the chunk holds a power of two bytes, that of the first split or
\* a later one.
OnPower(ops, i) ==
    /\ ops[i].kind = "copy"
    /\ \E n \in MinDisplacementBits..TokenBits : Produced(ops, i) = Power[n]

\* What the operations of a chunk stand for: a copy repeats the last bytes.
ExpandOne(plain, op) ==
    IF op.kind = "copy"
    THEN plain \o [i \in 1..op.length |->
                      plain[Len(plain) - op.displacement + 1 + ((i - 1) % op.displacement)]]
    ELSE IF op.kind = "literal" THEN Append(plain, op.byte) ELSE plain

\* The bytes the first operations stand for, for each number of them.
Expanded(ops) ==
    LET plain[n \in 0..Len(ops)] == IF n = 0 THEN <<>> ELSE ExpandOne(plain[n - 1], ops[n])
    IN  plain

ExpandChunk(plain, ops) == plain \o Expanded(ops)[Len(ops)]

\* The bytes of the first chunks, and how many they are.
Joined(chunks) ==
    LET plain[n \in 0..Len(chunks)] ==
            IF n = 0 THEN <<>> ELSE ExpandChunk(plain[n - 1], chunks[n].operations)
    IN  plain

JoinedLengths(chunks) ==
    LET count[n \in 0..Len(chunks)] ==
            IF n = 0 THEN 0
            ELSE LET ops == chunks[n].operations
                 IN  count[n - 1] + Counts(ops)[Len(ops)]
    IN  count

-----------------------------------------------------------------------------
VARIABLES
    input,     \* the chunks and the output limit, fixed
    chunk,     \* the chunk being decoded
    item,      \* the next item of it
    start,     \* how much output there was when it began
    output,    \* the bytes produced
    outcome    \* "none", "ok", or the error

state == <<input, chunk, item, start, output, outcome>>

DecodeInit ==
    /\ input \in Inputs
    /\ chunk = 1
    /\ item = 1
    /\ start = 0
    /\ output = <<>>
    /\ outcome = IF input.output_limit = 0 THEN "invalid limit" ELSE "none"

Running == outcome = "none"

Here == input.chunks[chunk]

AtChunk == Running /\ chunk <= Len(input.chunks) /\ item = 1 /\ start = Len(output)

Refuse(why) == outcome' = why /\ UNCHANGED <<chunk, item, start, output>>

NextChunk(bytes) ==
    /\ output' = output \o bytes
    /\ start' = Len(output')
    /\ chunk' = chunk + 1
    /\ item' = 1
    /\ UNCHANGED outcome

EndOfInput ==
    /\ Running
    /\ chunk > Len(input.chunks)
    /\ outcome' = "ok"
    /\ UNCHANGED <<input, chunk, item, start, output>>

\* A zero header ends the stream; only zeros, which look like more such headers, may
\* follow it.
EndMarker ==
    /\ AtChunk
    /\ Here.form = "end"
    /\ Refuse(IF \A c \in chunk + 1..Len(input.chunks) : input.chunks[c].form = "end"
              THEN "ok" ELSE "data after end")
    /\ UNCHANGED input

BadChunk ==
    /\ AtChunk
    /\ Here.form \in {"header", "signature", "truncated"}
    /\ Refuse(Here.form)
    /\ UNCHANGED input

Room == input.output_limit - Len(output)

RawChunk ==
    /\ AtChunk
    /\ Here.form = "raw"
    /\ LET count == Len(Here.operations)
       IN  IF count > ChunkBytes THEN Refuse("chunk limit")
           ELSE IF count > Room THEN Refuse("output limit")
           ELSE NextChunk([i \in 1..count |-> Here.operations[i].byte])
    /\ UNCHANGED input

AtItem ==
    /\ Running
    /\ chunk <= Len(input.chunks)
    /\ Here.form = "compressed"
    /\ item <= Len(Here.operations)

InChunk == Len(output) - start

Produce(bytes) ==
    /\ output' = output \o bytes
    /\ item' = item + 1
    /\ UNCHANGED <<chunk, start, outcome>>

\* append_one
Literal ==
    /\ AtItem
    /\ Here.operations[item].kind = "literal"
    /\ IF InChunk = ChunkBytes THEN Refuse("chunk limit")
       ELSE IF Len(output) = input.output_limit THEN Refuse("output limit")
       ELSE Produce(<<Here.operations[item].byte>>)
    /\ UNCHANGED input

\* decode_match: a bit moves from the length to the displacement for every halving
\* that leaves the position at 2^MinDisplacementBits or more.
SplitBits(produced) ==
    LET bits[position \in 0..ChunkBytes] ==
            IF position < Power[MinDisplacementBits] THEN MinDisplacementBits
            ELSE bits[position \div 2] + 1
    IN  bits[produced]

Displacement(token, produced) == (token \div Power[TokenBits - SplitBits(produced)]) + 1

\* Slip: the length keeps all the bits it has at the start of a chunk.
WideMatchLength(token, produced) ==
    (token % Power[TokenBits - MinDisplacementBits]) + MinMatch

MatchLength(token, produced) == (token % Power[TokenBits - SplitBits(produced)]) + MinMatch

\* Slip: the bytes are taken once, before any is appended.
CopiedOnce(displacement, length) ==
    [i \in 1..length |->
        IF i <= displacement THEN output[Len(output) - displacement + i] ELSE 0]

\* Byte by byte, so that a copy longer than its displacement repeats itself.
Copied(displacement, length) ==
    LET byte[i \in 1..length] ==
            IF i <= displacement THEN output[Len(output) - displacement + i]
            ELSE byte[i - displacement]
    IN  [i \in 1..length |-> byte[i]]

\* Slip: the output limit is compared with the chunk's bytes.
FitsChunk(length) == length <= input.output_limit - InChunk

Fits(length) == length <= Room

Match ==
    /\ AtItem
    /\ Here.operations[item].kind = "copy"
    /\ LET token == Token(Here.operations, item)
           displacement == Displacement(token, InChunk)
           length == MatchLength(token, InChunk)
       IN  IF displacement > InChunk THEN Refuse("displacement")
           ELSE IF length > ChunkBytes - InChunk THEN Refuse("chunk limit")
           ELSE IF ~Fits(length) THEN Refuse("output limit")
           ELSE Produce(Copied(displacement, length))
    /\ UNCHANGED input

CutMatch ==
    /\ AtItem
    /\ Here.operations[item].kind = "cut"
    /\ Refuse("cut")
    /\ UNCHANGED input

EndOfChunk ==
    /\ Running
    /\ chunk <= Len(input.chunks)
    /\ Here.form = "compressed"
    /\ item > Len(Here.operations)
    /\ NextChunk(<<>>)
    /\ UNCHANGED input

Stopped == ~Running /\ UNCHANGED state

DecodeNext ==
    \/ EndOfInput \/ EndMarker \/ BadChunk \/ RawChunk \/ Literal \/ Match
    \/ CutMatch \/ EndOfChunk \/ Stopped

DecodeSpec == DecodeInit /\ [][DecodeNext]_state

-----------------------------------------------------------------------------
(* Properties.                                                             *)

\* The state's types, and the two limits: a chunk never decodes to more than
\* ChunkBytes, nor the stream to more than its limit, at any step.
TypeOK ==
    /\ chunk \in 1..Len(input.chunks) + 1
    /\ item \in Nat \ {0}
    /\ start \in 0..Len(output)
    /\ output \in Seq(Nat)
    /\ InChunk <= ChunkBytes
    /\ Len(output) <= input.output_limit

\* A stream that is accepted decodes to what its encoder compressed.
DecodesExactly == outcome = "ok" => output = Joined(input.chunks)[Len(input.chunks)]

\* A copy that the encoder could make is never refused for its displacement, and a
\* limit is only reported where the decoded stream would pass it.
RefusalsJustified ==
    LET c == input.chunks[chunk]
        before == Produced(c.operations, item)
    IN  /\ outcome = "displacement" => c.operations[item].displacement > before
        /\ outcome = "chunk limit" =>
              Counts(c.operations)[Len(c.operations)] > ChunkBytes
        /\ outcome = "output limit" =>
              JoinedLengths(input.chunks)[chunk] > input.output_limit

\* The limits are exact: both hold at every step, and neither stops a stream that
\* stays within it.
LimitsExact == TypeOK /\ RefusalsJustified
=============================================================================
