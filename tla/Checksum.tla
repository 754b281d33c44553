------------------------------ MODULE Checksum ------------------------------
(***************************************************************************)
(* ExpectedChecksum::parse and calculate_checksums of                      *)
(* boot_media/checksum.rs: one pass over a reader, in blocks, that feeds   *)
(* four digests and compares one of them with what the caller expects.     *)
(*                                                                         *)
(* The reader may return less than a block, may be interrupted any number  *)
(* of times, and may fail; the caller may ask for cancellation at any      *)
(* moment, and never takes that back.                                      *)
(*                                                                         *)
(* A digest is told apart by its algorithm and by the bytes it is of, so   *)
(* no two files share one.                                                 *)
(***************************************************************************)
EXTENDS Integers, Sequences

CONSTANTS
    Byte,
    Sources,         \* the contents the reader may have
    Texts,           \* the expected checksums a caller may write, None for none
    BlockSizes,      \* the block_bytes a caller may configure
    MaxBlockBytes,   \* MAX_BLOCK_BYTES, 64 MiB in the code
    None

HexLength == [md5 |-> 32, sha1 |-> 40, sha256 |-> 64, sha512 |-> 128]

Algorithm == DOMAIN HexLength

\* What a caller writes: the name before the colon ("" for no colon), and the
\* hexadecimal digest of some bytes, perhaps in capitals, perhaps damaged.
Text ==
    [prefix : Algorithm \cup {"", "other"}, of : Algorithm, bytes : Seq(Byte),
     capitals : BOOLEAN, damage : {"none", "length", "digit"}]

\* An ExpectedChecksum: the algorithm, and the digest as it is written.
Expected ==
    [algorithm : Algorithm,
     hexadecimal : [of : Algorithm, bytes : Seq(Byte), capitals : BOOLEAN]]

ASSUME ConstantsAssumption ==
    /\ Sources \subseteq Seq(Byte)
    /\ Texts \subseteq Text \cup {None}
    /\ None \notin Text /\ None \notin Expected
    /\ BlockSizes \subseteq Nat
    /\ MaxBlockBytes \in Nat \ {0}

VARIABLES
    source, text, block_bytes,   \* the reader and the caller's arguments, fixed
    cancel,      \* the caller has asked for cancellation
    phase,       \* "parse", "config", "poll", "read", "returned"
    expected,    \* the ExpectedChecksum, or None
    position,    \* how far the reader is
    digested,    \* the bytes the digests have been fed
    bytes_read,
    result,      \* "none", "invalid", "failed", "cancelled" or "complete"
    comparison   \* the ChecksumComparison of a complete report, or None

call == <<source, text, block_bytes>>

vars == <<call, cancel, phase, expected, position, digested, bytes_read, result,
          comparison>>

Least(a, b) == IF a <= b THEN a ELSE b

-----------------------------------------------------------------------------
Init ==
    /\ source \in Sources
    /\ text \in Texts
    /\ block_bytes \in BlockSizes
    /\ cancel \in BOOLEAN
    /\ phase = "parse"
    /\ expected = None
    /\ position = 0
    /\ digested = <<>>
    /\ bytes_read = 0
    /\ result = "none"
    /\ comparison = None

Return(r) == phase' = "returned" /\ result' = r

(***************************************************************************)
(* ExpectedChecksum::parse.                                                *)
(***************************************************************************)
TextLength == HexLength[text.of] + (IF text.damage = "length" THEN 1 ELSE 0)

\* parse_algorithm, or algorithm_for_hex_length where there is no prefix.
Candidates ==
    IF text.prefix = "" THEN {a \in Algorithm : HexLength[a] = TextLength}
    ELSE {text.prefix} \cap Algorithm

Accepts(algorithm) == TextLength = HexLength[algorithm] /\ text.damage # "digit"

\* Slip: the digest is kept as it was written.
AsWritten(capitals) == capitals

\* to_ascii_lowercase
Lowered(capitals) == FALSE

\* The hexadecimal digits of a digest: what is digested, and how it is written.
Digest(algorithm, bytes, capitals) ==
    [of |-> algorithm, bytes |-> bytes, capitals |-> capitals]

Parse ==
    /\ phase = "parse"
    /\ IF text = None THEN phase' = "config" /\ UNCHANGED <<expected, result>>
       ELSE \/ \E algorithm \in Candidates :
                  /\ Accepts(algorithm)
                  /\ expected' = [algorithm |-> algorithm,
                                  hexadecimal |-> Digest(text.of, text.bytes,
                                                         Lowered(text.capitals))]
                  /\ phase' = "config"
                  /\ UNCHANGED result
            \/ /\ \A algorithm \in Candidates : ~Accepts(algorithm)
               /\ Return("invalid")
               /\ UNCHANGED expected
    /\ UNCHANGED <<call, cancel, position, digested, bytes_read, comparison>>

(***************************************************************************)
(* calculate_checksums.                                                    *)
(***************************************************************************)
ValidConfig == block_bytes \in 1..MaxBlockBytes

CheckConfig ==
    /\ phase = "config"
    /\ IF ValidConfig THEN phase' = "poll" /\ UNCHANGED result ELSE Return("invalid")
    /\ UNCHANGED <<call, cancel, expected, position, digested, bytes_read, comparison>>

\* The environment: the caller asks for cancellation.
RequestCancel ==
    /\ phase # "returned"
    /\ ~cancel
    /\ cancel' = TRUE
    /\ UNCHANGED <<call, phase, expected, position, digested, bytes_read, result,
                   comparison>>

\* Slip: cancellation is asked about once, before anything is read.
CancelledAtFirst == cancel /\ bytes_read = 0

Cancelled == cancel

Poll ==
    /\ phase = "poll"
    /\ IF Cancelled THEN Return("cancelled") ELSE phase' = "read" /\ UNCHANGED result
    /\ UNCHANGED <<call, cancel, expected, position, digested, bytes_read, comparison>>

\* An interrupted read has taken nothing; the loop starts over.
Interrupted ==
    /\ phase = "read"
    /\ phase' = "poll"
    /\ UNCHANGED <<call, cancel, expected, position, digested, bytes_read, result,
                   comparison>>

ReadFails ==
    /\ phase = "read"
    /\ Return("failed")
    /\ UNCHANGED <<call, cancel, expected, position, digested, bytes_read, comparison>>

\* Slip: the whole buffer is digested, whatever part of it was filled.
WholeBuffer(n) == SubSeq(source, position + 1, Least(position + block_bytes, Len(source)))

Block(n) == SubSeq(source, position + 1, position + n)

\* The reader fills n bytes of the buffer; they are digested and counted.
ReadBlock ==
    /\ phase = "read"
    /\ \E n \in 1..Least(block_bytes, Len(source) - position) :
          /\ position' = position + n
          /\ digested' = digested \o Block(n)
          /\ bytes_read' = bytes_read + n
    /\ phase' = "poll"
    /\ UNCHANGED <<call, cancel, expected, result, comparison>>

\* The reader is at its end: the digests are final and one is compared.
Finish ==
    /\ phase = "read"
    /\ position = Len(source)
    /\ comparison' =
          IF expected = None THEN None
          ELSE [algorithm |-> expected.algorithm,
                matches |-> Digest(expected.algorithm, digested, FALSE)
                            = expected.hexadecimal]
    /\ Return("complete")
    /\ UNCHANGED <<call, cancel, expected, position, digested, bytes_read>>

Returned == phase = "returned" /\ UNCHANGED vars

Step ==
    \/ Parse \/ CheckConfig \/ Poll \/ Interrupted \/ ReadFails \/ ReadBlock \/ Finish

Next == Step \/ RequestCancel \/ Returned

Spec == Init /\ [][Next]_vars

\* The thread that runs the call goes on; nothing obliges the caller to cancel, or
\* the reader to stop being interrupted.
FairSpec == Spec /\ WF_vars(Step)

-----------------------------------------------------------------------------
(* Properties.                                                             *)

\* The state's types; a report and a read error count exactly the bytes digested.
TypeOK ==
    /\ source \in Sources /\ text \in Texts /\ block_bytes \in BlockSizes
    /\ cancel \in BOOLEAN
    /\ phase \in {"parse", "config", "poll", "read", "returned"}
    /\ expected \in Expected \cup {None}
    /\ position \in 0..Len(source)
    /\ digested \in Seq(Byte)
    /\ bytes_read = Len(digested)
    /\ result \in {"none", "invalid", "failed", "cancelled", "complete"}
    /\ (result = "none") <=> (phase # "returned")

Outcome ==
    IF result = "none" THEN "running"
    ELSE IF result \in {"invalid", "failed"} THEN "failed"
    ELSE result

Copy ==
    INSTANCE BoundedCopy WITH
        content <- source, sink <- digested, outcome <- Outcome

\* However short or interrupted the reads, the digests are of a prefix of the
\* source, each byte once and in order, and of all of it in a complete report.
ImplementsBoundedCopy == Copy!Spec

\* A complete report confirms what the caller wrote if and only if that is a digest
\* of the source, however it was written; no other outcome confirms anything.
VerdictIsTheFile ==
    /\ result # "complete" => comparison = None
    /\ result = "complete" /\ text # None =>
           (comparison.matches <=> text.bytes = source)

\* Once the caller has asked for cancellation the call returns, even if every read
\* from then on is interrupted.
CancelReturns == cancel ~> (phase = "returned")
=============================================================================
