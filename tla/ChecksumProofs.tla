--------------------------- MODULE ChecksumProofs ---------------------------
(***************************************************************************)
(* Proofs about Checksum: for every source, block size and expected        *)
(* checksum, the pass over the reader is a BoundedCopy into the digests,   *)
(* and a match stands for the whole source.                                *)
(***************************************************************************)
EXTENDS Checksum, SequenceTheorems, TLAPS

(***************************************************************************)
(* The inductive invariant.                                                *)
(***************************************************************************)
\* The digests have been fed what the reader has given.
Digested == digested = SubSeq(source, 1, position)

\* What parse accepts is the digest the caller wrote, in small letters, and under
\* the algorithm it was made with.
Parsed ==
    /\ expected # None =>
           /\ text # None
           /\ expected = [algorithm |-> text.of,
                          hexadecimal |-> Digest(text.of, text.bytes, FALSE)]
    /\ expected = None /\ text # None => phase = "parse" \/ result = "invalid"

\* A report is complete only at the reader's end, and compares what was expected.
Reported ==
    /\ result # "complete" => comparison = None
    /\ result = "complete" =>
           /\ position = Len(source)
           /\ expected # None =>
                  (comparison.matches <=>
                       Digest(expected.algorithm, digested, FALSE) = expected.hexadecimal)

Inv == TypeOK /\ Digested /\ Parsed /\ Reported

-----------------------------------------------------------------------------
(* Sequences.                                                              *)

\* A source the model may have is a sequence of bytes.
LEMMA SourceType == ASSUME source \in Sources PROVE source \in Seq(Byte)
BY ConstantsAssumption

\* The start of a sequence is a sequence of its length, and a prefix of it.
LEMMA StartOf ==
    ASSUME NEW s \in Seq(Byte), NEW n \in 0..Len(s)
    PROVE  /\ SubSeq(s, 1, n) \in Seq(Byte)
           /\ Len(SubSeq(s, 1, n)) = n
           /\ \A i \in 1..n : SubSeq(s, 1, n)[i] = s[i]
<1>1. Len(s) \in Nat /\ \A i \in 1..n : s[i] \in Byte
  OBVIOUS
<1>2. n \in Nat /\ 1 \in Int /\ n \in Int
  BY <1>1
<1> QED
  BY <1>1, <1>2, SubSeqProperties

\* The next n bytes, behind the first p, make the first p + n.
LEMMA StartGrows ==
    ASSUME NEW s \in Seq(Byte), NEW p \in 0..Len(s), NEW n \in Nat, p + n <= Len(s)
    PROVE  SubSeq(s, 1, p) \o SubSeq(s, p + 1, p + n) = SubSeq(s, 1, p + n)
<1>1. Len(s) \in Nat /\ p \in Nat /\ p + n \in p..Len(s)
  OBVIOUS
<1>2. 1 \in 1..Len(s) + 1 /\ p \in (1 - 1)..Len(s)
  BY <1>1
<1> QED
  BY <1>1, <1>2, ConcatAdjacentSubSeq

-----------------------------------------------------------------------------
(* ExpectedChecksum::parse.                                                *)

\* No two algorithms have digests of one length, nor of lengths one apart: what is
\* accepted was made with the algorithm it is accepted under.
LEMMA AcceptedAsMade ==
    ASSUME text \in Text, NEW a \in Algorithm, Accepts(a)
    PROVE  a = text.of
<1>1. text.of \in Algorithm
  BY DEF Text
<1>2. Algorithm = {"md5", "sha1", "sha256", "sha512"}
  BY DEF Algorithm, HexLength
<1>3. /\ HexLength["md5"] = 32 /\ HexLength["sha1"] = 40
      /\ HexLength["sha256"] = 64 /\ HexLength["sha512"] = 128
  BY DEF HexLength
<1>4. HexLength[text.of] = HexLength[a] \/ HexLength[text.of] + 1 = HexLength[a]
  BY <1>1, <1>2, <1>3 DEF Accepts, TextLength
<1> QED
  BY <1>1, <1>2, <1>3, <1>4

-----------------------------------------------------------------------------
(* The invariant holds at first and is kept by every step.                 *)

LEMMA InitInv == Init => Inv
<1> SUFFICES ASSUME Init PROVE Inv
  OBVIOUS
<1>1. source \in Seq(Byte) /\ Len(source) \in Nat
  BY SourceType DEF Init
<1>2. TypeOK
  BY <1>1 DEF Init, TypeOK
<1>3. Digested
  <2>1. SubSeq(source, 1, 0) = <<>>
    BY SubSeqEmpty
  <2> QED
    BY <2>1 DEF Init, Digested
<1>4. Parsed /\ Reported
  BY DEF Init, Parsed, Reported
<1> QED
  BY <1>2, <1>3, <1>4 DEF Inv

LEMMA NextInv == Inv /\ [Next]_vars => Inv'
<1> SUFFICES ASSUME Inv, [Next]_vars PROVE Inv'
  OBVIOUS
<1> USE DEF Inv, call
<1>1. source \in Seq(Byte) /\ Len(source) \in Nat /\ position \in 0..Len(source)
  BY SourceType DEF TypeOK
<1>2. CASE Parse
  <2>1. UNCHANGED <<call, cancel, position, digested, bytes_read, comparison>>
    BY <1>2 DEF Parse
  <2>2. Digested'
    BY <2>1 DEF Digested
  <2>3. CASE text = None
    <3>1. phase' = "config" /\ UNCHANGED <<expected, result>>
      BY <1>2, <2>3 DEF Parse
    <3> QED
      BY <2>1, <2>2, <2>3, <3>1, <1>2 DEF Parse, TypeOK, Parsed, Reported, Digest
  <2>4. CASE text # None /\ \A algorithm \in Candidates : ~Accepts(algorithm)
    <3>1. phase' = "returned" /\ result' = "invalid" /\ UNCHANGED expected
      BY <1>2, <2>4 DEF Parse, Return
    <3>2. TypeOK'
      BY <2>1, <3>1 DEF TypeOK
    <3>3. Parsed' /\ Reported'
      BY <1>2, <2>1, <3>1 DEF Parse, Parsed, Reported, TypeOK, Digest
    <3> QED
      BY <2>2, <3>2, <3>3
  <2>5. CASE text # None /\ ~(\A algorithm \in Candidates : ~Accepts(algorithm))
    <3>1. PICK algorithm \in Candidates :
             /\ Accepts(algorithm)
             /\ expected' = [algorithm |-> algorithm,
                             hexadecimal |-> Digest(text.of, text.bytes,
                                                    Lowered(text.capitals))]
             /\ phase' = "config"
             /\ result' = result
      BY <1>2, <2>5 DEF Parse
    <3>2. text \in Text
      BY <2>5, ConstantsAssumption DEF TypeOK
    <3>3. algorithm \in Algorithm
      BY <3>1 DEF Candidates
    <3>4. algorithm = text.of
      BY <3>1, <3>2, <3>3, AcceptedAsMade
    <3>5. expected' = [algorithm |-> text.of,
                       hexadecimal |-> Digest(text.of, text.bytes, FALSE)]
      BY <3>1, <3>4 DEF Lowered
    <3>6. expected' \in Expected
      BY <3>2, <3>5 DEF Expected, Digest, Text
    <3>7. TypeOK'
      BY <1>2, <2>1, <3>1, <3>6 DEF Parse, TypeOK
    <3>8. Parsed'
      BY <2>1, <2>5, <3>5, <3>6, ConstantsAssumption DEF Parsed, Digest
    <3>9. Reported'
      BY <1>2, <2>1, <3>1 DEF Parse, Reported, TypeOK
    <3> QED
      BY <2>2, <3>7, <3>8, <3>9
  <2> QED
    BY <2>3, <2>4, <2>5
<1>3. CASE CheckConfig
  BY <1>3 DEF CheckConfig, Return, TypeOK, Digested, Parsed, Reported, Digest
<1>4. CASE RequestCancel
  BY <1>4 DEF RequestCancel, TypeOK, Digested, Parsed, Reported, Digest
<1>5. CASE Poll
  BY <1>5 DEF Poll, Cancelled, Return, TypeOK, Digested, Parsed, Reported, Digest
<1>6. CASE Interrupted
  BY <1>6 DEF Interrupted, TypeOK, Digested, Parsed, Reported, Digest
<1>7. CASE ReadFails
  BY <1>7 DEF ReadFails, Return, TypeOK, Digested, Parsed, Reported, Digest
<1>8. CASE ReadBlock
  <2>1. PICK n \in 1..Least(block_bytes, Len(source) - position) :
           /\ position' = position + n
           /\ digested' = digested \o Block(n)
           /\ bytes_read' = bytes_read + n
    BY <1>8 DEF ReadBlock
  <2>2. block_bytes \in Nat
    BY ConstantsAssumption DEF TypeOK
  <2>3. n \in Nat /\ position + n <= Len(source) /\ position \in Nat
    BY <1>1, <2>1, <2>2 DEF Least
  <2>4. /\ UNCHANGED <<call, cancel, expected, result, comparison>>
        /\ phase = "read" /\ phase' = "poll"
    BY <1>8 DEF ReadBlock
  <2>5. digested' = SubSeq(source, 1, position + n)
    BY <1>1, <2>1, <2>3, StartGrows DEF Digested, Block
  <2>6. position + n \in 0..Len(source)
    BY <1>1, <2>3
  <2>7. digested' \in Seq(Byte) /\ Len(digested') = position + n
    BY <1>1, <2>5, <2>6, StartOf
  <2>8. bytes_read = position
    BY <1>1, StartOf DEF TypeOK, Digested
  <2>9. TypeOK'
    BY <2>1, <2>4, <2>6, <2>7, <2>8 DEF TypeOK
  <2>10. Digested'
    BY <2>1, <2>4, <2>5 DEF Digested
  <2>11. Parsed' /\ Reported'
    BY <2>4 DEF Parsed, Reported, TypeOK, Digest
  <2> QED
    BY <2>9, <2>10, <2>11
<1>9. CASE Finish
  <2>1. /\ UNCHANGED <<call, cancel, expected, position, digested, bytes_read>>
        /\ position = Len(source)
        /\ phase' = "returned" /\ result' = "complete"
        /\ phase = "read"
    BY <1>9 DEF Finish, Return
  <2>2. TypeOK'
    BY <2>1 DEF TypeOK
  <2>3. Digested' /\ Parsed'
    BY <2>1 DEF Digested, Parsed, TypeOK, Digest
  <2>4. expected # None =>
           comparison'.matches =
               (Digest(expected.algorithm, digested, FALSE) = expected.hexadecimal)
    BY <1>9 DEF Finish
  <2>5. Reported'
    BY <2>1, <2>4 DEF Reported, Digest
  <2> QED
    BY <2>2, <2>3, <2>5
<1>10. CASE Returned
  BY <1>10 DEF Returned, vars, TypeOK, Digested, Parsed, Reported, Digest
<1>11. CASE UNCHANGED vars
  BY <1>11 DEF vars, TypeOK, Digested, Parsed, Reported, Digest
<1> QED
  BY <1>2, <1>3, <1>4, <1>5, <1>6, <1>7, <1>8, <1>9, <1>10, <1>11 DEF Next, Step

\* The invariant, for every source, block size, expected checksum, and however the
\* reads and the caller behave.
THEOREM Invariance == Spec => []Inv
BY InitInv, NextInv, PTL DEF Spec

\* Every variable keeps its type, and what is counted is what was digested.
THEOREM TypeCorrect == Spec => []TypeOK
<1>1. Inv => TypeOK
  BY DEF Inv
<1> QED
  BY Invariance, <1>1, PTL

\* A match stands for the whole source, and a mismatch for another content.
THEOREM VerdictHolds == Spec => []VerdictIsTheFile
<1>1. Inv => VerdictIsTheFile
  <2> SUFFICES ASSUME Inv PROVE VerdictIsTheFile
    OBVIOUS
  <2>1. result # "complete" => comparison = None
    BY DEF Inv, Reported
  <2>2. ASSUME result = "complete", text # None
        PROVE  comparison.matches <=> text.bytes = source
    <3>1. source \in Seq(Byte)
      BY SourceType DEF Inv, TypeOK
    <3>2. digested = source
      BY <2>2, <3>1, SubSeqFull DEF Inv, Digested, Reported
    <3>3. expected # None
      BY <2>2 DEF Inv, Parsed, TypeOK
    <3>4. /\ expected.algorithm = text.of
          /\ expected.hexadecimal = Digest(text.of, text.bytes, FALSE)
      <4>1. expected = [algorithm |-> text.of,
                        hexadecimal |-> Digest(text.of, text.bytes, FALSE)]
        BY <3>3 DEF Inv, Parsed
      <4> QED
        BY <4>1
    <3>5. comparison.matches <=>
             Digest(text.of, source, FALSE) = Digest(text.of, text.bytes, FALSE)
      BY <2>2, <3>2, <3>3, <3>4 DEF Inv, Reported
    <3> QED
      BY <3>5 DEF Digest
  <2> QED
    BY <2>1, <2>2 DEF VerdictIsTheFile
<1> QED
  BY Invariance, <1>1, PTL

-----------------------------------------------------------------------------
(* The refinement of BoundedCopy.                                          *)

\* What is digested is a prefix of the source.
LEMMA PrefixKept == ASSUME Inv PROVE Copy!Prefix(digested, source)
<1>1. source \in Seq(Byte) /\ position \in 0..Len(source)
  BY SourceType DEF Inv, TypeOK
<1>2. Len(source) \in Nat
  BY <1>1
<1>3. Len(digested) = position /\ \A i \in 1..position : digested[i] = source[i]
  BY <1>1, StartOf DEF Inv, Digested
<1> QED
  BY <1>1, <1>2, <1>3 DEF Copy!Prefix

\* Every step of the pass is one of the copy, or leaves it as it was.
LEMMA StepRefines ==
    ASSUME Inv, Inv', [Next]_vars PROVE [Copy!Next]_(Copy!vars)
<1> USE DEF call
<1>1. Copy!Prefix(digested, source)
  BY PrefixKept
<1>2. CASE Parse \/ CheckConfig \/ Poll \/ ReadFails
  <2>1. UNCHANGED <<source, digested>>
    BY <1>2 DEF Parse, CheckConfig, Poll, ReadFails
  <2>2. result = "none"
    BY <1>2 DEF Parse, CheckConfig, Poll, ReadFails, Inv, TypeOK
  <2>3. result' = result \/ result' \in {"invalid", "cancelled", "failed"}
    BY <1>2 DEF Parse, CheckConfig, Poll, ReadFails, Return
  <2>4. Copy!Prefix(digested, digested')
    BY <2>1 DEF Copy!Prefix, Inv, TypeOK
  <2>5. Copy!Prefix(digested', source)
    BY <1>1, <2>1
  <2>6. CASE result' = result
    BY <2>1, <2>6 DEF Copy!vars, Outcome
  <2>7. CASE result' \in {"invalid", "cancelled", "failed"}
    BY <2>1, <2>2, <2>4, <2>5, <2>7 DEF Copy!Next, Copy!Stop, Copy!Extends, Outcome
  <2> QED
    BY <2>3, <2>6, <2>7
<1>3. CASE RequestCancel \/ Interrupted \/ Returned \/ UNCHANGED vars
  BY <1>3 DEF RequestCancel, Interrupted, Returned, vars, Copy!vars, Outcome
<1>4. CASE ReadBlock
  <2>1. UNCHANGED <<source, result>> /\ result = "none"
    BY <1>4 DEF ReadBlock, Inv, TypeOK
  <2>2. source' = source /\ Copy!Prefix(digested', source)
    <3>1. Copy!Prefix(digested, source)'
      BY PrefixKept, PTL
    <3> QED
      BY <2>1, <3>1 DEF Copy!Prefix
  <2>3. Copy!Prefix(digested, digested')
    <3>1. Len(digested) \in Nat /\ Len(digested') \in Nat
      BY DEF Inv, TypeOK
    <3>2. Len(digested) <= Len(digested')
      <4>1. PICK n \in 1..Least(block_bytes, Len(source) - position) :
               bytes_read' = bytes_read + n
        BY <1>4 DEF ReadBlock
      <4>2. n \in Nat
        BY <4>1
      <4> QED
        BY <3>1, <4>1, <4>2 DEF Inv, TypeOK
    <3>3. \A i \in 1..Len(digested) : digested[i] = source[i]
      BY <1>1 DEF Copy!Prefix
    <3>4. \A i \in 1..Len(digested') : digested'[i] = source[i]
      BY <2>2 DEF Copy!Prefix
    <3>5. ASSUME NEW i \in 1..Len(digested) PROVE digested[i] = digested'[i]
      BY <3>1, <3>2, <3>3, <3>4
    <3> QED
      BY <3>2, <3>5 DEF Copy!Prefix
  <2> QED
    BY <2>1, <2>2, <2>3 DEF Copy!Next, Copy!Deliver, Copy!Extends, Outcome
<1>5. CASE Finish
  <2>1. /\ UNCHANGED <<source, digested>> /\ position = Len(source)
        /\ phase = "read" /\ result' = "complete"
    BY <1>5 DEF Finish, Return
  <2>2. result = "none"
    BY <2>1 DEF Inv, TypeOK
  <2>3. digested = source
    BY <2>1, SourceType, SubSeqFull DEF Inv, TypeOK, Digested
  <2> QED
    BY <2>1, <2>2, <2>3 DEF Copy!Next, Copy!Complete, Outcome
<1> QED
  BY <1>2, <1>3, <1>4, <1>5 DEF Next, Step

\* The pass over the reader keeps the promises of BoundedCopy with the digests for a
\* sink: each byte once and in order, and all of them in a complete report.
THEOREM PassImplementsCopy == Spec => ImplementsBoundedCopy
<1>1. Init => Copy!Init
  BY SourceType DEF Init, Copy!Init, Outcome
<1>2. Inv /\ Inv' /\ [Next]_vars => [Copy!Next]_(Copy!vars)
  BY StepRefines
<1> QED
  BY Invariance, <1>1, <1>2, PTL DEF Spec, Copy!Spec, ImplementsBoundedCopy
=============================================================================
