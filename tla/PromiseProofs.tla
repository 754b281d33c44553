--------------------------- MODULE PromiseProofs ----------------------------
(***************************************************************************)
(* What a caller is promised by the parts others are built on: the walk    *)
(* that both catalogs implement, whatever the directories name; the        *)
(* functions without state, for every argument; the previews of            *)
(* recovery/preview.rs, for every stream and configuration; and the        *)
(* decoder of recovery/mft_lznt1.rs, for every stream an encoder writes.   *)
(***************************************************************************)
EXTENDS Preview, PureFunctions, Lznt1, SequenceTheorems, WellFoundedInduction, TLAPS

-----------------------------------------------------------------------------
(* The walk of Traversal.                                                  *)

CONSTANT Extent

VARIABLES stage, frontier, explored, discovered

Walk == INSTANCE Traversal

\* What is still queued.
Queued(s) == {s[i] : i \in 1..Len(s)}

LEMMA QueuedHead ==
    ASSUME NEW S, NEW s \in Seq(S), s # <<>>
    PROVE  Queued(s) = {Head(s)} \cup Queued(Tail(s))
<1>1. Len(s) \in Nat \ {0} /\ Tail(s) \in Seq(S) /\ Len(Tail(s)) = Len(s) - 1
  OBVIOUS
<1>2. \A i \in 1..Len(Tail(s)) : Tail(s)[i] = s[i + 1]
  OBVIOUS
<1>3. Head(s) = s[1]
  OBVIOUS
<1>4. ASSUME NEW x \in Queued(s) PROVE x \in {Head(s)} \cup Queued(Tail(s))
  <2>1. PICK i \in 1..Len(s) : x = s[i]
    BY <1>4 DEF Queued
  <2>2. CASE i = 1
    BY <1>3, <2>1, <2>2
  <2>3. CASE i # 1
    <3>1. i - 1 \in 1..Len(Tail(s)) /\ x = Tail(s)[i - 1]
      BY <1>1, <1>2, <2>1, <2>3
    <3> QED
      BY <3>1 DEF Queued
  <2> QED
    BY <2>2, <2>3
<1>5. ASSUME NEW x \in {Head(s)} \cup Queued(Tail(s)) PROVE x \in Queued(s)
  <2>1. CASE x = Head(s)
    BY <1>1, <1>3, <2>1 DEF Queued
  <2>2. CASE x \in Queued(Tail(s))
    <3>1. PICK i \in 1..Len(Tail(s)) : x = Tail(s)[i]
      BY <2>2 DEF Queued
    <3>2. i + 1 \in 1..Len(s) /\ x = s[i + 1]
      BY <1>1, <1>2, <3>1
    <3> QED
      BY <3>2 DEF Queued
  <2> QED
    BY <1>5, <2>1, <2>2
<1> QED
  BY <1>4, <1>5

LEMMA QueuedAppend ==
    ASSUME NEW S, NEW s \in Seq(S), NEW e \in S
    PROVE  Queued(Append(s, e)) = Queued(s) \cup {e}
<1>1. /\ Len(Append(s, e)) = Len(s) + 1 /\ Len(s) \in Nat
      /\ \A i \in 1..Len(s) : Append(s, e)[i] = s[i]
      /\ Append(s, e)[Len(s) + 1] = e
  OBVIOUS
<1>2. ASSUME NEW x \in Queued(Append(s, e)) PROVE x \in Queued(s) \cup {e}
  <2>1. PICK i \in 1..Len(s) + 1 : x = Append(s, e)[i]
    BY <1>1, <1>2 DEF Queued
  <2>2. CASE i = Len(s) + 1
    BY <1>1, <2>1, <2>2
  <2>3. CASE i \in 1..Len(s)
    BY <1>1, <2>1, <2>3 DEF Queued
  <2> QED
    BY <1>1, <2>1, <2>2, <2>3
<1>3. ASSUME NEW x \in Queued(s) \cup {e} PROVE x \in Queued(Append(s, e))
  <2>1. CASE x = e
    BY <1>1, <2>1 DEF Queued
  <2>2. CASE x \in Queued(s)
    <3>1. PICK i \in 1..Len(s) : x = s[i]
      BY <2>2 DEF Queued
    <3>2. i \in 1..Len(Append(s, e)) /\ x = Append(s, e)[i]
      BY <1>1, <3>1
    <3> QED
      BY <3>2 DEF Queued
  <2> QED
    BY <1>3, <2>1, <2>2
<1> QED
  BY <1>2, <1>3

-----------------------------------------------------------------------------
\* Everything discovered is explored or held, and nothing is held or explored that
\* was not discovered.
WalkInv ==
    /\ Walk!TypeOK
    /\ stage \in {"walking", "complete"} => discovered = explored \cup Queued(frontier)
    /\ stage = "selecting" => explored = {}
    /\ stage = "complete" => frontier = <<>>

LEMMA WalkStarts == Walk!Init => WalkInv
BY DEF Walk!Init, WalkInv, Walk!TypeOK, Walk!Stages

LEMMA WalkStep == ASSUME WalkInv, [Walk!Next]_(Walk!vars) PROVE WalkInv'
<1>1. frontier \in Seq(Extent)
  BY DEF WalkInv, Walk!TypeOK
<1>2. CASE Walk!Choose
  <2>1. /\ stage' = "walking" /\ explored' = explored /\ explored = {}
    BY <1>2 DEF Walk!Choose, WalkInv
  <2>2. PICK e \in Extent : frontier' = <<e>> /\ discovered' = {e}
    BY <1>2 DEF Walk!Choose
  <2>3. Queued(frontier') = {e}
    BY <2>2 DEF Queued
  <2> QED
    BY <2>1, <2>2, <2>3 DEF WalkInv, Walk!TypeOK, Walk!Stages
<1>3. CASE Walk!Explore \/ Walk!Revisit
  <2>1. /\ stage = "walking" /\ stage' = stage /\ discovered' = discovered
        /\ frontier # <<>> /\ frontier' = Tail(frontier)
        /\ \/ explored' = explored \cup {Head(frontier)}
           \/ explored' = explored /\ Head(frontier) \in explored
    BY <1>3 DEF Walk!Explore, Walk!Revisit
  <2>2. Queued(frontier) = {Head(frontier)} \cup Queued(frontier')
    BY <1>1, <2>1, QueuedHead
  <2>3. frontier' \in Seq(Extent) /\ Head(frontier) \in Extent
    BY <1>1, <2>1
  <2> QED
    BY <2>1, <2>2, <2>3 DEF WalkInv, Walk!TypeOK, Walk!Stages
<1>4. CASE Walk!Discover
  <2>1. PICK e \in Extent : frontier' = Append(frontier, e) /\ discovered' = discovered \cup {e}
    BY <1>4 DEF Walk!Discover
  <2>2. stage = "walking" /\ stage' = stage /\ explored' = explored
    BY <1>4 DEF Walk!Discover
  <2>3. Queued(frontier') = Queued(frontier) \cup {e}
    BY <1>1, <2>1, QueuedAppend
  <2>4. frontier' \in Seq(Extent)
    BY <1>1, <2>1
  <2> QED
    BY <2>1, <2>2, <2>3, <2>4 DEF WalkInv, Walk!TypeOK, Walk!Stages
<1>5. CASE Walk!Finish
  BY <1>5 DEF Walk!Finish, WalkInv, Walk!TypeOK, Walk!Stages
<1>6. CASE Walk!GiveUp
  <2>1. /\ stage' \in {"partial", "failed"} /\ discovered' = discovered
        /\ \/ frontier' = frontier /\ explored' = explored
           \/ /\ frontier # <<>> /\ frontier' = Tail(frontier)
              /\ explored' \in {explored, explored \cup {Head(frontier)}}
    BY <1>6 DEF Walk!GiveUp
  <2>2. frontier # <<>> => Tail(frontier) \in Seq(Extent) /\ Head(frontier) \in Extent
    BY <1>1
  <2> QED
    BY <2>1, <2>2 DEF WalkInv, Walk!TypeOK, Walk!Stages
<1>7. CASE UNCHANGED Walk!vars
  BY <1>7 DEF Walk!vars, WalkInv, Walk!TypeOK
<1> QED
  BY <1>2, <1>3, <1>4, <1>5, <1>6, <1>7 DEF Walk!Next

\* The walk keeps it.
THEOREM WalkHolds == Walk!Spec => []WalkInv
  BY WalkStarts, WalkStep, PTL DEF Walk!Spec

\* Whatever the directories name, an extent a walk was told about is read or still
\* queued until the walk gives up and says so.
THEOREM ForgetsNothing == Walk!Spec => []Walk!NothingForgotten
<1>1. WalkInv => Walk!NothingForgotten
  BY DEF WalkInv, Walk!NothingForgotten, Queued
<1> QED
  BY WalkHolds, <1>1, PTL

\* A listing that carries neither "cancelled" nor "limit_reached" comes from a walk
\* that read every directory it queued.
THEOREM ReadsAll == Walk!Spec => []Walk!CompleteMeansAllRead
<1>1. Queued(<<>>) = {}
  BY DEF Queued
<1>2. WalkInv => Walk!CompleteMeansAllRead
  BY <1>1 DEF WalkInv, Walk!CompleteMeansAllRead
<1> QED
  BY WalkHolds, <1>2, PTL

-----------------------------------------------------------------------------
(* Numbers.                                                                *)

\* A set of numbers has a least one: what the inductions below rest on.
LEMMA LeastElement ==
    ASSUME NEW T \in SUBSET Nat, T # {}
    PROVE  \E n \in T : \A m \in T : n <= m
  <1> DEFINE R == OpToRel(<, Nat)
  <1>1. IsWellFoundedOn(R, Nat)
    BY NatLessThanWellFounded, Zenon
  <1>2. \A m, n \in Nat : m < n => <<m, n>> \in R
    BY Zenon DEF OpToRel
  <1> HIDE DEF R
  <1>3. PICK n \in T : \A m \in T : ~(<<m, n>> \in R)
    BY <1>1, WFMin
  <1>4. \A m \in T : n <= m
    <2> TAKE m \in T
    <2>1. m \in Nat /\ n \in Nat  OBVIOUS
    <2>2. ~(m < n)  BY <1>2, <1>3, <2>1
    <2> QED BY <2>1, <2>2
  <1> QED BY <1>4

\* What Min and Max choose.
LEMMA MinFacts ==
    ASSUME NEW S \in SUBSET Nat, S # {}
    PROVE  Min(S) \in S /\ \A x \in S : Min(S) <= x
  <1>1. \E n \in S : \A m \in S : n <= m
    BY LeastElement
  <1> QED BY <1>1 DEF Min

LEMMA MaxFacts ==
    ASSUME NEW S \in SUBSET Nat, S # {}, NEW bound \in Nat, \A x \in S : x <= bound
    PROVE  Max(S) \in S /\ \A x \in S : x <= Max(S)
  <1> DEFINE T == {bound - x : x \in S}
  <1>1. T \in SUBSET Nat /\ T # {}
    <2>1. \A x \in S : bound - x \in Nat
      OBVIOUS
    <2>2. T \in SUBSET Nat
      BY <2>1
    <2>3. PICK x \in S : TRUE
      OBVIOUS
    <2>4. bound - x \in T
      OBVIOUS
    <2> QED BY <2>2, <2>4
  <1>2. PICK n \in T : \A m \in T : n <= m
    <2> HIDE DEF T
    <2> QED BY <1>1, LeastElement
  <1>3. PICK x \in S : n = bound - x
    OBVIOUS
  <1>4. \A y \in S : x >= y
    <2> TAKE y \in S
    <2>1. bound - y \in T
      OBVIOUS
    <2>2. n <= bound - y
      BY <1>2, <2>1
    <2>3. x \in Nat /\ y \in Nat
      OBVIOUS
    <2> QED BY <1>3, <2>2, <2>3
  <1>5. \E z \in S : \A y \in S : z >= y
    BY <1>4
  <1>6. Max(S) \in S /\ \A y \in S : Max(S) >= y
    BY <1>5 DEF Max
  <1>7. Max(S) \in Nat
    BY <1>6
  <1>8. \A y \in S : y <= Max(S)
    BY <1>6, <1>7
  <1> QED BY <1>6, <1>8

\* The values of a sequence of numbers are bounded.
LEMMA SequenceBounded ==
    ASSUME NEW s \in Seq(Nat)
    PROVE  \E bound \in Nat : \A i \in 1..Len(s) : s[i] <= bound
  <1> DEFINE Bounded(k) == \E bound \in Nat : \A i \in 1..k : s[i] <= bound
             T == {k \in Nat : k <= Len(s) /\ ~Bounded(k)}
  <1>0. Len(s) \in Nat /\ \A i \in 1..Len(s) : s[i] \in Nat
    OBVIOUS
  <1>1. ASSUME T # {} PROVE FALSE
    <2>1. PICK k \in T : \A m \in T : k <= m
      <3>1. T \in SUBSET Nat
        OBVIOUS
      <3> HIDE DEF T
      <3> QED BY <1>1, <3>1, LeastElement
    <2>2. k \in Nat /\ k <= Len(s) /\ ~Bounded(k)
      <3> HIDE DEF Bounded
      <3> QED OBVIOUS
    <2>3. k # 0
      <3>1. \A i \in 1..0 : s[i] <= 0
        OBVIOUS
      <3>2. Bounded(0)
        BY <3>1
      <3> HIDE DEF Bounded
      <3> QED BY <2>2, <3>2
    <2>4. k - 1 \in Nat /\ k - 1 <= Len(s) /\ ~(k <= k - 1)
      BY <1>0, <2>2, <2>3
    <2>5. Bounded(k - 1)
      <3>1. k - 1 \notin T
        <4> HIDE DEF T
        <4> QED BY <2>1, <2>4
      <3> HIDE DEF Bounded
      <3> QED BY <2>4, <3>1
    <2> HIDE DEF T
    <2>6. PICK bound \in Nat : \A i \in 1..k - 1 : s[i] <= bound
      BY <2>5
    <2>7. PICK last \in Nat : last = s[k]
      <3>1. k \in 1..Len(s)
        BY <1>0, <2>2, <2>3
      <3> QED BY <1>0, <3>1
    <2>8. \A i \in 1..k : s[i] <= bound + last
      <3> TAKE i \in 1..k
      <3>1. CASE i = k
        BY <2>7, <3>1
      <3>2. CASE i # k
        <4>1. i \in 1..k - 1 /\ i \in 1..Len(s)
          BY <1>0, <2>2, <3>2
        <4>2. s[i] <= bound /\ s[i] \in Nat
          BY <1>0, <2>6, <4>1
        <4> QED BY <4>2
      <3> QED BY <3>1, <3>2
    <2>9. bound + last \in Nat
      OBVIOUS
    <2>10. Bounded(k)
      BY <2>8, <2>9
    <2> HIDE DEF Bounded
    <2> QED BY <2>2, <2>10
  <1>2. Bounded(Len(s))
    <2> HIDE DEF Bounded
    <2> QED BY <1>0, <1>1
  <1> QED BY <1>2

-----------------------------------------------------------------------------
(* Pages of recovery/paging.rs.                                            *)

\* A page that validate_window accepts is exactly the requested window of the
\* listing: the statement the functions run checks, for every policy, start, request
\* and total.
THEOREM AcceptedPagesTile ==
    ASSUME NEW policy \in Policy,
           NEW first \in Nat, NEW requested \in Nat, NEW returned \in Nat,
           NEW listed \in Nat, NEW actual \in Nat
    PROVE  PageExact(policy, first, requested, returned, listed, actual)
<1> SUFFICES ASSUME WindowValid(policy, first, requested, returned, listed, actual)
             PROVE  /\ actual <= policy.maximum
                    /\ Positions(first, actual)
                         = {p \in Positions(first, requested) : p < listed}
                    /\ first <= listed => first + actual <= listed
                    /\ actual = 0 => (requested = 0 /\ policy.allow_zero) \/ first >= listed
                    /\ actual < requested => first + actual >= listed
  BY DEF PageExact
<1>1. requested <= policy.maximum /\ (requested # 0 \/ policy.allow_zero)
  BY DEF WindowValid, CountValid
<1>2. policy.maximum \in Nat
  BY DEF Policy
<1>3. actual = Window(first, requested, listed)
  BY DEF WindowValid
<1>4. CASE first <= listed /\ requested <= listed - first
  <2>1. actual = requested
    BY <1>3, <1>4 DEF Window, Left, Smaller
  <2>2. \A p \in Positions(first, requested) : p < listed
    BY <1>4 DEF Positions
  <2> QED
    BY <1>1, <1>2, <1>4, <2>1, <2>2
<1>5. CASE first <= listed /\ requested > listed - first
  <2>1. actual = listed - first
    BY <1>3, <1>5 DEF Window, Left, Smaller
  <2>2. Positions(first, actual) = {p \in Positions(first, requested) : p < listed}
    BY <1>5, <2>1 DEF Positions
  <2> QED
    BY <1>1, <1>2, <1>5, <2>1, <2>2
<1>6. CASE first > listed
  <2>1. actual = 0
    BY <1>3, <1>6 DEF Window, Left, Smaller
  <2>2. Positions(first, actual) = {p \in Positions(first, requested) : p < listed}
    BY <1>6, <2>1 DEF Positions
  <2> QED
    BY <1>1, <1>2, <1>6, <2>1, <2>2
<1> QED
  BY <1>4, <1>5, <1>6

-----------------------------------------------------------------------------
(* MBR type bytes.                                                         *)

\* for_filesystem writes one of these.
LEMMA WrittenBytes ==
    ASSUME NEW filesystem \in Filesystem, NEW end_offset \in Nat, NEW length \in Nat
    PROVE  LET byte == ForFilesystem(filesystem, end_offset, length)
           IN  \/ filesystem = "Fat12" /\ byte = 1
               \/ filesystem = "Fat16" /\ byte = 4 /\ length < SmallBytes
               \/ filesystem = "Fat16" /\ byte = 6 /\ end_offset <= ChsLimit
               \/ filesystem = "Fat16" /\ byte = 14 /\ end_offset > ChsLimit
               \/ filesystem = "Fat32" /\ byte = 11 /\ end_offset <= ChsLimit
               \/ filesystem = "Fat32" /\ byte = 12 /\ end_offset > ChsLimit
               \/ filesystem = "LinuxSwap" /\ byte = 130
               \/ filesystem = "LinuxLvm" /\ byte = 142
               \/ filesystem = "LinuxRaid" /\ byte = 253
               \/ filesystem = "HfsPlus" /\ byte = 175
               \/ byte \in {7, 131}
<1>1. end_offset \in Nat /\ ChsLimit \in Nat
  BY FilesystemAssumption
<1>2. CASE filesystem = "Fat16"
  BY <1>1, <1>2 DEF ForFilesystem, ByteForFat16, NeedsLba, TypeByte
<1>3. CASE filesystem = "Fat32"
  BY <1>1, <1>3 DEF ForFilesystem, NeedsLba, TypeByte
<1>4. CASE filesystem \notin {"Fat16", "Fat32"}
  BY <1>4 DEF ForFilesystem, TypeByte, Filesystem, Foreign
<1> QED
  BY <1>2, <1>3, <1>4

\* Whatever the partition's place and size, the type byte written for a filesystem
\* reads back as that filesystem or as none, hidden or not; its addresses are LBA only
\* past the limit of CHS, and CHS past it only for FAT12 and for small FAT16.
THEOREM WrittenTypesReadBack ==
    ASSUME NEW filesystem \in Filesystem, NEW end_offset \in Nat, NEW length \in Nat
    PROVE  ByteReadsBack(filesystem, end_offset, length)
<1> DEFINE byte == ForFilesystem(filesystem, end_offset, length)
<1>1. \/ filesystem = "Fat12" /\ byte = 1
      \/ filesystem = "Fat16" /\ byte = 4 /\ length < SmallBytes
      \/ filesystem = "Fat16" /\ byte = 6 /\ end_offset <= ChsLimit
      \/ filesystem = "Fat16" /\ byte = 14 /\ end_offset > ChsLimit
      \/ filesystem = "Fat32" /\ byte = 11 /\ end_offset <= ChsLimit
      \/ filesystem = "Fat32" /\ byte = 12 /\ end_offset > ChsLimit
      \/ filesystem = "LinuxSwap" /\ byte = 130
      \/ filesystem = "LinuxLvm" /\ byte = 142
      \/ filesystem = "LinuxRaid" /\ byte = 253
      \/ filesystem = "HfsPlus" /\ byte = 175
      \/ byte \in {7, 131}
  BY WrittenBytes
<1> HIDE DEF byte
<1>2. FromMbrType(byte) \in {None, filesystem}
  BY <1>1 DEF FromMbrType, VisibleMbrType, Unhidden, Hidden
<1>3. byte + 16 \in Hidden => FromMbrType(byte + 16) = FromMbrType(byte)
  BY <1>1 DEF FromMbrType, Unhidden, Hidden
<1>4. /\ byte \in {TypeByte.FAT12, TypeByte.FAT16_SMALL, TypeByte.FAT16B, TypeByte.FAT32_CHS}
      /\ end_offset > ChsLimit
      => filesystem = "Fat12" \/ (filesystem = "Fat16" /\ length < SmallBytes)
  BY <1>1, FilesystemAssumption DEF TypeByte
<1>5. byte \in {TypeByte.FAT16B_LBA, TypeByte.FAT32_LBA} => end_offset > ChsLimit
  BY <1>1 DEF TypeByte
<1>6. \A half \in FaultTolerantMirror : FromMbrType(half) = FromMbrType(half - 128)
  BY DEF FaultTolerantMirror, TypeByte, FromMbrType, VisibleMbrType, Unhidden, Hidden
<1> QED
  BY <1>2, <1>3, <1>4, <1>5, <1>6 DEF ByteReadsBack, byte

-----------------------------------------------------------------------------
(* Extents of executables.                                                 *)

\* The end that contained_file_extent looks for is that of one of the parts, and of
\* none a later one.
LEMMA EndFacts ==
    ASSUME NEW image \in Executable
    PROVE  LET ends == {image.headers, TableEnd(image)}
                         \cup {End(run) : run \in Sections(image) \cup Certificate(image)}
           IN  /\ TableEnd(image) \in Nat
               /\ FileEnd(image) \in Nat /\ FileEnd(image) \in ends
               /\ \A end \in ends : end <= FileEnd(image)
  <1> DEFINE ends == {image.headers, TableEnd(image)}
                         \cup {End(run) : run \in Sections(image) \cup Certificate(image)}
  <1>1. /\ image.sections \in Seq(Run) /\ image.certificate \in Run
        /\ image.headers \in Nat /\ image.optional_size \in Nat /\ image.pe_offset \in Nat
    BY DEF Executable
  <1>2. Len(image.sections) \in Nat /\ \A i \in 1..Len(image.sections) : image.sections[i] \in Run
    BY <1>1
  <1>3. TableEnd(image) \in Nat
    <2>1. PICK p, o, k : p = image.pe_offset /\ o = image.optional_size /\ k = Len(image.sections)
      OBVIOUS
    <2>2. p \in Nat /\ o \in Nat /\ k \in Nat
      BY <1>1, <1>2, <2>1
    <2>3. TableEnd(image) = p + 24 + o + 40 * k
      BY <2>1 DEF TableEnd, SectionTable, Optional, SectionBytes
    <2> QED BY <2>2, <2>3
  <1>4. \A run \in Run : End(run) \in Nat
    BY DEF Run, End
  <1>5. Certificate(image) \subseteq Run
    BY <1>1 DEF Certificate
  <1>6. Sections(image) \subseteq Run
    BY <1>2 DEF Sections
  <1>7. ends \in SUBSET Nat /\ ends # {}
    BY <1>1, <1>3, <1>4, <1>5, <1>6
  <1> DEFINE e == [i \in 1..Len(image.sections) |-> End(image.sections[i])]
  <1>8. PICK bound \in Nat : \A i \in 1..Len(image.sections) : End(image.sections[i]) <= bound
    <2>1. e \in Seq(Nat) /\ Len(e) = Len(image.sections)
      BY <1>2, <1>4
    <2>2. \A i \in 1..Len(image.sections) : e[i] = End(image.sections[i])
      OBVIOUS
    <2> HIDE DEF e
    <2> QED BY <2>1, <2>2, SequenceBounded
  <1>9. PICK h, t, c : h = image.headers /\ t = TableEnd(image) /\ c = End(image.certificate)
    OBVIOUS
  <1>10. h \in Nat /\ t \in Nat /\ c \in Nat
    BY <1>1, <1>3, <1>4, <1>9
  <1>11. bound + h + t + c \in Nat
    BY <1>10
  <1>12. ASSUME NEW x \in ends PROVE x <= bound + h + t + c
    <2>1. CASE x \in {h, t}
      BY <1>10, <2>1
    <2>2. CASE \E run \in Sections(image) : x = End(run)
      <3>1. PICK i \in 1..Len(image.sections) : x = End(image.sections[i])
        BY <2>2 DEF Sections
      <3>2. x <= bound /\ x \in Nat
        BY <1>2, <1>4, <1>8, <3>1
      <3> QED BY <1>10, <3>2
    <2>3. CASE \E run \in Certificate(image) : x = End(run)
      <3>1. x = c
        BY <1>9, <2>3 DEF Certificate
      <3> QED BY <1>10, <3>1
    <2>4. x \in {h, t} \/ \E run \in Sections(image) \cup Certificate(image) : x = End(run)
      BY <1>9
    <2> QED BY <2>1, <2>2, <2>3, <2>4
  <1> HIDE DEF ends
  <1>13. FileEnd(image) = Max(ends)
    BY DEF FileEnd, ends
  <1>14. Max(ends) \in ends /\ \A x \in ends : x <= Max(ends)
    BY <1>7, <1>11, <1>12, MaxFacts
  <1>15. FileEnd(image) \in Nat
    BY <1>7, <1>13, <1>14
  <1> QED BY <1>3, <1>13, <1>14, <1>15 DEF ends

\* Whatever an executable's headers say and whatever data it is found in, its extent
\* holds all of its parts, ends where one does and depends on nothing behind it.
THEOREM ExtentsAreTheFile ==
    ASSUME NEW image \in Executable, NEW length \in Nat, NEW maximum_sections \in Nat
    PROVE  ExtentIsTheFile(image, length, maximum_sections)
  <1>1. PICK n, t : n = FileEnd(image) /\ t = TableEnd(image)
    OBVIOUS
  <1> DEFINE ends == {image.headers, t}
                         \cup {End(run) : run \in Sections(image) \cup Certificate(image)}
             recognised(m) == /\ Parses(image, m) /\ WellFormed(image, maximum_sections)
                              /\ t <= m /\ n <= m
  <1>2. n \in Nat /\ t \in Nat /\ n \in ends /\ \A end \in ends : end <= n
    BY <1>1, EndFacts
  <1>3. \A m : ContainedFileExtent(image, m, maximum_sections)
                 = IF recognised(m) THEN n ELSE NoExtent
    BY <1>1 DEF ContainedFileExtent
  <1> SUFFICES ASSUME recognised(length)
               PROVE  /\ \A part \in Parts(image) : part.offset + part.size <= n
                      /\ \E part \in Parts(image) : part.offset + part.size = n
                      /\ \A m \in 0..length + 1 : m >= n <=> recognised(m)
                      /\ AdmittedAsConsole(image, n) <=> AdmittedAsConsole(image, length)
    <2> HIDE DEF recognised
    <2>1. ContainedFileExtent(image, length, maximum_sections) # NoExtent => recognised(length)
      BY <1>3
    <2>2. recognised(length) => ContainedFileExtent(image, length, maximum_sections) = n
      BY <1>3
    <2> QED BY <1>3, <2>1, <2>2 DEF ExtentIsTheFile
  <1> HIDE DEF ends
  <1>4. /\ image.sections \in Seq(Run) /\ image.certificate \in Run
        /\ image.headers \in Nat /\ image.optional_size \in Nat /\ image.pe_offset \in Nat
    BY DEF Executable
  <1>5. /\ image.headers \in ends /\ t \in ends
        /\ \A run \in Sections(image) \cup Certificate(image) : End(run) \in ends
    BY DEF ends
  <1>6. \A run : run \in Certificate(image) <=>
                   /\ run = image.certificate
                   /\ DirectoryOffset(image) + 40 <= image.optional_size /\ run.size > 0
    BY DEF Certificate, HasCertificate
  <1>7. ASSUME NEW part \in Parts(image) PROVE part.offset + part.size <= n
    <2>1. CASE part = [offset |-> 0, size |-> image.headers]
      BY <1>2, <1>4, <1>5, <2>1
    <2>2. CASE part = [offset |-> 0, size |-> TableEnd(image)]
      BY <1>1, <1>2, <1>5, <2>2
    <2>3. CASE part \in Sections(image) \cup Certificate(image)
      BY <1>2, <1>5, <2>3 DEF End
    <2> QED BY <1>6, <2>1, <2>2, <2>3 DEF Parts
  <1>8. \E part \in Parts(image) : part.offset + part.size = n
    <2>1. CASE n = image.headers
      <3>1. [offset |-> 0, size |-> image.headers] \in Parts(image)
        BY DEF Parts
      <3>2. 0 + image.headers = n
        BY <1>2, <2>1
      <3> QED BY <3>1, <3>2
    <2>2. CASE n = t
      <3>1. [offset |-> 0, size |-> TableEnd(image)] \in Parts(image)
        BY DEF Parts
      <3>2. 0 + TableEnd(image) = n
        BY <1>1, <1>2, <2>2
      <3> QED BY <3>1, <3>2
    <2>3. CASE \E run \in Sections(image) \cup Certificate(image) : n = End(run)
      <3>1. PICK run \in Sections(image) \cup Certificate(image) : n = End(run)
        BY <2>3
      <3>2. run \in Parts(image)
        BY <1>6 DEF Parts
      <3> QED BY <3>1, <3>2 DEF End
    <2> QED BY <1>2, <2>1, <2>2, <2>3 DEF ends
  <1>9. n >= 160 /\ n >= Optional(image) + 70 /\ n >= image.pe_offset + 4
    <2>1. PICK p, o, k, d : /\ p = image.pe_offset /\ o = image.optional_size
                            /\ k = Len(image.sections) /\ d = DirectoryOffset(image)
      OBVIOUS
    <2>2. p \in Nat /\ o \in Nat /\ k \in Nat /\ k >= 1 /\ d \in {96, 112} /\ o >= d
      BY <1>4, <2>1 DEF WellFormed, DirectoryOffset
    <2>3. t = p + 24 + o + 40 * k
      BY <1>1, <2>1 DEF TableEnd, SectionTable, Optional, SectionBytes
    <2>4. t <= n /\ n \in Nat /\ t \in Nat
      BY <1>2, <1>5
    <2>5. Optional(image) = p + 24
      BY <2>1 DEF Optional
    <2>6. n >= 160 /\ n >= p + 94 /\ n >= p + 4
      BY <2>2, <2>3, <2>4
    <2>7. Optional(image) + 70 = p + 94
      BY <2>2, <2>5
    <2> QED BY <2>1, <2>6, <2>7
  <1>10. \A m \in Nat : m >= n => Parses(image, m)
    <2> SUFFICES ASSUME NEW m \in Nat, m >= n PROVE Parses(image, m)
      OBVIOUS
    <2>1. image.mz /\ image.pe
      BY DEF Parses
    <2>2. PICK a, b : a = Optional(image) + 70 /\ b = image.pe_offset + 4
      OBVIOUS
    <2>3. a \in Nat /\ b \in Nat
      <3>1. PICK p : p = image.pe_offset
        OBVIOUS
      <3>2. p \in Nat /\ a = p + 24 + 70 /\ b = p + 4
        BY <1>4, <2>2, <3>1 DEF Optional
      <3> QED BY <3>2
    <2>4. m >= 160 /\ a <= m /\ b <= m
      BY <1>2, <1>9, <2>2, <2>3
    <2>5. m >= DosHeaderBytes
      BY <2>4 DEF DosHeaderBytes
    <2> QED BY <2>1, <2>2, <2>4, <2>5 DEF Parses
  <1>11. \A m \in 0..length + 1 : m >= n <=> recognised(m)
    <2> SUFFICES ASSUME NEW m \in 0..length + 1 PROVE m >= n <=> recognised(m)
      OBVIOUS
    <2>1. m \in Nat /\ t <= n
      BY <1>2, <1>5
    <2>2. n <= m => t <= m
      BY <1>2, <2>1
    <2>3. m >= n <=> n <= m
      BY <1>2, <2>1
    <2> QED BY <1>10, <2>1, <2>2, <2>3
  <1>12. AdmittedAsConsole(image, n) <=> AdmittedAsConsole(image, length)
    <2>1. n >= n /\ length >= n
      BY <1>2
    <2>2. Parses(image, n) /\ Parses(image, length)
      BY <1>2, <1>10, <2>1
    <2> QED BY <2>2 DEF AdmittedAsConsole
  <1> QED BY <1>7, <1>8, <1>11, <1>12
-----------------------------------------------------------------------------
(* Detection from a superblock.                                            *)

Signatures == {Order[i] : i \in 1..Len(Order)}

Flags == {"compat", "incompat", "ro_compat"}

LEMMA OrderFacts ==
    /\ Len(Order) = 12
    /\ Signatures = {"Ntfs", "ExFat", "Fat32", "Fat16", "Fat12", "Ext", "Btrfs", "Xfs", "F2fs",
                     "Apfs", "HfsPlus", "LinuxSwap"}
    /\ \A i \in 1..12 : Order[i] \in WindowsFamily <=> i <= 5
  <1>1. /\ Order[1] = "Ntfs" /\ Order[2] = "ExFat" /\ Order[3] = "Fat32"
        /\ Order[4] = "Fat16" /\ Order[5] = "Fat12" /\ Order[6] = "Ext"
        /\ Order[7] = "Btrfs" /\ Order[8] = "Xfs" /\ Order[9] = "F2fs"
        /\ Order[10] = "Apfs" /\ Order[11] = "HfsPlus" /\ Order[12] = "LinuxSwap"
        /\ Len(Order) = 12
    BY DEF Order
  <1>2. \A i \in 1..12 : \/ i = 1 \/ i = 2 \/ i = 3 \/ i = 4 \/ i = 5 \/ i = 6 \/ i = 7
                         \/ i = 8 \/ i = 9 \/ i = 10 \/ i = 11 \/ i = 12
    OBVIOUS
  <1>3. Signatures = {"Ntfs", "ExFat", "Fat32", "Fat16", "Fat12", "Ext", "Btrfs", "Xfs", "F2fs",
                      "Apfs", "HfsPlus", "LinuxSwap"}
    <2>1. \A i \in 1..12 : Order[i] \in {"Ntfs", "ExFat", "Fat32", "Fat16", "Fat12", "Ext",
                                         "Btrfs", "Xfs", "F2fs", "Apfs", "HfsPlus", "LinuxSwap"}
      BY <1>1, <1>2
    <2>2. {1, 2, 3, 4, 5, 6, 7, 8, 9, 10, 11, 12} \subseteq 1..12
      OBVIOUS
    <2> QED BY <1>1, <2>1, <2>2 DEF Signatures
  <1>4. \A i \in 1..12 : Order[i] \in WindowsFamily <=> i <= 5
    BY <1>1, <1>2 DEF WindowsFamily
  <1> QED BY <1>1, <1>3, <1>4

\* The probe is long enough for every signature and flag.
LEMMA ProbeHolds ==
    /\ \A s \in Signatures : SignatureEnd(s) \in Nat /\ SignatureEnd(s) <= ProbeBytes
    /\ \A f \in Flags : FlagEnd(f) \in Nat /\ FlagEnd(f) <= ProbeBytes
    /\ ProbeBytes \in Nat
  <1>1. ASSUME NEW s \in Signatures
        PROVE  SignatureEnd(s) \in Nat /\ SignatureEnd(s) <= ProbeBytes
    <2>1. s \in {"Ntfs", "ExFat", "Fat32", "Fat16", "Fat12", "Ext", "Btrfs", "Xfs", "F2fs",
                 "Apfs", "HfsPlus", "LinuxSwap"}
      BY OrderFacts
    <2>2. /\ s \in {"Ntfs", "ExFat"} => Place(s) = [offset |-> 3, bytes |-> 8]
          /\ s = "Fat32" => Place(s) = [offset |-> 82, bytes |-> 8]
          /\ s \in {"Fat16", "Fat12"} => Place(s) = [offset |-> 54, bytes |-> 8]
          /\ s = "Ext" => Place(s) = [offset |-> 1080, bytes |-> 2]
          /\ s = "Btrfs" => Place(s) = [offset |-> 65600, bytes |-> 8]
          /\ s = "Xfs" => Place(s) = [offset |-> 0, bytes |-> 4]
          /\ s = "F2fs" => Place(s) = [offset |-> 1024, bytes |-> 4]
          /\ s = "Apfs" => Place(s) = [offset |-> 32, bytes |-> 4]
          /\ s = "HfsPlus" => Place(s) = [offset |-> 1024, bytes |-> 2]
          /\ s = "LinuxSwap" => Place(s) = [offset |-> 4086, bytes |-> 10]
      BY DEF Place
    <2>3. PICK o \in Nat, b \in Nat : Place(s) = [offset |-> o, bytes |-> b] /\ o + b <= 65608
      BY <2>1, <2>2
    <2>4. SignatureEnd(s) = o + b
      BY <2>3 DEF SignatureEnd
    <2> QED BY <2>3, <2>4 DEF ProbeBytes
  <1>2. ASSUME NEW f \in Flags
        PROVE  FlagEnd(f) \in Nat /\ FlagEnd(f) <= ProbeBytes
    BY DEF Flags, FlagEnd, ProbeBytes
  <1> QED BY <1>1, <1>2 DEF ProbeBytes

\* The signature that prevails is the first of those held.
LEMMA PrevailingFirst ==
    ASSUME NEW held \in SUBSET Signatures, held # {}
    PROVE  \E i \in 1..12 : /\ Prevailing(held) = Order[i] /\ Order[i] \in held
                             /\ \A j \in 1..12 : Order[j] \in held => i <= j
  <1> DEFINE S == {i \in 1..Len(Order) : Order[i] \in held}
  <1>1. S \in SUBSET Nat /\ S # {}
    BY OrderFacts DEF Signatures
  <1>2. Min(S) \in S /\ \A x \in S : Min(S) <= x
    <2> HIDE DEF S
    <2> QED BY <1>1, MinFacts
  <1>3. Prevailing(held) = Order[Min(S)]
    BY DEF Prevailing
  <1> QED BY <1>2, <1>3, OrderFacts

\* Of two sets of signatures, one of which holds the other's first one, the smaller
\* has the same first one.
LEMMA PrevailingSame ==
    ASSUME NEW held \in SUBSET Signatures, NEW less \in SUBSET held,
           held # {}, Prevailing(held) \in less
    PROVE  Prevailing(less) = Prevailing(held)
  <1>1. PICK i \in 1..12 : /\ Prevailing(held) = Order[i]
                           /\ \A j \in 1..12 : Order[j] \in held => i <= j
    BY PrevailingFirst
  <1>2. PICK k \in 1..12 : /\ Prevailing(less) = Order[k] /\ Order[k] \in less
                           /\ \A j \in 1..12 : Order[j] \in less => k <= j
    BY PrevailingFirst
  <1>3. i <= k /\ k <= i
    BY <1>1, <1>2
  <1>4. i = k
    BY <1>3
  <1> QED BY <1>1, <1>2, <1>4

\* A buffer at least as long as the probe shows what the probe shows.
LEMMA ProbeEnough ==
    ASSUME NEW partition \in Partition, NEW cut \in Nat, cut >= ProbeBytes
    PROVE  /\ Held(partition, cut) = partition.signatures
           /\ Generation(partition, cut) = Generation(partition, ProbeBytes)
           /\ Detect(partition, cut) = Detect(partition, ProbeBytes)
  <1>1. partition.signatures \subseteq Signatures /\ partition.flags \subseteq Flags
    BY DEF Partition, Signatures, Flags
  <1>2. \A m \in {cut, ProbeBytes} : Held(partition, m) = partition.signatures
    <2> SUFFICES ASSUME NEW m \in {cut, ProbeBytes}
                 PROVE  \A s \in partition.signatures : SignatureEnd(s) <= m
      BY DEF Held
    <2> QED BY <1>1, ProbeHolds
  <1>3. \A m \in {cut, ProbeBytes} : {f \in partition.flags : FlagEnd(f) <= m} = partition.flags
    BY <1>1, ProbeHolds
  <1>4. Generation(partition, cut) = Generation(partition, ProbeBytes)
    BY <1>3, Zenon DEF Generation
  <1> QED BY <1>2, <1>4, Zenon DEF Detect

\* What detect_from_superblock says of a buffer is what it says of the whole probe as
\* soon as the buffer holds the evidence for that, and a Windows boot sector is never
\* taken for a foreign filesystem.
THEOREM ProbesAgree ==
    ASSUME NEW partition \in Partition, NEW cut \in Nat
    PROVE  ProbeAgrees(partition, cut)
  <1> DEFINE all == partition.signatures
  <1>1. all \subseteq Signatures /\ partition.flags \subseteq Flags
    BY DEF Partition, Signatures, Flags
  <1>2. ProbeBytes \in Nat /\ Held(partition, ProbeBytes) = all
    BY ProbeHolds, ProbeEnough
  <1>3. Held(partition, cut) \subseteq all
    BY DEF Held
  <1>4. ASSUME all = {}
        PROVE  Detect(partition, cut) = Detect(partition, ProbeBytes)
    <2>1. Held(partition, cut) = {}
      BY <1>3, <1>4
    <2>2. Detect(partition, cut) = None /\ Detect(partition, ProbeBytes) = None
      BY <1>2, <1>4, <2>1, Zenon DEF Detect
    <2> QED BY <2>2
  <1>5. ASSUME cut >= EvidenceEnd(partition, ProbeBytes), all # {}
        PROVE  Detect(partition, cut) = Detect(partition, ProbeBytes)
    <2>1. PICK p : p = Prevailing(all)
      OBVIOUS
    <2>2. p \in all
      BY <1>1, <1>5, <2>1, PrevailingFirst
    <2> DEFINE ends == {SignatureEnd("Ext")} \cup {FlagEnd(f) : f \in partition.flags}
    <2>3. EvidenceEnd(partition, ProbeBytes) = IF p # "Ext" THEN SignatureEnd(p) ELSE Max(ends)
      BY <1>2, <1>5, <2>1 DEF EvidenceEnd
    <2>4. SignatureEnd(p) <= cut /\ (p = "Ext" => \A f \in partition.flags : FlagEnd(f) <= cut)
      <3>1. CASE p # "Ext"
        BY <1>1, <1>5, <2>2, <2>3, <3>1, ProbeHolds
      <3>2. CASE p = "Ext"
        <4>1. ends \in SUBSET Nat /\ ends # {} /\ \A x \in ends : x <= ProbeBytes
          BY <1>1, <2>2, <3>2, ProbeHolds
        <4> HIDE DEF ends
        <4>2. Max(ends) \in ends /\ \A x \in ends : x <= Max(ends)
          BY <1>2, <4>1, MaxFacts
        <4>3. Max(ends) \in Nat /\ Max(ends) <= cut
          BY <1>5, <2>3, <3>2, <4>1, <4>2
        <4>4. \A x \in ends : x \in Nat
          BY <4>1
        <4>5. \A x \in ends : x <= cut
          BY <4>2, <4>3, <4>4
        <4> QED BY <3>2, <4>5 DEF ends
      <3> QED BY <3>1, <3>2
    <2>5. p \in Held(partition, cut)
      BY <2>2, <2>4 DEF Held
    <2>6. Prevailing(Held(partition, cut)) = p
      BY <1>1, <1>3, <2>1, <2>2, <2>5, PrevailingSame
    <2>7. p = "Ext" => Generation(partition, cut) = Generation(partition, ProbeBytes)
      <3> SUFFICES ASSUME p = "Ext"
                   PROVE  Generation(partition, cut) = Generation(partition, ProbeBytes)
        OBVIOUS
      <3>1. \A m \in {cut, ProbeBytes} :
               {f \in partition.flags : FlagEnd(f) <= m} = partition.flags
        BY <1>1, <2>4, ProbeHolds
      <3> QED BY <3>1, Zenon DEF Generation
    <2>8. all # {} /\ Held(partition, cut) # {}
      BY <1>5, <2>5
    <2> QED BY <1>2, <2>1, <2>6, <2>7, <2>8, Zenon DEF Detect
  <1>6. cut >= EvidenceEnd(partition, ProbeBytes) =>
           Detect(partition, cut) = Detect(partition, ProbeBytes)
    BY <1>4, <1>5
  <1>7. cut >= ProbeBytes => Detect(partition, cut) = Detect(partition, ProbeBytes)
    BY ProbeEnough
  <1>8. all \cap WindowsFamily # {} => Detect(partition, ProbeBytes) \notin Foreign
    <2> SUFFICES ASSUME all \cap WindowsFamily # {}
                 PROVE  Detect(partition, ProbeBytes) \notin Foreign
      OBVIOUS
    <2>1. PICK w \in 1..12 : Order[w] \in all /\ w <= 5
      BY <1>1, OrderFacts DEF Signatures
    <2>2. PICK i \in 1..12 : /\ Prevailing(all) = Order[i]
                             /\ \A j \in 1..12 : Order[j] \in all => i <= j
      BY <1>1, <2>1, PrevailingFirst
    <2>3. i <= 5
      BY <2>1, <2>2
    <2>4. Prevailing(all) \in WindowsFamily
      BY <2>2, <2>3, OrderFacts
    <2>5. Prevailing(all) # "Ext" /\ Prevailing(all) \notin Foreign
      BY <2>4 DEF WindowsFamily, Foreign
    <2>6. all # {}
      BY <2>1
    <2> QED BY <1>2, <2>5, <2>6, Zenon DEF Detect
  <1> QED BY <1>6, <1>7, <1>8 DEF ProbeAgrees

-----------------------------------------------------------------------------
(* Questions to the functions.                                             *)

\* A question is one of those that may be asked.
QuestionInv ==
    \/ question.about = "nothing"
    \/ question \in SizeQuestions \cup TypeQuestions \cup ProbeQuestions
                       \cup ExtentQuestions \cup PageQuestions

LEMMA QuestionHolds == AskSpec => []QuestionInv
  <1>1. AskInit => QuestionInv
    BY DEF AskInit, QuestionInv
  <1>2. QuestionInv /\ [AskNext]_question => QuestionInv'
    BY DEF QuestionInv, AskNext, Ask, AskSize, AskType, AskProbe, AskExtent, AskPage, Answered
  <1> QED BY <1>1, <1>2, PTL DEF AskSpec

\* What each kind of question asks about.
LEMMA QuestionType ==
    ASSUME QuestionInv
    PROVE  /\ question.about = "size" =>
                 question \in [about : {"size"}, text : Written,
                              current : -MaxBytes - 1..MaxBytes]
           /\ question.about = "type" =>
                 question \in [about : {"type"}, filesystem : Filesystem, end_offset : Nat,
                              length : Nat]
           /\ question.about = "probe" =>
                 question \in [about : {"probe"}, partition : Partition, cut : Nat]
           /\ question.about = "extent" =>
                 question \in [about : {"extent"}, image : Executable, length : Nat,
                              maximum_sections : Nat]
           /\ question.about = "page" =>
                 question \in [about : {"page"}, policy : Policy, start : Nat,
                              requested : Nat, returned : Nat, total : Nat, actual : Nat]
  <1>1. /\ question \in SizeQuestions => question.about = "size"
        /\ question \in TypeQuestions => question.about = "type"
        /\ question \in ProbeQuestions => question.about = "probe"
        /\ question \in ExtentQuestions => question.about = "extent"
        /\ question \in PageQuestions => question.about = "page"
    BY QuestionsAssumption
  <1> QED BY <1>1, QuestionsAssumption DEF QuestionInv

\* The type byte written for any filesystem, anywhere on a disk, reads back as that
\* filesystem or as none; FAT12 and small FAT16 keep CHS addresses where CHS does not
\* reach, no other type does.
THEOREM TypesReadBack == AskSpec => []TypeReadsBack
  <1>1. QuestionInv => TypeReadsBack
    BY QuestionType, WrittenTypesReadBack DEF TypeReadsBack
  <1> QED BY <1>1, QuestionHolds, PTL

\* Detection from any buffer that holds the evidence, to its last byte, is detection
\* from the whole probe.
THEOREM ProbesStable == AskSpec => []ProbeStable
  <1>1. QuestionInv => ProbeStable
    BY QuestionType, ProbesAgree DEF ProbeStable
  <1> QED BY <1>1, QuestionHolds, PTL

\* The extent of any executable in any data is the file's.
THEOREM ExtentsExact == AskSpec => []ExtentExact
  <1>1. QuestionInv => ExtentExact
    BY QuestionType, ExtentsAreTheFile DEF ExtentExact
  <1> QED BY <1>1, QuestionHolds, PTL

\* Accepted pages tile any listing under any policy.
THEOREM PagesAlwaysTile == AskSpec => []PagesTile
  <1>1. QuestionInv => PagesTile
    BY QuestionType, AcceptedPagesTile DEF PagesTile
  <1> QED BY <1>1, QuestionHolds, PTL

-----------------------------------------------------------------------------
(* Previews.                                                               *)

-----------------------------------------------------------------------------
\* Facts about integer division and products that the provers use as such.
LEMMA Quotient ==
    ASSUME NEW b \in Nat, b > 0, NEW n \in Nat
    PROVE  /\ n \div b \in Nat
           /\ b * (n \div b) <= n
           /\ n < b * (n \div b) + b
  <1>1. n = b * (n \div b) + (n % b) /\ n % b \in 0..b - 1 /\ n \div b \in Int
    OBVIOUS
  <1>2. n \div b \in Nat
    OBVIOUS
  <1> QED BY <1>1, <1>2

LEMMA ProductOrder ==
    ASSUME NEW b \in Nat, NEW m \in Nat, NEW n \in Nat, m <= n
    PROVE  m * b <= n * b /\ b * m <= b * n
  OBVIOUS

LEMMA QuotientOrder ==
    ASSUME NEW b \in Nat, b > 0, NEW m \in Nat, NEW n \in Nat, m <= n
    PROVE  m \div b <= n \div b
  <1>1. PICK p, q : p = m \div b /\ q = n \div b
    OBVIOUS
  <1>2. p \in Nat /\ q \in Nat /\ b * p <= m /\ n < b * q + b
    BY <1>1, Quotient
  <1>3. ASSUME p > q PROVE FALSE
    <2>1. q + 1 <= p /\ q + 1 \in Nat
      BY <1>2, <1>3
    <2>2. b * (q + 1) <= b * p
      BY <1>2, <2>1, ProductOrder
    <2>3. b * (q + 1) = b * q + b
      BY <1>2
    <2>4. b * q \in Nat /\ b * p \in Nat
      BY <1>2
    <2> QED BY <1>2, <2>2, <2>3, <2>4
  <1> QED BY <1>1, <1>2, <1>3

LEMMA QuotientSmaller ==
    ASSUME NEW b \in Nat, b > 1, NEW n \in Nat, n >= b
    PROVE  n \div b \in 0..n - 1
  <1>1. PICK q : q = n \div b
    OBVIOUS
  <1>2. q \in Nat /\ b * q <= n
    BY <1>1, Quotient
  <1>3. ASSUME q >= n PROVE FALSE
    <2>1. 2 * q <= b * q
      BY <1>2, ProductOrder
    <2>2. b * q \in Nat
      BY <1>2
    <2> QED BY <1>2, <1>3, <2>1, <2>2
  <1> QED BY <1>1, <1>2, <1>3

\* What the recursive definition of the digit counts says of each number.
LEMMA DigitsUnfold ==
    ASSUME NEW offset \in Nat
    PROVE  \A n \in 0..offset :
              Digits(offset)[n] =
                 IF n < AddressBase THEN 1 ELSE Digits(offset)[n \div AddressBase] + 1
  <1> DEFINE Unfolds(f, k) ==
        f = [n \in 0..k |-> IF n < AddressBase THEN 1 ELSE f[n \div AddressBase] + 1]
  <1>0. AddressBase \in Nat /\ AddressBase > 1
    BY ConstantsAssumption
  <1>1. \A k \in Nat : \E f : Unfolds(f, k)
    <2> DEFINE T == {k \in Nat : ~\E f : Unfolds(f, k)}
    <2> SUFFICES ASSUME T # {} PROVE FALSE
      OBVIOUS
    <2>1. PICK k \in T : \A m \in T : k <= m
      <3> HIDE DEF Unfolds
      <3> QED BY LeastElement
    <2>2. CASE k = 0
      <3> DEFINE g == [n \in 0..0 |-> 1]
      <3>1. \A n \in 0..0 : g[n] = IF n < AddressBase THEN 1 ELSE g[n \div AddressBase] + 1
        BY <1>0
      <3>2. Unfolds(g, k)
        BY <2>2, <3>1
      <3> HIDE DEF Unfolds
      <3> QED BY <3>2
    <2>3. CASE k # 0
      <3>1. k - 1 \in Nat /\ k - 1 \notin T
        <4> HIDE DEF Unfolds
        <4>1. k \in Nat /\ k - 1 \in Nat
          BY <2>3
        <4>2. ~(k <= k - 1)
          BY <4>1
        <4> QED BY <2>1, <4>1, <4>2
      <3>2. PICK f : Unfolds(f, k - 1)
        <4> HIDE DEF Unfolds
        <4> QED BY <3>1
      <3> DEFINE g == [n \in 0..k |->
                          IF n < AddressBase THEN 1 ELSE f[n \div AddressBase] + 1]
      <3>3. \A n \in 0..k - 1 : g[n] = f[n]
        <4>1. \A n \in 0..k - 1 :
                 f[n] = IF n < AddressBase THEN 1 ELSE f[n \div AddressBase] + 1
          BY <3>2
        <4>2. \A n \in 0..k - 1 : n \in 0..k
          BY <3>1
        <4> QED BY <4>1, <4>2
      <3>4. \A n \in 0..k :
               g[n] = IF n < AddressBase THEN 1 ELSE g[n \div AddressBase] + 1
        <4> TAKE n \in 0..k
        <4>1. CASE n < AddressBase
          BY <4>1
        <4>2. CASE ~(n < AddressBase)
          <5>1. n \div AddressBase \in 0..n - 1
            <6>1. n \in Nat /\ n >= AddressBase
              BY <1>0, <3>1, <4>2
            <6> QED BY <1>0, <6>1, QuotientSmaller
          <5>2. n \div AddressBase \in 0..k - 1
            <6>1. PICK q : q = n \div AddressBase
              OBVIOUS
            <6>2. q \in 0..k - 1
              BY <3>1, <5>1, <6>1
            <6> QED BY <6>1, <6>2
          <5>3. g[n \div AddressBase] = f[n \div AddressBase]
            BY <3>3, <5>2
          <5> QED BY <4>2, <5>3
        <4> QED BY <4>1, <4>2
      <3>5. Unfolds(g, k)
        BY <3>4
      <3> HIDE DEF Unfolds
      <3> QED BY <3>5
    <2> QED BY <2>2, <2>3
  <1>2. PICK f : Unfolds(f, offset)
    BY <1>1
  <1>3. Unfolds(Digits(offset), offset)
    <2>1. Digits(offset) = CHOOSE g : Unfolds(g, offset)
      BY DEF Digits
    <2> HIDE DEF Unfolds
    <2> QED BY <1>2, <2>1
  <1> DEFINE F == Digits(offset)
  <1>4. \A n \in 0..offset : F[n] = IF n < AddressBase THEN 1 ELSE F[n \div AddressBase] + 1
    <2> HIDE DEF F
    <2>1. Unfolds(F, offset)
      BY <1>3 DEF F
    <2> QED BY <2>1
  <1> QED BY <1>4 DEF F

\* Every number has a digit.
LEMMA DigitsType ==
    ASSUME NEW offset \in Nat
    PROVE  \A n \in 0..offset : Digits(offset)[n] \in Nat \ {0}
  <1> DEFINE D == Digits(offset)
             T == {n \in 0..offset : D[n] \notin Nat \ {0}}
  <1>0. AddressBase \in Nat /\ AddressBase > 1
    BY ConstantsAssumption
  <1>1. \A n \in 0..offset : D[n] = IF n < AddressBase THEN 1 ELSE D[n \div AddressBase] + 1
    BY DigitsUnfold
  <1> HIDE DEF D
  <1>2. ASSUME T # {} PROVE FALSE
    <2>1. PICK n \in T : \A m \in T : n <= m
      <3>1. T \in SUBSET Nat
        OBVIOUS
      <3> HIDE DEF T
      <3> QED BY <1>2, <3>1, LeastElement
    <2>2. n \in 0..offset /\ n \in Nat
      OBVIOUS
    <2>3. ~(n < AddressBase)
      BY <1>1, <2>2
    <2>4. PICK q : q = n \div AddressBase
      OBVIOUS
    <2>5. q \in 0..n - 1
      <3>1. n >= AddressBase
        BY <1>0, <2>2, <2>3
      <3> QED BY <1>0, <2>2, <2>4, <3>1, QuotientSmaller
    <2>6. q \in 0..offset /\ ~(n <= q)
      BY <2>2, <2>5
    <2>7. D[q] \in Nat \ {0}
      BY <2>1, <2>6
    <2>8. D[n] = D[q] + 1
      BY <1>1, <2>2, <2>3, <2>4
    <2> QED BY <2>1, <2>7, <2>8
  <1> QED BY <1>2 DEF D

\* A larger offset has no fewer digits.
LEMMA DigitsOrder ==
    ASSUME NEW low \in Nat, NEW high \in Nat
    PROVE  \A n \in 0..low : \A m \in n..high : Digits(low)[n] <= Digits(high)[m]
  <1> DEFINE D == Digits(low)
             E == Digits(high)
             T == {n \in 0..low : \E m \in n..high : ~(D[n] <= E[m])}
  <1>0. AddressBase \in Nat /\ AddressBase > 1
    BY ConstantsAssumption
  <1>1. /\ \A n \in 0..low : D[n] = IF n < AddressBase THEN 1 ELSE D[n \div AddressBase] + 1
        /\ \A n \in 0..high : E[n] = IF n < AddressBase THEN 1 ELSE E[n \div AddressBase] + 1
        /\ \A n \in 0..low : D[n] \in Nat \ {0}
        /\ \A n \in 0..high : E[n] \in Nat \ {0}
    BY DigitsUnfold, DigitsType
  <1> HIDE DEF D, E
  <1>2. ASSUME T # {} PROVE FALSE
    <2>1. PICK n \in T : \A m \in T : n <= m
      <3>1. T \in SUBSET Nat
        OBVIOUS
      <3> HIDE DEF T
      <3> QED BY <1>2, <3>1, LeastElement
    <2>2. n \in 0..low /\ n \in Nat
      OBVIOUS
    <2>3. PICK m \in n..high : ~(D[n] <= E[m])
      OBVIOUS
    <2>4. m \in 0..high /\ m \in Nat /\ n <= m
      BY <2>2
    <2>5. D[n] \in Nat /\ E[m] \in Nat \ {0}
      BY <1>1, <2>2, <2>4
    <2>6. ~(n < AddressBase)
      BY <1>1, <2>2, <2>3, <2>5
    <2>7. ~(m < AddressBase)
      BY <1>0, <2>2, <2>4, <2>6
    <2>8. PICK p, q : p = n \div AddressBase /\ q = m \div AddressBase
      OBVIOUS
    <2>9. p \in 0..n - 1 /\ q \in 0..m - 1 /\ p <= q
      <3>1. n >= AddressBase /\ m >= AddressBase /\ AddressBase > 0
        BY <1>0, <2>2, <2>4, <2>6, <2>7
      <3>2. p \in 0..n - 1
        BY <1>0, <2>2, <2>8, <3>1, QuotientSmaller
      <3>3. q \in 0..m - 1
        BY <1>0, <2>4, <2>8, <3>1, QuotientSmaller
      <3>4. p <= q
        BY <1>0, <2>2, <2>4, <2>8, <3>1, QuotientOrder
      <3> QED BY <3>2, <3>3, <3>4
    <2>10. p \in 0..low /\ ~(n <= p) /\ q \in p..high /\ q \in 0..high
      BY <2>2, <2>4, <2>9
    <2>11. D[p] <= E[q]
      BY <2>1, <2>10
    <2>12. D[n] = D[p] + 1 /\ E[m] = E[q] + 1
      BY <1>1, <2>2, <2>4, <2>6, <2>7, <2>8
    <2>13. D[p] \in Nat /\ E[q] \in Nat
      BY <1>1, <2>10
    <2> QED BY <2>3, <2>11, <2>12, <2>13
  <1> QED BY <1>2 DEF D, E

\* A row further on with more bytes is no shorter.
LEMMA RowOrder ==
    ASSUME NEW low \in Nat, NEW high \in Nat, low <= high, NEW few \in Nat, few <= HexRowBytes
    PROVE  /\ HexRow(low, few) \in Nat /\ HexRow(high, HexRowBytes) \in Nat
           /\ HexRow(low, few) <= HexRow(high, HexRowBytes)
  <1>1. HexRowBytes \in Nat /\ AddressDigits \in Nat
    BY ConstantsAssumption
  <1>2. PICK l, h : l = Digits(low)[low] /\ h = Digits(high)[high]
    OBVIOUS
  <1>3. l \in Nat /\ h \in Nat /\ l <= h
    <2>1. low \in 0..low /\ high \in 0..high /\ high \in low..high
      OBVIOUS
    <2> QED BY <1>2, <2>1, DigitsType, DigitsOrder
  <1>4. /\ Address(low) \in Nat /\ Address(high) \in Nat /\ Address(low) <= Address(high)
    BY <1>1, <1>2, <1>3 DEF Address, Most
  <1> QED BY <1>1, <1>4 DEF HexRow

-----------------------------------------------------------------------------
\* The last row of a dump holds at least one byte.
LEMMA RowsFacts ==
    ASSUME NEW n \in Nat
    PROVE  /\ Rows(n) \in Nat
           /\ Rows(n) * HexRowBytes < n + HexRowBytes
  <1>1. PICK b : b = HexRowBytes
    OBVIOUS
  <1>2. b \in Nat /\ b > 0
    BY <1>1, ConstantsAssumption
  <1>3. PICK m, r : m = n + b - 1 /\ r = m \div b
    OBVIOUS
  <1>4. m \in Nat
    BY <1>2, <1>3
  <1>5. r \in Nat /\ b * r <= m
    BY <1>2, <1>3, <1>4, Quotient
  <1>6. r * b = b * r
    BY <1>2, <1>5
  <1>7. r * b < n + b
    BY <1>2, <1>3, <1>5, <1>6
  <1>8. Rows(n) = r
    BY <1>1, <1>3 DEF Rows
  <1> QED BY <1>1, <1>5, <1>7, <1>8

LEMMA RowsOrder ==
    ASSUME NEW m \in Nat, NEW n \in Nat, m <= n
    PROVE  Rows(m) <= Rows(n)
  <1>1. PICK b : b = HexRowBytes
    OBVIOUS
  <1>2. b \in Nat /\ b > 0
    BY <1>1, ConstantsAssumption
  <1>3. PICK p, q : p = m + b - 1 /\ q = n + b - 1
    OBVIOUS
  <1>4. p \in Nat /\ q \in Nat /\ p <= q
    BY <1>2, <1>3
  <1>5. p \div b <= q \div b
    BY <1>2, <1>4, QuotientOrder
  <1> QED BY <1>1, <1>3, <1>5 DEF Rows

\* What the recursive definition of the dump's length says of each row.
LEMMA DumpUnfold ==
    ASSUME NEW bytes \in Nat
    PROVE  /\ Dumped(bytes)[0] = 0
           /\ \A k \in 1..Rows(bytes) :
                 Dumped(bytes)[k] = Dumped(bytes)[k - 1] + RowOf(bytes, k)
  <1> DEFINE Unfolds(f, k) ==
        f = [n \in 0..k |-> IF n = 0 THEN 0 ELSE f[n - 1] + RowOf(bytes, n)]
  <1>0. Rows(bytes) \in Nat
    BY RowsFacts
  <1>1. \A k \in Nat : \E f : Unfolds(f, k)
    <2> DEFINE T == {k \in Nat : ~\E f : Unfolds(f, k)}
    <2> SUFFICES ASSUME T # {} PROVE FALSE
      OBVIOUS
    <2>1. PICK k \in T : \A m \in T : k <= m
      <3> HIDE DEF Unfolds
      <3> QED BY LeastElement
    <2>2. CASE k = 0
      <3> DEFINE g == [n \in 0..0 |-> 0]
      <3>1. \A n \in 0..0 : g[n] = IF n = 0 THEN 0 ELSE g[n - 1] + RowOf(bytes, n)
        OBVIOUS
      <3>2. Unfolds(g, k)
        BY <2>2, <3>1
      <3> HIDE DEF Unfolds
      <3> QED BY <3>2
    <2>3. CASE k # 0
      <3>1. k - 1 \in Nat /\ k - 1 \notin T
        <4> HIDE DEF Unfolds
        <4>1. k \in Nat /\ k - 1 \in Nat
          BY <2>3
        <4>2. ~(k <= k - 1)
          BY <4>1
        <4> QED BY <2>1, <4>1, <4>2
      <3>2. PICK f : Unfolds(f, k - 1)
        <4> HIDE DEF Unfolds
        <4> QED BY <3>1
      <3> DEFINE g == [n \in 0..k |-> IF n = k THEN f[k - 1] + RowOf(bytes, k) ELSE f[n]]
      <3>3. \A n \in 0..k - 1 : g[n] = f[n]
        BY <3>1
      <3>4. \A n \in 0..k : g[n] = IF n = 0 THEN 0 ELSE g[n - 1] + RowOf(bytes, n)
        <4> TAKE n \in 0..k
        <4>1. CASE n = k
          <5>1. g[k - 1] = f[k - 1]
            BY <3>1, <3>3
          <5> QED BY <2>3, <4>1, <5>1
        <4>2. CASE n # k /\ n # 0
          <5>1. n \in 0..k - 1 /\ n - 1 \in 0..k - 1
            BY <4>2
          <5>2. f[n] = f[n - 1] + RowOf(bytes, n)
            BY <3>2, <4>2, <5>1
          <5> QED BY <3>3, <4>2, <5>1, <5>2
        <4>3. CASE n = 0 /\ n # k
          BY <3>1, <3>2, <3>3, <4>3
        <4> QED BY <4>1, <4>2, <4>3
      <3>5. Unfolds(g, k)
        BY <3>4
      <3> HIDE DEF Unfolds
      <3> QED BY <3>5
    <2> QED BY <2>2, <2>3
  <1>2. PICK f : Unfolds(f, Rows(bytes))
    BY <1>0, <1>1
  <1>3. Unfolds(Dumped(bytes), Rows(bytes))
    <2>1. Dumped(bytes) = CHOOSE g : Unfolds(g, Rows(bytes))
      BY DEF Dumped
    <2> HIDE DEF Unfolds
    <2> QED BY <1>2, <2>1
  <1> DEFINE F == Dumped(bytes)
  <1>4. \A n \in 0..Rows(bytes) : F[n] = IF n = 0 THEN 0 ELSE F[n - 1] + RowOf(bytes, n)
    <2> HIDE DEF F
    <2>1. Unfolds(F, Rows(bytes))
      BY <1>3 DEF F
    <2> QED BY <2>1
  <1>5. F[0] = 0 /\ \A n \in 1..Rows(bytes) : F[n] = F[n - 1] + RowOf(bytes, n)
    BY <1>0, <1>4
  <1> QED BY <1>5

\* Each row of a dump is at most as long as the row max_hex_characters counts.
LEMMA RowBound ==
    ASSUME NEW n \in Nat, NEW limit \in Nat \ {0}, n <= limit, NEW k \in 1..Rows(n)
    PROVE  /\ RowOf(n, k) \in Nat /\ HexRow(limit - 1, HexRowBytes) \in Nat
           /\ RowOf(n, k) <= HexRow(limit - 1, HexRowBytes)
  <1>1. PICK b, o, r : b = HexRowBytes /\ o = (k - 1) * b /\ r = Rows(n)
    OBVIOUS
  <1>2. b \in Nat /\ b > 0 /\ r \in Nat /\ r * b < n + b /\ k \in 1..r
    BY <1>1, ConstantsAssumption, RowsFacts
  <1>3. o \in Nat /\ o < n
    <2>1. k - 1 \in Nat /\ r - 1 \in Nat /\ k - 1 <= r - 1
      BY <1>2
    <2>2. (k - 1) * b <= (r - 1) * b
      BY <1>2, <2>1, ProductOrder
    <2>3. (r - 1) * b = r * b - b /\ r * b \in Nat /\ (k - 1) * b \in Nat
      BY <1>2, <2>1
    <2> QED BY <1>1, <1>2, <2>2, <2>3
  <1>4. limit - 1 \in Nat /\ o <= limit - 1 /\ n - o \in Nat
    BY <1>3
  <1>5. Least(b, n - o) \in Nat /\ Least(b, n - o) <= b
    BY <1>2, <1>4 DEF Least
  <1>6. RowOf(n, k) = HexRow(o, Least(b, n - o))
    BY <1>1 DEF RowOf
  <1> QED BY <1>1, <1>3, <1>4, <1>5, <1>6, RowOrder

\* The hex dump of at most max_hex_bytes bytes is at most as long as
\* max_hex_characters says.
LEMMA DumpBound ==
    ASSUME NEW n \in Nat, config.max_hex_bytes \in Nat \ {0}, n <= config.max_hex_bytes
    PROVE  HexDump(n) <= MaxHexCharacters
  <1>1. PICK limit, h, r : /\ limit = config.max_hex_bytes /\ r = Rows(n)
                           /\ h = HexRow(limit - 1, HexRowBytes)
    OBVIOUS
  <1>2. limit \in Nat \ {0} /\ n <= limit /\ r \in Nat /\ Rows(limit) \in Nat
        /\ r <= Rows(limit)
    BY <1>1, RowsFacts, RowsOrder
  <1>3. h \in Nat
    <2>1. limit - 1 \in Nat /\ HexRowBytes \in Nat
      BY <1>2, ConstantsAssumption
    <2> QED BY <1>1, <2>1, RowOrder
  <1>4. \A k \in 1..r : RowOf(n, k) \in Nat /\ RowOf(n, k) <= h
    BY <1>1, <1>2, RowBound
  <1> DEFINE F == Dumped(n)
             T == {k \in 0..r : ~(F[k] \in Nat /\ F[k] <= k * h)}
  <1>5. F[0] = 0 /\ \A k \in 1..r : F[k] = F[k - 1] + RowOf(n, k)
    BY <1>1, DumpUnfold
  <1> HIDE DEF F
  <1>6. ASSUME T # {} PROVE FALSE
    <2>1. PICK k \in T : \A m \in T : k <= m
      <3>1. T \in SUBSET Nat
        OBVIOUS
      <3> HIDE DEF T
      <3> QED BY <1>6, <3>1, LeastElement
    <2>2. k # 0
      BY <1>3, <1>5
    <2>3. k \in 1..r /\ k - 1 \in 0..r /\ ~(k <= k - 1)
      BY <1>2, <2>2
    <2>4. F[k - 1] \in Nat /\ F[k - 1] <= (k - 1) * h
      BY <2>1, <2>3
    <2>5. PICK x, y : x = F[k - 1] /\ y = RowOf(n, k)
      OBVIOUS
    <2>6. x \in Nat /\ y \in Nat /\ y <= h /\ x <= (k - 1) * h /\ F[k] = x + y
      BY <1>4, <1>5, <2>3, <2>4, <2>5
    <2>7. (k - 1) * h = k * h - h /\ k * h \in Nat
      BY <1>3, <2>3
    <2>8. F[k] \in Nat /\ F[k] <= k * h
      BY <1>3, <2>6, <2>7
    <2> QED BY <2>1, <2>8
  <1>7. F[r] \in Nat /\ F[r] <= r * h
    BY <1>2, <1>6
  <1>8. r * h <= Rows(limit) * h
    BY <1>2, <1>3, ProductOrder
  <1>9. r * h \in Nat /\ Rows(limit) * h \in Nat
    BY <1>2, <1>3
  <1>10. HexDump(n) = F[r] /\ MaxHexCharacters = Rows(limit) * h
    BY <1>1 DEF HexDump, MaxHexCharacters, F
  <1> QED BY <1>7, <1>8, <1>9, <1>10
-----------------------------------------------------------------------------
\* A view passes its validation where no image is held in part.
LEMMA ViewRight ==
    ASSUME config \in Configs, total \in Totals, ValidConfig,
           NEW stream \in Streams, NEW n \in 0..total, NEW p, p = Inspect(stream, n)
    PROVE  Valid(View(p), p) <=> ~HeldInPart(p)
  <1>1. PICK P, H, I, t, h : /\ P = config.max_preview_bytes /\ H = config.max_hex_bytes
                             /\ I = config.max_image_bytes /\ t = total
                             /\ h = stream.header
    OBVIOUS
  <1>2. P \in Nat /\ H \in Nat \ {0} /\ I \in Nat /\ t \in Nat /\ h \in Nat /\ n \in 0..t
        /\ P # 0 /\ H <= P /\ P <= I
    BY <1>1, ConstantsAssumption DEF Config, Stream, ValidConfig
  <1>3. PICK r, image, text, done :
           /\ r = Retained(stream, n) /\ image = Image(stream, n) /\ text = Text(stream, n)
           /\ done = (image /\ ~(r # t) /\ t <= I /\ n = t)
    OBVIOUS
  <1>4. image \in BOOLEAN /\ text \in BOOLEAN /\ done \in BOOLEAN
    BY <1>3, Zenon DEF Image, ShowsImage, Text
  <1>5. p = [stream |-> stream, retained |-> r, truncated |-> r # t, text |-> text,
             hex_dump |-> HexDump(Least(r, H)), image |-> image, complete |-> done,
             kind |-> Classify(t, image, text)]
    BY <1>1, <1>3, Zenon DEF Inspect
  <1>6. View(p) = [stream_bytes |-> t, preview_bytes |-> r, truncated |-> r # t,
                   kind |-> Classify(t, image, text), text |-> text,
                   text_bytes |-> Least(r, P), hex_dump |-> HexDump(Least(r, H)),
                   image |-> image /\ done]
    BY <1>1, <1>5 DEF View
  <1>7. r = Least(n, IF image /\ t <= I THEN I ELSE P)
    BY <1>1, <1>3 DEF Retained
  <1>8. image <=> (h # 0 /\ h <= Least(n, P))
    BY <1>1, <1>3 DEF Image, ShowsImage
  <1>9. r \in Nat /\ r <= t /\ (r <= P \/ (image /\ t <= I /\ r <= I))
    BY <1>2, <1>4, <1>7 DEF Least
  <1>10. HexDump(Least(r, H)) <= MaxHexCharacters
    <2>1. Least(r, H) \in Nat /\ Least(r, H) <= H
      BY <1>2, <1>9 DEF Least
    <2> QED BY <1>1, <1>2, <2>1, DumpBound
  <1>11. Least(r, P) <= P /\ Least(r, P) <= r
    BY <1>2, <1>9 DEF Least
  <1>12. text => ~image
    BY <1>3 DEF Text
  <1>13. PICK kind : kind = Classify(t, image, text)
    OBVIOUS
  <1>14. /\ kind = "image" <=> t # 0 /\ image
         /\ kind = Classify(t, kind = "image" \/ (image /\ done), text)
    BY <1>3, <1>13, Zenon DEF Classify
  <1>15. done => /\ image /\ r = t /\ t <= I /\ t # 0
                 /\ ShowsImage(stream, Least(r, P))
    <2> SUFFICES ASSUME done PROVE image /\ r = t /\ t <= I /\ t # 0
                                   /\ ShowsImage(stream, Least(r, P))
      OBVIOUS
    <2>1. image /\ r = t /\ t <= I /\ n = t
      BY <1>3
    <2>2. h # 0 /\ h <= Least(t, P)
      BY <1>8, <2>1
    <2>3. t # 0
      BY <1>2, <2>2 DEF Least
    <2> QED BY <1>1, <2>1, <2>2, <2>3 DEF ShowsImage
  <1>16. HeldInPart(p) <=> image /\ ~done /\ r > P
    BY <1>1, <1>5 DEF HeldInPart
  <1>17. PICK limit : limit = IF image /\ done THEN I ELSE P
    OBVIOUS
  <1>18. r <= limit <=> ~(image /\ ~done /\ r > P)
    BY <1>2, <1>4, <1>9, <1>15, <1>17
  <1>19. (r # t) <=> r < t
    BY <1>2, <1>9
  <1>20. Valid(View(p), p) <=>
           /\ r <= t
           /\ r <= limit
           /\ (r # t) <=> r < t
           /\ HexDump(Least(r, H)) <= MaxHexCharacters
           /\ text => Least(r, P) <= P /\ Least(r, P) <= r
           /\ kind = Classify(t, kind = "image" \/ (image /\ done), text)
           /\ kind = "image" => ~text
           /\ image /\ done => t # 0 /\ r = t /\ r <= I /\ ShowsImage(stream, Least(r, P))
    <2>1. PICK view, cut, whole, dump, held :
             /\ view = View(p) /\ cut = (r # t) /\ whole = (image /\ done)
             /\ dump = HexDump(Least(r, H)) /\ held = Least(r, P)
      OBVIOUS
    <2>2. view = [stream_bytes |-> t, preview_bytes |-> r, truncated |-> cut, kind |-> kind,
                  text |-> text, text_bytes |-> held, hex_dump |-> dump, image |-> whole]
      BY <1>6, <1>13, <2>1, Zenon
    <2>3. /\ view.stream_bytes = t /\ view.preview_bytes = r /\ view.truncated = cut
          /\ view.kind = kind /\ view.text = text /\ view.text_bytes = held
          /\ view.hex_dump = dump /\ view.image = whole
      BY <2>2
    <2>4. p.stream = stream
      BY <1>5
    <2>5. Valid(view, p) <=>
            /\ r <= t
            /\ r <= (IF whole THEN I ELSE P)
            /\ cut <=> r < t
            /\ dump <= MaxHexCharacters
            /\ text => held <= P /\ held <= r
            /\ kind = Classify(t, kind = "image" \/ whole, text)
            /\ kind = "image" => ~text
            /\ whole => t # 0 /\ r = t /\ r <= I /\ ShowsImage(stream, Least(r, P))
      BY <1>1, <2>3, <2>4 DEF Valid, PayloadValid
    <2> QED BY <1>17, <2>1, <2>5
  <1>21. image /\ done => t # 0 /\ r = t /\ r <= I /\ ShowsImage(stream, Least(r, P))
    BY <1>15
  <1>22. kind = "image" => ~text
    BY <1>12, <1>14
  <1> QED BY <1>9, <1>10, <1>11, <1>14, <1>16, <1>18, <1>19, <1>20, <1>21, <1>22

-----------------------------------------------------------------------------
\* The preview at hand is what inspecting some capture gives.
Inspected == \E stream \in Streams, n \in 0..total : preview = Inspect(stream, n)

\* Captures are asked for within a valid configuration's limits only, and what is
\* returned is an inspection of some stream's first bytes.
PreviewInv ==
    /\ config \in Configs /\ total \in Totals
    /\ phase \in {"config", "first", "second"} => result = "none"
    /\ phase \in {"first", "second"} => ValidConfig /\ asked <= config.max_image_bytes
    /\ result = "ok" => ValidConfig /\ Inspected

LEMMA PreviewStarts == Init => PreviewInv
  BY DEF Init, PreviewInv

LEMMA PreviewStep == PreviewInv /\ [Next]_vars => PreviewInv'
  <1> SUFFICES ASSUME PreviewInv, [Next]_vars PROVE PreviewInv'
    OBVIOUS
  <1>1. CASE Start
    <2>1. config' = config /\ total' = total /\ preview' = preview /\ phase = "config"
          /\ result = "none"
      BY <1>1 DEF Start, PreviewInv
    <2>2. ValidConfig' <=> ValidConfig
      BY <2>1 DEF ValidConfig
    <2>3. CASE ValidConfig
      <3>1. asked' = config.max_preview_bytes /\ phase' = "first" /\ result' = "none"
        BY <1>1, <2>1, <2>3 DEF Start, Capture
      <3>2. asked' <= config'.max_image_bytes
        BY <2>1, <2>3, <3>1 DEF ValidConfig
      <3> QED BY <2>1, <2>2, <2>3, <3>1, <3>2 DEF PreviewInv
    <2>4. CASE ~ValidConfig
      <3>1. phase' = "returned" /\ result' = "error"
        BY <1>1, <2>4 DEF Start, Return
      <3> QED BY <2>1, <3>1 DEF PreviewInv
    <2> QED BY <2>3, <2>4
  <1>2. CASE CaptureFails
    BY <1>2 DEF CaptureFails, Return, PreviewInv
  <1>3. CASE First
    <2>1. config' = config /\ total' = total /\ phase = "first" /\ ValidConfig
          /\ result = "none"
      BY <1>3 DEF First, PreviewInv
    <2>2. ValidConfig'
      BY <2>1 DEF ValidConfig
    <2>3. PICK stream \in Streams, n \in 0..total : preview' = Inspect(stream, n)
      BY <1>3 DEF First, Lengths
    <2>4. Inspect(stream, n)' = Inspect(stream, n)
      BY <2>1 DEF Inspect, Retained, Image, Text, ShowsImage, ShowsText, HexDump, Dumped,
                  RowOf, HexRow, Address, Digits, Rows
    <2>5. CASE NeedsWhole(preview')
      <3>1. asked' = total /\ phase' = "second" /\ result' = "none"
        BY <1>3, <2>1, <2>5 DEF First, Capture
      <3>2. total <= config.max_image_bytes
        BY <2>5 DEF NeedsWhole
      <3> QED BY <2>1, <2>2, <3>1, <3>2 DEF PreviewInv
    <2>6. CASE ~NeedsWhole(preview')
      <3>1. phase' = "returned" /\ result' = "ok"
        BY <1>3, <2>6 DEF First, Return
      <3> QED BY <2>1, <2>2, <2>3, <2>4, <3>1 DEF PreviewInv, Inspected
    <2> QED BY <2>5, <2>6
  <1>4. CASE Second
    <2>1. config' = config /\ total' = total /\ phase = "second" /\ ValidConfig
          /\ phase' = "returned" /\ result' = "ok"
      BY <1>4 DEF Second, Return, PreviewInv
    <2>2. ValidConfig'
      BY <2>1 DEF ValidConfig
    <2>3. PICK stream \in Streams, n \in 0..total : preview' = Inspect(stream, n)
      BY <1>4 DEF Second, Lengths
    <2>4. Inspect(stream, n)' = Inspect(stream, n)
      BY <2>1 DEF Inspect, Retained, Image, Text, ShowsImage, ShowsText, HexDump, Dumped,
                  RowOf, HexRow, Address, Digits, Rows
    <2> QED BY <2>1, <2>2, <2>3, <2>4 DEF PreviewInv, Inspected
  <1>5. CASE UNCHANGED vars
    <2>1. config' = config /\ total' = total /\ phase' = phase /\ asked' = asked
          /\ preview' = preview /\ result' = result
      BY <1>5 DEF vars
    <2>2. ValidConfig' <=> ValidConfig
      BY <2>1 DEF ValidConfig
    <2>3. ASSUME result = "ok" PROVE Inspected'
      <3>1. PICK stream \in Streams, n \in 0..total : preview = Inspect(stream, n)
        BY <2>3 DEF PreviewInv, Inspected
      <3>2. Inspect(stream, n)' = Inspect(stream, n)
        BY <2>1 DEF Inspect, Retained, Image, Text, ShowsImage, ShowsText, HexDump, Dumped,
                    RowOf, HexRow, Address, Digits, Rows
      <3> QED BY <2>1, <3>1, <3>2 DEF Inspected
    <2> QED BY <2>1, <2>2, <2>3 DEF PreviewInv
  <1> QED BY <1>1, <1>2, <1>3, <1>4, <1>5 DEF Next, Returned

\* What the invariant is for: the view of a returned preview is right by the lemma
\* about the inspection that made it.
LEMMA PreviewRight == PreviewInv => ViewValidates
  <1> SUFFICES ASSUME PreviewInv PROVE ViewValidates
    OBVIOUS
  <1>1. ASSUME result = "ok" PROVE Valid(View(preview), preview) <=> ~HeldInPart(preview)
    <2>1. PICK stream \in Streams, n \in 0..total : preview = Inspect(stream, n)
      BY <1>1 DEF PreviewInv, Inspected
    <2>2. config \in Configs /\ total \in Totals /\ ValidConfig
      BY <1>1 DEF PreviewInv
    <2> QED BY <2>1, <2>2, ViewRight
  <1>2. phase \in {"first", "second"} => asked <= config.max_image_bytes
    BY DEF PreviewInv
  <1> QED BY <1>1, <1>2 DEF ViewValidates

\* The view of any preview that is returned passes the validation it meets later,
\* unless an image is held in part, whatever the stream turned into between the two
\* captures and however many of its bytes they return; no capture asks for more
\* than an image may have.
THEOREM ViewsValidate == Spec => []ViewValidates
  <1>1. Init => PreviewInv
    BY PreviewStarts
  <1>2. PreviewInv /\ [Next]_vars => PreviewInv'
    BY PreviewStep
  <1>3. PreviewInv => ViewValidates
    BY PreviewRight
  <1> QED BY <1>1, <1>2, <1>3, PTL DEF Spec

-----------------------------------------------------------------------------
(* LZNT1: powers of two and the parts of a token.                          *)

\* What the recursion says of each power of two.
LEMMA PowerUnfold ==
           /\ Power[0] = 1
           /\ \A n \in 1..TokenBits : Power[n] = 2 * Power[n - 1]
  <1> DEFINE Unfolds(f, k) ==
        f = [n \in 0..k |-> IF n = 0 THEN 1 ELSE 2 * f[n - 1]]
  <1>0. TokenBits \in Nat
    BY TokenAssumption
  <1>1. \A k \in Nat : \E f : Unfolds(f, k)
    <2> DEFINE T == {k \in Nat : ~\E f : Unfolds(f, k)}
    <2> SUFFICES ASSUME T # {} PROVE FALSE
      OBVIOUS
    <2>1. PICK k \in T : \A m \in T : k <= m
      <3> HIDE DEF Unfolds
      <3> QED BY LeastElement
    <2>2. CASE k = 0
      <3> DEFINE g == [n \in 0..0 |-> 1]
      <3>1. \A n \in 0..0 : g[n] = IF n = 0 THEN 1 ELSE 2 * g[n - 1]
        OBVIOUS
      <3>2. Unfolds(g, k)
        BY <2>2, <3>1
      <3> HIDE DEF Unfolds
      <3> QED BY <3>2
    <2>3. CASE k # 0
      <3>1. k - 1 \in Nat /\ k - 1 \notin T
        <4> HIDE DEF Unfolds
        <4>1. k \in Nat /\ k - 1 \in Nat
          BY <2>3
        <4>2. ~(k <= k - 1)
          BY <4>1
        <4> QED BY <2>1, <4>1, <4>2
      <3>2. PICK f : Unfolds(f, k - 1)
        <4> HIDE DEF Unfolds
        <4> QED BY <3>1
      <3> DEFINE g == [n \in 0..k |-> IF n = k THEN 2 * f[k - 1] ELSE f[n]]
      <3>3. \A n \in 0..k - 1 : g[n] = f[n]
        BY <3>1
      <3>4. \A n \in 0..k : g[n] = IF n = 0 THEN 1 ELSE 2 * g[n - 1]
        <4> TAKE n \in 0..k
        <4>1. CASE n = k
          <5>1. g[k - 1] = f[k - 1]
            BY <3>1, <3>3
          <5> QED BY <2>3, <4>1, <5>1
        <4>2. CASE n # k /\ n # 0
          <5>1. n \in 0..k - 1 /\ n - 1 \in 0..k - 1
            BY <4>2
          <5>2. f[n] = 2 * f[n - 1]
            BY <3>2, <4>2, <5>1
          <5> QED BY <3>3, <4>2, <5>1, <5>2
        <4>3. CASE n = 0 /\ n # k
          BY <3>1, <3>2, <3>3, <4>3
        <4> QED BY <4>1, <4>2, <4>3
      <3>5. Unfolds(g, k)
        BY <3>4
      <3> HIDE DEF Unfolds
      <3> QED BY <3>5
    <2> QED BY <2>2, <2>3
  <1>2. PICK f : Unfolds(f, TokenBits)
    BY <1>0, <1>1
  <1>3. Unfolds(Power, TokenBits)
    <2>1. Power = CHOOSE g : Unfolds(g, TokenBits)
      BY DEF Power
    <2> HIDE DEF Unfolds
    <2> QED BY <1>2, <2>1
  <1> DEFINE F == Power
  <1>4. \A n \in 0..TokenBits : F[n] = IF n = 0 THEN 1 ELSE 2 * F[n - 1]
    <2> HIDE DEF F
    <2>1. Unfolds(F, TokenBits)
      BY <1>3 DEF F
    <2> QED BY <2>1
  <1> QED BY <1>0, <1>4

\* What the recursions say of each prefix of a chunk or of a stream.
LEMMA CountsUnfold ==
    ASSUME NEW ops, Len(ops) \in Nat
    PROVE  /\ Counts(ops)[0] = 0
           /\ \A n \in 1..Len(ops) : Counts(ops)[n] = Counts(ops)[n - 1] + Length(ops[n])
  <1> DEFINE Unfolds(f, k) ==
        f = [n \in 0..k |-> IF n = 0 THEN 0 ELSE f[n - 1] + Length(ops[n])]
  <1>0. Len(ops) \in Nat
    OBVIOUS
  <1>1. \A k \in Nat : \E f : Unfolds(f, k)
    <2> DEFINE T == {k \in Nat : ~\E f : Unfolds(f, k)}
    <2> SUFFICES ASSUME T # {} PROVE FALSE
      OBVIOUS
    <2>1. PICK k \in T : \A m \in T : k <= m
      <3> HIDE DEF Unfolds
      <3> QED BY LeastElement
    <2>2. CASE k = 0
      <3> DEFINE g == [n \in 0..0 |-> 0]
      <3>1. \A n \in 0..0 : g[n] = IF n = 0 THEN 0 ELSE g[n - 1] + Length(ops[n])
        OBVIOUS
      <3>2. Unfolds(g, k)
        BY <2>2, <3>1
      <3> HIDE DEF Unfolds
      <3> QED BY <3>2
    <2>3. CASE k # 0
      <3>1. k - 1 \in Nat /\ k - 1 \notin T
        <4> HIDE DEF Unfolds
        <4>1. k \in Nat /\ k - 1 \in Nat
          BY <2>3
        <4>2. ~(k <= k - 1)
          BY <4>1
        <4> QED BY <2>1, <4>1, <4>2
      <3>2. PICK f : Unfolds(f, k - 1)
        <4> HIDE DEF Unfolds
        <4> QED BY <3>1
      <3> DEFINE g == [n \in 0..k |-> IF n = k THEN f[k - 1] + Length(ops[k]) ELSE f[n]]
      <3>3. \A n \in 0..k - 1 : g[n] = f[n]
        BY <3>1
      <3>4. \A n \in 0..k : g[n] = IF n = 0 THEN 0 ELSE g[n - 1] + Length(ops[n])
        <4> TAKE n \in 0..k
        <4>1. CASE n = k
          <5>1. g[k - 1] = f[k - 1]
            BY <3>1, <3>3
          <5> QED BY <2>3, <4>1, <5>1
        <4>2. CASE n # k /\ n # 0
          <5>1. n \in 0..k - 1 /\ n - 1 \in 0..k - 1
            BY <4>2
          <5>2. f[n] = f[n - 1] + Length(ops[n])
            BY <3>2, <4>2, <5>1
          <5> QED BY <3>3, <4>2, <5>1, <5>2
        <4>3. CASE n = 0 /\ n # k
          BY <3>1, <3>2, <3>3, <4>3
        <4> QED BY <4>1, <4>2, <4>3
      <3>5. Unfolds(g, k)
        BY <3>4
      <3> HIDE DEF Unfolds
      <3> QED BY <3>5
    <2> QED BY <2>2, <2>3
  <1>2. PICK f : Unfolds(f, Len(ops))
    BY <1>0, <1>1
  <1>3. Unfolds(Counts(ops), Len(ops))
    <2>1. Counts(ops) = CHOOSE g : Unfolds(g, Len(ops))
      BY DEF Counts
    <2> HIDE DEF Unfolds
    <2> QED BY <1>2, <2>1
  <1> DEFINE F == Counts(ops)
  <1>4. \A n \in 0..Len(ops) : F[n] = IF n = 0 THEN 0 ELSE F[n - 1] + Length(ops[n])
    <2> HIDE DEF F
    <2>1. Unfolds(F, Len(ops))
      BY <1>3 DEF F
    <2> QED BY <2>1
  <1> QED BY <1>0, <1>4

LEMMA ExpandedUnfold ==
    ASSUME NEW ops, Len(ops) \in Nat
    PROVE  /\ Expanded(ops)[0] = <<>>
           /\ \A n \in 1..Len(ops) : Expanded(ops)[n] = ExpandOne(Expanded(ops)[n - 1], ops[n])
  <1> DEFINE Unfolds(f, k) ==
        f = [n \in 0..k |-> IF n = 0 THEN <<>> ELSE ExpandOne(f[n - 1], ops[n])]
  <1>0. Len(ops) \in Nat
    OBVIOUS
  <1>1. \A k \in Nat : \E f : Unfolds(f, k)
    <2> DEFINE T == {k \in Nat : ~\E f : Unfolds(f, k)}
    <2> SUFFICES ASSUME T # {} PROVE FALSE
      OBVIOUS
    <2>1. PICK k \in T : \A m \in T : k <= m
      <3> HIDE DEF Unfolds
      <3> QED BY LeastElement
    <2>2. CASE k = 0
      <3> DEFINE g == [n \in 0..0 |-> <<>>]
      <3>1. \A n \in 0..0 : g[n] = IF n = 0 THEN <<>> ELSE ExpandOne(g[n - 1], ops[n])
        OBVIOUS
      <3>2. Unfolds(g, k)
        BY <2>2, <3>1
      <3> HIDE DEF Unfolds
      <3> QED BY <3>2
    <2>3. CASE k # 0
      <3>1. k - 1 \in Nat /\ k - 1 \notin T
        <4> HIDE DEF Unfolds
        <4>1. k \in Nat /\ k - 1 \in Nat
          BY <2>3
        <4>2. ~(k <= k - 1)
          BY <4>1
        <4> QED BY <2>1, <4>1, <4>2
      <3>2. PICK f : Unfolds(f, k - 1)
        <4> HIDE DEF Unfolds
        <4> QED BY <3>1
      <3> DEFINE g == [n \in 0..k |-> IF n = k THEN ExpandOne(f[k - 1], ops[k]) ELSE f[n]]
      <3>3. \A n \in 0..k - 1 : g[n] = f[n]
        BY <3>1
      <3>4. \A n \in 0..k : g[n] = IF n = 0 THEN <<>> ELSE ExpandOne(g[n - 1], ops[n])
        <4> TAKE n \in 0..k
        <4>1. CASE n = k
          <5>1. g[k - 1] = f[k - 1]
            BY <3>1, <3>3
          <5> QED BY <2>3, <4>1, <5>1
        <4>2. CASE n # k /\ n # 0
          <5>1. n \in 0..k - 1 /\ n - 1 \in 0..k - 1
            BY <4>2
          <5>2. f[n] = ExpandOne(f[n - 1], ops[n])
            BY <3>2, <4>2, <5>1
          <5> QED BY <3>3, <4>2, <5>1, <5>2
        <4>3. CASE n = 0 /\ n # k
          BY <3>1, <3>2, <3>3, <4>3
        <4> QED BY <4>1, <4>2, <4>3
      <3>5. Unfolds(g, k)
        BY <3>4
      <3> HIDE DEF Unfolds
      <3> QED BY <3>5
    <2> QED BY <2>2, <2>3
  <1>2. PICK f : Unfolds(f, Len(ops))
    BY <1>0, <1>1
  <1>3. Unfolds(Expanded(ops), Len(ops))
    <2>1. Expanded(ops) = CHOOSE g : Unfolds(g, Len(ops))
      BY DEF Expanded
    <2> HIDE DEF Unfolds
    <2> QED BY <1>2, <2>1
  <1> DEFINE F == Expanded(ops)
  <1>4. \A n \in 0..Len(ops) : F[n] = IF n = 0 THEN <<>> ELSE ExpandOne(F[n - 1], ops[n])
    <2> HIDE DEF F
    <2>1. Unfolds(F, Len(ops))
      BY <1>3 DEF F
    <2> QED BY <2>1
  <1> QED BY <1>0, <1>4

LEMMA JoinedUnfold ==
    ASSUME NEW chunks, Len(chunks) \in Nat
    PROVE  /\ Joined(chunks)[0] = <<>>
           /\ \A n \in 1..Len(chunks) : Joined(chunks)[n] = ExpandChunk(Joined(chunks)[n - 1], chunks[n].operations)
  <1> DEFINE Unfolds(f, k) ==
        f = [n \in 0..k |-> IF n = 0 THEN <<>> ELSE ExpandChunk(f[n - 1], chunks[n].operations)]
  <1>0. Len(chunks) \in Nat
    OBVIOUS
  <1>1. \A k \in Nat : \E f : Unfolds(f, k)
    <2> DEFINE T == {k \in Nat : ~\E f : Unfolds(f, k)}
    <2> SUFFICES ASSUME T # {} PROVE FALSE
      OBVIOUS
    <2>1. PICK k \in T : \A m \in T : k <= m
      <3> HIDE DEF Unfolds
      <3> QED BY LeastElement
    <2>2. CASE k = 0
      <3> DEFINE g == [n \in 0..0 |-> <<>>]
      <3>1. \A n \in 0..0 : g[n] = IF n = 0 THEN <<>> ELSE ExpandChunk(g[n - 1], chunks[n].operations)
        OBVIOUS
      <3>2. Unfolds(g, k)
        BY <2>2, <3>1
      <3> HIDE DEF Unfolds
      <3> QED BY <3>2
    <2>3. CASE k # 0
      <3>1. k - 1 \in Nat /\ k - 1 \notin T
        <4> HIDE DEF Unfolds
        <4>1. k \in Nat /\ k - 1 \in Nat
          BY <2>3
        <4>2. ~(k <= k - 1)
          BY <4>1
        <4> QED BY <2>1, <4>1, <4>2
      <3>2. PICK f : Unfolds(f, k - 1)
        <4> HIDE DEF Unfolds
        <4> QED BY <3>1
      <3> DEFINE g == [n \in 0..k |-> IF n = k THEN ExpandChunk(f[k - 1], chunks[k].operations) ELSE f[n]]
      <3>3. \A n \in 0..k - 1 : g[n] = f[n]
        BY <3>1
      <3>4. \A n \in 0..k : g[n] = IF n = 0 THEN <<>> ELSE ExpandChunk(g[n - 1], chunks[n].operations)
        <4> TAKE n \in 0..k
        <4>1. CASE n = k
          <5>1. g[k - 1] = f[k - 1]
            BY <3>1, <3>3
          <5> QED BY <2>3, <4>1, <5>1
        <4>2. CASE n # k /\ n # 0
          <5>1. n \in 0..k - 1 /\ n - 1 \in 0..k - 1
            BY <4>2
          <5>2. f[n] = ExpandChunk(f[n - 1], chunks[n].operations)
            BY <3>2, <4>2, <5>1
          <5> QED BY <3>3, <4>2, <5>1, <5>2
        <4>3. CASE n = 0 /\ n # k
          BY <3>1, <3>2, <3>3, <4>3
        <4> QED BY <4>1, <4>2, <4>3
      <3>5. Unfolds(g, k)
        BY <3>4
      <3> HIDE DEF Unfolds
      <3> QED BY <3>5
    <2> QED BY <2>2, <2>3
  <1>2. PICK f : Unfolds(f, Len(chunks))
    BY <1>0, <1>1
  <1>3. Unfolds(Joined(chunks), Len(chunks))
    <2>1. Joined(chunks) = CHOOSE g : Unfolds(g, Len(chunks))
      BY DEF Joined
    <2> HIDE DEF Unfolds
    <2> QED BY <1>2, <2>1
  <1> DEFINE F == Joined(chunks)
  <1>4. \A n \in 0..Len(chunks) : F[n] = IF n = 0 THEN <<>> ELSE ExpandChunk(F[n - 1], chunks[n].operations)
    <2> HIDE DEF F
    <2>1. Unfolds(F, Len(chunks))
      BY <1>3 DEF F
    <2> QED BY <2>1
  <1> QED BY <1>0, <1>4

LEMMA JoinedLengthsUnfold ==
    ASSUME NEW chunks, Len(chunks) \in Nat
    PROVE  /\ JoinedLengths(chunks)[0] = 0
           /\ \A n \in 1..Len(chunks) : JoinedLengths(chunks)[n] = JoinedLengths(chunks)[n - 1] + Counts(chunks[n].operations)[Len(chunks[n].operations)]
  <1> DEFINE Unfolds(f, k) ==
        f = [n \in 0..k |-> IF n = 0 THEN 0 ELSE f[n - 1] + Counts(chunks[n].operations)[Len(chunks[n].operations)]]
  <1>0. Len(chunks) \in Nat
    OBVIOUS
  <1>1. \A k \in Nat : \E f : Unfolds(f, k)
    <2> DEFINE T == {k \in Nat : ~\E f : Unfolds(f, k)}
    <2> SUFFICES ASSUME T # {} PROVE FALSE
      OBVIOUS
    <2>1. PICK k \in T : \A m \in T : k <= m
      <3> HIDE DEF Unfolds
      <3> QED BY LeastElement
    <2>2. CASE k = 0
      <3> DEFINE g == [n \in 0..0 |-> 0]
      <3>1. \A n \in 0..0 : g[n] = IF n = 0 THEN 0 ELSE g[n - 1] + Counts(chunks[n].operations)[Len(chunks[n].operations)]
        OBVIOUS
      <3>2. Unfolds(g, k)
        BY <2>2, <3>1
      <3> HIDE DEF Unfolds
      <3> QED BY <3>2
    <2>3. CASE k # 0
      <3>1. k - 1 \in Nat /\ k - 1 \notin T
        <4> HIDE DEF Unfolds
        <4>1. k \in Nat /\ k - 1 \in Nat
          BY <2>3
        <4>2. ~(k <= k - 1)
          BY <4>1
        <4> QED BY <2>1, <4>1, <4>2
      <3>2. PICK f : Unfolds(f, k - 1)
        <4> HIDE DEF Unfolds
        <4> QED BY <3>1
      <3> DEFINE g == [n \in 0..k |-> IF n = k THEN f[k - 1] + Counts(chunks[k].operations)[Len(chunks[k].operations)] ELSE f[n]]
      <3>3. \A n \in 0..k - 1 : g[n] = f[n]
        BY <3>1
      <3>4. \A n \in 0..k : g[n] = IF n = 0 THEN 0 ELSE g[n - 1] + Counts(chunks[n].operations)[Len(chunks[n].operations)]
        <4> TAKE n \in 0..k
        <4>1. CASE n = k
          <5>1. g[k - 1] = f[k - 1]
            BY <3>1, <3>3
          <5> QED BY <2>3, <4>1, <5>1
        <4>2. CASE n # k /\ n # 0
          <5>1. n \in 0..k - 1 /\ n - 1 \in 0..k - 1
            BY <4>2
          <5>2. f[n] = f[n - 1] + Counts(chunks[n].operations)[Len(chunks[n].operations)]
            BY <3>2, <4>2, <5>1
          <5> QED BY <3>3, <4>2, <5>1, <5>2
        <4>3. CASE n = 0 /\ n # k
          BY <3>1, <3>2, <3>3, <4>3
        <4> QED BY <4>1, <4>2, <4>3
      <3>5. Unfolds(g, k)
        BY <3>4
      <3> HIDE DEF Unfolds
      <3> QED BY <3>5
    <2> QED BY <2>2, <2>3
  <1>2. PICK f : Unfolds(f, Len(chunks))
    BY <1>0, <1>1
  <1>3. Unfolds(JoinedLengths(chunks), Len(chunks))
    <2>1. JoinedLengths(chunks) = CHOOSE g : Unfolds(g, Len(chunks))
      BY DEF JoinedLengths
    <2> HIDE DEF Unfolds
    <2> QED BY <1>2, <2>1
  <1> DEFINE F == JoinedLengths(chunks)
  <1>4. \A n \in 0..Len(chunks) : F[n] = IF n = 0 THEN 0 ELSE F[n - 1] + Counts(chunks[n].operations)[Len(chunks[n].operations)]
    <2> HIDE DEF F
    <2>1. Unfolds(F, Len(chunks))
      BY <1>3 DEF F
    <2> QED BY <2>1
  <1> QED BY <1>0, <1>4

\* Powers are positive and grow.
LEMMA PowerType == \A n \in 0..TokenBits : Power[n] \in Nat \ {0}
  <1> DEFINE T == {n \in 0..TokenBits : Power[n] \notin Nat \ {0}}
  <1>0. TokenBits \in Nat
    BY TokenAssumption
  <1> SUFFICES ASSUME T # {} PROVE FALSE
    OBVIOUS
  <1>1. PICK n \in T : \A m \in T : n <= m
    <2>1. T \in SUBSET Nat
      BY <1>0
    <2> HIDE DEF T
    <2> QED BY <2>1, LeastElement
  <1>2. n \in 0..TokenBits /\ Power[n] \notin Nat \ {0}
    OBVIOUS
  <1>3. n # 0
    BY <1>2, PowerUnfold
  <1>4. n - 1 \in 0..TokenBits /\ ~(n <= n - 1)
    BY <1>0, <1>2, <1>3
  <1>5. Power[n - 1] \in Nat \ {0}
    BY <1>1, <1>4
  <1>6. n \in 1..TokenBits
    BY <1>0, <1>2, <1>3
  <1>7. Power[n] = 2 * Power[n - 1]
    BY <1>6, PowerUnfold
  <1> QED BY <1>2, <1>5, <1>7

LEMMA PowerOrder ==
    \A n \in 0..TokenBits : \A m \in 0..TokenBits : m < n => Power[m] < Power[n]
  <1> DEFINE T == {n \in 0..TokenBits : \E m \in 0..TokenBits : m < n /\ ~(Power[m] < Power[n])}
  <1>0. TokenBits \in Nat
    BY TokenAssumption
  <1> SUFFICES ASSUME T # {} PROVE FALSE
    OBVIOUS
  <1>1. PICK n \in T : \A m \in T : n <= m
    <2>1. T \in SUBSET Nat
      BY <1>0
    <2> HIDE DEF T
    <2> QED BY <2>1, LeastElement
  <1>2. PICK m \in 0..TokenBits : m < n /\ ~(Power[m] < Power[n])
    OBVIOUS
  <1>3. n \in 1..TokenBits /\ n - 1 \in 0..TokenBits /\ ~(n <= n - 1)
    BY <1>0, <1>2
  <1>4. n - 1 \notin T
    BY <1>1, <1>3
  <1>5. m = n - 1 \/ Power[m] < Power[n - 1]
    <2>1. m = n - 1 \/ m < n - 1
      BY <1>2, <1>3
    <2> QED BY <1>3, <1>4, <2>1
  <1>6. Power[n] = 2 * Power[n - 1]
    BY <1>3, PowerUnfold
  <1>7. Power[n - 1] \in Nat \ {0} /\ Power[m] \in Nat /\ Power[n] \in Nat
    BY <1>3, PowerType
  <1>8. Power[m] <= Power[n - 1]
    BY <1>5, <1>7
  <1> QED BY <1>2, <1>6, <1>7, <1>8

\* Quotient and remainder are the only numbers that add up.
LEMMA Remainder ==
    ASSUME NEW b \in Nat, b > 0, NEW q \in Nat, NEW r \in 0..b - 1
    PROVE  (q * b + r) \div b = q /\ (q * b + r) % b = r
  <1>1. PICK n : n = q * b + r
    OBVIOUS
  <1>2. n \in Nat
    BY <1>1
  <1>3. PICK p, s : p = n \div b /\ s = n % b
    OBVIOUS
  <1>4. n = b * p + s /\ s \in 0..b - 1 /\ p \in Nat
    BY <1>2, <1>3, Quotient
  <1>5. b * p + s = b * q + r
    BY <1>1, <1>4
  <1>6. ASSUME p < q PROVE FALSE
    <2>1. b * (p + 1) <= b * q
      BY <1>4, <1>6, ProductOrder
    <2>2. b * (p + 1) = b * p + b
      BY <1>4
    <2>3. b * p \in Nat /\ b * q \in Nat
      BY <1>4
    <2> QED BY <1>4, <1>5, <2>1, <2>2, <2>3
  <1>7. ASSUME q < p PROVE FALSE
    <2>1. b * (q + 1) <= b * p
      BY <1>4, <1>7, ProductOrder
    <2>2. b * (q + 1) = b * q + b
      BY <1>4
    <2>3. b * p \in Nat /\ b * q \in Nat
      BY <1>4
    <2> QED BY <1>4, <1>5, <2>1, <2>2, <2>3
  <1>8. p = q
    BY <1>4, <1>6, <1>7
  <1>9. s = r
    <2>1. b * p \in Nat
      BY <1>4
    <2> QED BY <1>4, <1>5, <1>8, <2>1
  <1> QED BY <1>1, <1>3, <1>8, <1>9

\* What the decoder's counting of the bits says of each position.
LEMMA SplitUnfold ==
    \A p \in 0..ChunkBytes :
        SplitBits(p) = IF p < Power[MinDisplacementBits] THEN MinDisplacementBits
                       ELSE SplitBits(p \div 2) + 1
  <1> DEFINE Low == Power[MinDisplacementBits]
             Unfolds(f, k) ==
        f = [n \in 0..k |-> IF n < Low THEN MinDisplacementBits ELSE f[n \div 2] + 1]
  <1>0. ChunkBytes \in Nat /\ Low \in Nat /\ Low > 1
    <2>1. MinDisplacementBits \in 0..TokenBits /\ MinDisplacementBits # 0 /\ 0 \in 0..TokenBits
      BY TokenAssumption
    <2>2. Power[0] < Low
      BY <2>1, PowerOrder
    <2>3. Low \in Nat
      BY <2>1, PowerType
    <2> QED BY <2>2, <2>3, PowerUnfold, TokenAssumption
  <1> HIDE DEF Low
  <1>1. \A k \in Nat : \E f : Unfolds(f, k)
    <2> DEFINE T == {k \in Nat : ~\E f : Unfolds(f, k)}
    <2> SUFFICES ASSUME T # {} PROVE FALSE
      OBVIOUS
    <2>1. PICK k \in T : \A m \in T : k <= m
      <3> HIDE DEF Unfolds
      <3> QED BY LeastElement
    <2>2. CASE k = 0
      <3> DEFINE g == [n \in 0..0 |-> MinDisplacementBits]
      <3>1. \A n \in 0..0 : g[n] = IF n < Low THEN MinDisplacementBits ELSE g[n \div 2] + 1
        BY <1>0
      <3>2. Unfolds(g, k)
        BY <2>2, <3>1
      <3> HIDE DEF Unfolds
      <3> QED BY <3>2
    <2>3. CASE k # 0
      <3>1. k - 1 \in Nat /\ k - 1 \notin T
        <4> HIDE DEF Unfolds
        <4>1. k \in Nat /\ k - 1 \in Nat
          BY <2>3
        <4>2. ~(k <= k - 1)
          BY <4>1
        <4> QED BY <2>1, <4>1, <4>2
      <3>2. PICK f : Unfolds(f, k - 1)
        <4> HIDE DEF Unfolds
        <4> QED BY <3>1
      <3> DEFINE g == [n \in 0..k |->
                          IF n < Low THEN MinDisplacementBits ELSE f[n \div 2] + 1]
      <3>3. \A n \in 0..k - 1 : g[n] = f[n]
        <4>1. \A n \in 0..k - 1 :
                 f[n] = IF n < Low THEN MinDisplacementBits ELSE f[n \div 2] + 1
          BY <3>2
        <4>2. \A n \in 0..k - 1 : n \in 0..k
          BY <3>1
        <4> QED BY <4>1, <4>2
      <3>4. \A n \in 0..k :
               g[n] = IF n < Low THEN MinDisplacementBits ELSE g[n \div 2] + 1
        <4> TAKE n \in 0..k
        <4>1. CASE n < Low
          BY <4>1
        <4>2. CASE ~(n < Low)
          <5>1. n \div 2 \in 0..n - 1
            <6>1. n \in Nat /\ n >= 2
              BY <1>0, <3>1, <4>2
            <6> QED BY <6>1, QuotientSmaller
          <5>2. n \div 2 \in 0..k - 1
            <6>1. PICK q : q = n \div 2
              OBVIOUS
            <6>2. q \in 0..k - 1
              BY <3>1, <5>1, <6>1
            <6> QED BY <6>1, <6>2
          <5>3. g[n \div 2] = f[n \div 2]
            BY <3>3, <5>2
          <5> QED BY <4>2, <5>3
        <4> QED BY <4>1, <4>2
      <3>5. Unfolds(g, k)
        BY <3>4
      <3> HIDE DEF Unfolds
      <3> QED BY <3>5
    <2> QED BY <2>2, <2>3
  <1>2. PICK f : Unfolds(f, ChunkBytes)
    BY <1>0, <1>1
  <1> DEFINE F == CHOOSE g : Unfolds(g, ChunkBytes)
  <1>3. Unfolds(F, ChunkBytes)
    <2> HIDE DEF Unfolds
    <2> QED BY <1>2
  <1>4. \A p : SplitBits(p) = F[p]
    BY DEF SplitBits, Low
  <1> HIDE DEF F
  <1>5. \A n \in 0..ChunkBytes :
           F[n] = IF n < Low THEN MinDisplacementBits ELSE F[n \div 2] + 1
    BY <1>3
  <1> QED BY <1>4, <1>5 DEF Low

\* The bits the decoder gives a displacement are just enough to count past the
\* bytes produced, or the least number.
LEMMA SplitFacts ==
    \A p \in 0..ChunkBytes :
        LET bits == SplitBits(p)
        IN  /\ bits \in MinDisplacementBits..TokenBits
            /\ p < Power[bits]
            /\ bits = MinDisplacementBits \/ Power[bits - 1] <= p
  <1> DEFINE Right(p, bits) ==
                /\ bits \in MinDisplacementBits..TokenBits
                /\ p < Power[bits]
                /\ bits = MinDisplacementBits \/ Power[bits - 1] <= p
             T == {p \in 0..ChunkBytes : ~Right(p, SplitBits(p))}
  <1>0. /\ ChunkBytes \in Nat /\ TokenBits \in Nat /\ ChunkBytes < Power[TokenBits]
        /\ MinDisplacementBits \in 1..TokenBits
    BY TokenAssumption
  <1>1. ASSUME T # {} PROVE FALSE
    <2>1. PICK p \in T : \A m \in T : p <= m
      <3>1. T \in SUBSET Nat
        BY <1>0
      <3> HIDE DEF T
      <3> QED BY <1>1, <3>1, LeastElement
    <2>2. p \in 0..ChunkBytes /\ ~Right(p, SplitBits(p))
      OBVIOUS
    <2>3. Power[MinDisplacementBits] \in Nat /\ Power[MinDisplacementBits] > 1
      <3>1. MinDisplacementBits \in 0..TokenBits /\ 0 \in 0..TokenBits
        BY <1>0
      <3>2. Power[0] < Power[MinDisplacementBits]
        BY <1>0, <3>1, PowerOrder
      <3> QED BY <3>1, <3>2, PowerType, PowerUnfold
    <2>4. CASE p < Power[MinDisplacementBits]
      <3>1. SplitBits(p) = MinDisplacementBits
        BY <2>2, <2>4, SplitUnfold
      <3> QED BY <1>0, <2>2, <2>4, <3>1
    <2>5. CASE ~(p < Power[MinDisplacementBits])
      <3>1. PICK q : q = p \div 2
        OBVIOUS
      <3>2. q \in 0..p - 1 /\ 2 * q <= p /\ p < 2 * q + 2
        <4>1. p \in Nat /\ p >= 2
          BY <2>2, <2>3, <2>5
        <4> QED BY <3>1, <4>1, Quotient, QuotientSmaller
      <3>3. q \in 0..ChunkBytes /\ ~(p <= q)
        BY <1>0, <2>2, <3>2
      <3> HIDE DEF Right
      <3>4. Right(q, SplitBits(q))
        BY <2>1, <3>3
      <3> USE DEF Right
      <3>5. PICK b : b = SplitBits(q)
        OBVIOUS
      <3>6. SplitBits(p) = b + 1
        BY <2>2, <2>5, <3>1, <3>5, SplitUnfold
      <3>7. /\ b \in MinDisplacementBits..TokenBits /\ q < Power[b]
            /\ b = MinDisplacementBits \/ Power[b - 1] <= q
        BY <3>4, <3>5
      <3>8. b \in 0..TokenBits /\ b \in 1..TokenBits /\ b - 1 \in 0..TokenBits
        BY <1>0, <3>7
      <3>9. Power[b] \in Nat /\ Power[b - 1] \in Nat /\ Power[b] = 2 * Power[b - 1]
        BY <3>8, PowerType, PowerUnfold
      <3>10. Power[b] <= p
        <4>1. CASE b = MinDisplacementBits
          BY <2>2, <2>3, <2>5, <4>1
        <4>2. CASE Power[b - 1] <= q
          BY <3>2, <3>9, <4>2
        <4> QED BY <3>7, <4>1, <4>2
      <3>11. b # TokenBits
        BY <1>0, <2>2, <3>9, <3>10
      <3>12. b + 1 \in 1..TokenBits /\ b + 1 \in MinDisplacementBits..TokenBits
        BY <1>0, <3>7, <3>11
      <3>13. Power[b + 1] = 2 * Power[b]
        <4>1. (b + 1) - 1 = b
          BY <3>8
        <4> QED BY <3>12, <4>1, PowerUnfold
      <3>14. p < Power[b + 1]
        <4>1. q + 1 <= Power[b]
          BY <3>2, <3>7, <3>9
        <4> QED BY <3>2, <3>9, <3>13, <4>1
      <3>15. (b + 1) - 1 = b
        BY <3>8
      <3>16. Right(p, b + 1)
        BY <3>10, <3>12, <3>14, <3>15
      <3> QED BY <2>2, <3>6, <3>16
    <2> QED BY <2>4, <2>5
  <1>2. \A p \in 0..ChunkBytes : Right(p, SplitBits(p))
    <2> HIDE DEF Right
    <2> QED BY <1>1
  <1> QED BY <1>2

\* The bits the format gives one: the same, but where as many bytes were produced as
\* a power of two.
LEMMA BitsFacts ==
    ASSUME NEW p \in 0..ChunkBytes
    PROVE  /\ DisplacementBits(p) \in MinDisplacementBits..TokenBits
           /\ (\A n \in MinDisplacementBits..TokenBits : p # Power[n])
                 => DisplacementBits(p) = SplitBits(p)
  <1> DEFINE Right(bits) == /\ Power[bits] >= p
                            /\ bits = MinDisplacementBits \/ Power[bits - 1] < p
             Widths == MinDisplacementBits..TokenBits
  <1>0. /\ p \in Nat /\ TokenBits \in Nat /\ MinDisplacementBits \in 1..TokenBits
        /\ \A n \in Widths : n \in 0..TokenBits /\ n - 1 \in 0..TokenBits /\ n \in Nat
    BY TokenAssumption
  <1>1. \A n \in Widths : Power[n] \in Nat /\ Power[n - 1] \in Nat
    BY <1>0, PowerType
  <1>2. PICK s : s = SplitBits(p)
    OBVIOUS
  <1>3. s \in Widths /\ p < Power[s] /\ (s = MinDisplacementBits \/ Power[s - 1] <= p)
    BY <1>2, SplitFacts
  <1>4. \E n \in Widths : Right(n)
    <2>1. CASE s = MinDisplacementBits \/ Power[s - 1] < p
      <3>1. Power[s] >= p
        BY <1>0, <1>1, <1>3
      <3> QED BY <1>3, <2>1, <3>1
    <2>2. CASE s # MinDisplacementBits /\ Power[s - 1] = p
      <3>1. s - 1 \in Widths
        BY <1>0, <1>3, <2>2
      <3>2. (s - 1) - 1 \in 0..TokenBits /\ s - 1 \in 0..TokenBits /\ (s - 1) - 1 < s - 1
        BY <1>0, <3>1
      <3>3. Power[(s - 1) - 1] < Power[s - 1]
        BY <3>2, PowerOrder
      <3>4. Right(s - 1)
        BY <1>0, <2>2, <3>3
      <3> QED BY <3>1, <3>4
    <2>3. Power[s - 1] <= p => Power[s - 1] < p \/ Power[s - 1] = p
      BY <1>0, <1>1, <1>3
    <2> QED BY <1>3, <2>1, <2>2, <2>3
  <1>5. PICK d : d = DisplacementBits(p)
    OBVIOUS
  <1>6. d \in Widths /\ Right(d)
    <2>1. d = CHOOSE bits \in Widths : Right(bits)
      BY <1>5 DEF DisplacementBits
    <2> HIDE DEF Right, Widths
    <2> QED BY <1>4, <2>1
  <1>7. ASSUME \A n \in Widths : p # Power[n] PROVE d = s
    <2>1. s = MinDisplacementBits \/ Power[s - 1] < p
      <3>1. ASSUME s # MinDisplacementBits PROVE Power[s - 1] < p
        <4>1. s - 1 \in Widths
          BY <1>0, <1>3, <3>1
        <4>2. Power[s - 1] # p
          BY <1>7, <4>1
        <4> QED BY <1>0, <1>1, <1>3, <3>1, <4>2
      <3> QED BY <3>1
    <2>2. ASSUME d < s PROVE FALSE
      <3>1. s # MinDisplacementBits
        BY <1>0, <1>3, <1>6, <2>2
      <3>2. d = s - 1 \/ d < s - 1
        BY <1>0, <1>3, <1>6, <2>2
      <3>3. Power[d] <= Power[s - 1]
        BY <1>0, <1>1, <1>3, <1>6, <3>2, PowerOrder
      <3> QED BY <1>0, <1>1, <1>3, <1>6, <2>1, <3>1, <3>3
    <2>3. ASSUME s < d PROVE FALSE
      <3>1. d # MinDisplacementBits
        BY <1>0, <1>3, <1>6, <2>3
      <3>2. s = d - 1 \/ s < d - 1
        BY <1>0, <1>3, <1>6, <2>3
      <3>3. Power[s] <= Power[d - 1]
        BY <1>0, <1>1, <1>3, <1>6, <3>2, PowerOrder
      <3> QED BY <1>0, <1>1, <1>3, <1>6, <3>1, <3>3
    <2> QED BY <1>0, <1>3, <1>6, <2>2, <2>3
  <1> QED BY <1>2, <1>5, <1>6, <1>7

\* What the types of a chunk say of one of its operations.
LEMMA OperationFacts ==
    ASSUME NEW ops \in Seq(Operation), NEW i \in 1..Len(ops)
    PROVE  /\ ops[i].kind \in {"literal", "copy", "cut"}
           /\ ops[i].kind = "literal" => ops[i].byte \in Nat
           /\ ops[i].kind = "copy" =>
                 ops[i].displacement \in Nat \ {0} /\ ops[i].length \in Nat \ {0}
           /\ Length(ops[i]) \in Nat
  <1>1. ops[i] \in Operation
    OBVIOUS
  <1>2. CASE ops[i] \in Byte
    BY <1>2 DEF Byte, Length
  <1>3. CASE ops[i] \in [kind : {"copy"}, displacement : Nat \ {0}, length : Nat \ {0}]
    BY <1>3 DEF Length
  <1>4. CASE ops[i] \in [kind : {"cut"}]
    BY <1>4 DEF Length
  <1> QED BY <1>1, <1>2, <1>3, <1>4 DEF Operation

\* Numbers of bytes are numbers.
LEMMA CountsType ==
    ASSUME NEW ops \in Seq(Operation)
    PROVE  \A n \in 0..Len(ops) : Counts(ops)[n] \in Nat
  <1> DEFINE F == Counts(ops)
             T == {n \in 0..Len(ops) : F[n] \notin Nat}
  <1>0. Len(ops) \in Nat
    OBVIOUS
  <1>1. F[0] = 0 /\ \A n \in 1..Len(ops) : F[n] = F[n - 1] + Length(ops[n])
    BY <1>0, CountsUnfold
  <1>2. \A n \in 1..Len(ops) : Length(ops[n]) \in Nat
    BY OperationFacts
  <1> HIDE DEF F
  <1>3. ASSUME T # {} PROVE FALSE
    <2>1. PICK n \in T : \A m \in T : n <= m
      <3>1. T \in SUBSET Nat
        BY <1>0
      <3> HIDE DEF T
      <3> QED BY <1>3, <3>1, LeastElement
    <2>2. n \in 0..Len(ops) /\ F[n] \notin Nat
      OBVIOUS
    <2>3. n \in 1..Len(ops)
      BY <1>0, <1>1, <2>2
    <2>4. n - 1 \in 0..Len(ops) /\ ~(n <= n - 1)
      BY <1>0, <2>3
    <2>5. F[n - 1] \in Nat
      BY <2>1, <2>4
    <2> QED BY <1>1, <1>2, <2>2, <2>3, <2>5
  <1> QED BY <1>3 DEF F

\* The bytes of more operations are not fewer.
LEMMA CountsOrder ==
    ASSUME NEW ops \in Seq(Operation), NEW low \in 0..Len(ops)
    PROVE  \A n \in low..Len(ops) : Counts(ops)[low] <= Counts(ops)[n]
  <1> DEFINE F == Counts(ops)
             T == {n \in low..Len(ops) : ~(F[low] <= F[n])}
  <1>0. Len(ops) \in Nat /\ low \in Nat
    OBVIOUS
  <1>1. \A n \in 1..Len(ops) : F[n] = F[n - 1] + Length(ops[n])
    BY <1>0, CountsUnfold
  <1>2. \A n \in 1..Len(ops) : Length(ops[n]) \in Nat
    BY OperationFacts
  <1>3. \A n \in 0..Len(ops) : F[n] \in Nat
    BY CountsType
  <1> HIDE DEF F
  <1>4. ASSUME T # {} PROVE FALSE
    <2>1. PICK n \in T : \A m \in T : n <= m
      <3>1. T \in SUBSET Nat
        BY <1>0
      <3> HIDE DEF T
      <3> QED BY <1>4, <3>1, LeastElement
    <2>2. n \in low..Len(ops) /\ ~(F[low] <= F[n])
      OBVIOUS
    <2>3. n # low
      BY <1>0, <1>3, <2>2
    <2>4. n \in 1..Len(ops) /\ n - 1 \in low..Len(ops) /\ ~(n <= n - 1)
      BY <1>0, <2>2, <2>3
    <2>5. F[low] <= F[n - 1]
      BY <2>1, <2>4
    <2>6. F[n - 1] \in Nat /\ F[low] \in Nat
      BY <1>0, <1>3, <2>4
    <2>7. F[n] = F[n - 1] + Length(ops[n]) /\ Length(ops[n]) \in Nat
      BY <1>1, <1>2, <2>4
    <2> QED BY <2>2, <2>5, <2>6, <2>7
  <1> QED BY <1>4 DEF F

-----------------------------------------------------------------------------
(* A token.                                                                *)

\* The three parts of a token's value.
LEMMA TokenParts ==
    ASSUME NEW ops \in Seq(Operation), Encodable(ops),
           NEW i \in 1..Len(ops), ops[i].kind = "copy"
    PROVE  LET bits == DisplacementBits(Produced(ops, i))
               unit == Power[TokenBits - bits]
           IN  /\ Produced(ops, i) \in 0..ChunkBytes
               /\ bits \in MinDisplacementBits..TokenBits
               /\ unit \in Nat \ {0}
               /\ ops[i].displacement - 1 \in Nat
               /\ ops[i].length - MinMatch \in 0..unit - 1
               /\ Token(ops, i) = (ops[i].displacement - 1) * unit + (ops[i].length - MinMatch)
               /\ Token(ops, i) \in Nat
  <1> DEFINE bits == DisplacementBits(Produced(ops, i))
             unit == Power[TokenBits - bits]
  <1>1. Produced(ops, i) \in 0..ChunkBytes /\ ops[i].length - MinMatch \in 0..unit - 1
    <2>1. i - 1 \in 0..Len(ops)
      OBVIOUS
    <2>2. Produced(ops, i) \in Nat
      BY <2>1, CountsType DEF Produced
    <2> QED BY <2>2, TokenAssumption DEF Encodable
  <1>2. bits \in MinDisplacementBits..TokenBits
    BY <1>1, BitsFacts
  <1>3. unit \in Nat \ {0}
    <2>1. TokenBits - bits \in 0..TokenBits
      BY <1>2, TokenAssumption
    <2> QED BY <2>1, PowerType
  <1>4. ops[i].displacement \in Nat \ {0} /\ ops[i].length \in Nat \ {0}
    BY OperationFacts
  <1>5. PICK d, l : d = ops[i].displacement /\ l = ops[i].length
    OBVIOUS
  <1>6. Token(ops, i) = (d - 1) * unit + l - MinMatch
    BY <1>5 DEF Token
  <1> HIDE DEF bits, unit
  <1>7. d - 1 \in Nat /\ l \in Nat /\ MinMatch \in Nat /\ l - MinMatch \in Nat
    BY <1>1, <1>3, <1>4, <1>5, TokenAssumption
  <1>8. (d - 1) * unit \in Nat
    BY <1>3, <1>7
  <1>9. Token(ops, i) = (d - 1) * unit + (l - MinMatch) /\ Token(ops, i) \in Nat
    <2>1. PICK m : m = (d - 1) * unit
      OBVIOUS
    <2>2. Token(ops, i) = m + l - MinMatch /\ m \in Nat
      BY <1>6, <1>8, <2>1
    <2>3. m + l - MinMatch = m + (l - MinMatch) /\ m + (l - MinMatch) \in Nat
      BY <1>7, <2>2
    <2> QED BY <2>1, <2>2, <2>3
  <1> QED BY <1>1, <1>2, <1>3, <1>5, <1>7, <1>9 DEF bits, unit

\* Whatever a token says, it is taken apart into two positive numbers.
LEMMA TakenApart ==
    ASSUME NEW token \in Nat, NEW p \in 0..ChunkBytes
    PROVE  Displacement(token, p) \in Nat \ {0} /\ MatchLength(token, p) \in Nat \ {0}
  <1>1. PICK unit : unit = Power[TokenBits - SplitBits(p)]
    OBVIOUS
  <1>2. unit \in Nat \ {0}
    <2>1. SplitBits(p) \in MinDisplacementBits..TokenBits
      BY SplitFacts
    <2>2. TokenBits - SplitBits(p) \in 0..TokenBits
      BY <2>1, TokenAssumption
    <2> QED BY <1>1, <2>2, PowerType
  <1>3. token \div unit \in Nat /\ token % unit \in Nat
    BY <1>2, Quotient
  <1>4. MinMatch \in Nat \ {0}
    BY TokenAssumption
  <1> QED BY <1>1, <1>3, <1>4 DEF Displacement, MatchLength

\* Away from the powers of two the decoder takes a token apart as it was put together.
LEMMA TokenRight ==
    ASSUME NEW ops \in Seq(Operation), Encodable(ops),
           NEW i \in 1..Len(ops), ops[i].kind = "copy", ~OnPower(ops, i)
    PROVE  /\ Displacement(Token(ops, i), Produced(ops, i)) = ops[i].displacement
           /\ MatchLength(Token(ops, i), Produced(ops, i)) = ops[i].length
  <1>1. PICK p, bits, unit, a, r :
           /\ p = Produced(ops, i) /\ bits = DisplacementBits(p)
           /\ unit = Power[TokenBits - bits]
           /\ a = ops[i].displacement - 1 /\ r = ops[i].length - MinMatch
    OBVIOUS
  <1>2. /\ p \in 0..ChunkBytes /\ unit \in Nat \ {0} /\ a \in Nat /\ r \in 0..unit - 1
        /\ Token(ops, i) = a * unit + r
    BY <1>1, TokenParts
  <1>3. bits = SplitBits(p)
    <2>1. \A n \in MinDisplacementBits..TokenBits : p # Power[n]
      BY <1>1 DEF OnPower
    <2> QED BY <1>1, <1>2, <2>1, BitsFacts
  <1>4. (a * unit + r) \div unit = a /\ (a * unit + r) % unit = r
    BY <1>2, Remainder
  <1>5. /\ Displacement(Token(ops, i), p) = a + 1
        /\ MatchLength(Token(ops, i), p) = r + MinMatch
    BY <1>1, <1>2, <1>3, <1>4 DEF Displacement, MatchLength
  <1>6. /\ ops[i].displacement \in Nat /\ ops[i].length \in Nat /\ MinMatch \in Nat
    BY OperationFacts, TokenAssumption
  <1>7. a + 1 = ops[i].displacement /\ r + MinMatch = ops[i].length
    BY <1>1, <1>6
  <1> QED BY <1>1, <1>5, <1>7

\* Byte by byte, a copy repeats the last bytes of the output.
LEMMA CopiedBytes ==
    ASSUME NEW distance \in 1..Len(output), NEW size \in Nat, output \in Seq(Nat)
    PROVE  /\ Copied(distance, size) =
                 [i \in 1..size |-> output[Len(output) - distance + 1 + ((i - 1) % distance)]]
           /\ Copied(distance, size) \in Seq(Nat)
           /\ Len(Copied(distance, size)) = size
  <1> DEFINE Unfolds(f) ==
        f = [i \in 1..size |-> IF i <= distance THEN output[Len(output) - distance + i]
                               ELSE f[i - distance]]
             place(i) == Len(output) - distance + 1 + ((i - 1) % distance)
             g == [i \in 1..size |-> output[place(i)]]
  <1>0. distance \in Nat /\ distance > 0 /\ Len(output) \in Nat /\ distance <= Len(output)
    OBVIOUS
  <1>1. \A i \in 1..size : i <= distance => (i - 1) % distance = i - 1
    <2> TAKE i \in 1..size
    <2> HAVE i <= distance
    <2>1. i - 1 \in 0..distance - 1 /\ 0 \in Nat
      BY <1>0
    <2>2. (0 * distance + (i - 1)) % distance = i - 1
      BY <1>0, <2>1, Remainder
    <2>3. 0 * distance + (i - 1) = i - 1
      BY <1>0
    <2> QED BY <2>2, <2>3
  <1>2. \A i \in 1..size : ~(i <= distance) =>
           (i - 1) % distance = ((i - distance) - 1) % distance
    <2> TAKE i \in 1..size
    <2> HAVE ~(i <= distance)
    <2>1. PICK n : n = (i - distance) - 1
      OBVIOUS
    <2>2. n \in Nat
      BY <1>0, <2>1
    <2>3. PICK q, r : q = n \div distance /\ r = n % distance
      OBVIOUS
    <2>4. q \in Nat /\ r \in 0..distance - 1 /\ n = distance * q + r
      BY <1>0, <2>2, <2>3, Quotient
    <2>5. q + 1 \in Nat /\ ((q + 1) * distance + r) % distance = r
      BY <1>0, <2>4, Remainder
    <2>6. (q + 1) * distance + r = n + distance
      <3>1. (q + 1) * distance = distance * q + distance
        BY <1>0, <2>4
      <3>2. distance * q \in Nat
        BY <1>0, <2>4
      <3> QED BY <1>0, <2>4, <3>1, <3>2
    <2>7. n + distance = i - 1
      BY <1>0, <2>1
    <2> QED BY <2>1, <2>3, <2>5, <2>6, <2>7
  <1>3. \A i \in 1..size : (i - 1) % distance \in 0..distance - 1
    <2> TAKE i \in 1..size
    <2>1. i - 1 \in Nat
      OBVIOUS
    <2> QED BY <1>0, <2>1
  <1>4. \A i \in 1..size : place(i) \in 1..Len(output)
    <2> TAKE i \in 1..size
    <2>1. PICK r : r = (i - 1) % distance
      OBVIOUS
    <2>2. r \in 0..distance - 1
      BY <1>3, <2>1
    <2>3. place(i) = Len(output) - distance + 1 + r
      BY <2>1
    <2> HIDE DEF place
    <2> QED BY <1>0, <2>2, <2>3
  <1>5. \A i \in 1..size :
           g[i] = IF i <= distance THEN output[Len(output) - distance + i]
                  ELSE g[i - distance]
    <2> TAKE i \in 1..size
    <2>1. CASE i <= distance
      <3>1. place(i) = Len(output) - distance + i
        <4>1. (i - 1) % distance = i - 1
          BY <1>1, <2>1
        <4>2. Len(output) - distance + 1 + (i - 1) = Len(output) - distance + i
          BY <1>0
        <4> QED BY <4>1, <4>2
      <3>2. g[i] = output[place(i)]
        OBVIOUS
      <3> HIDE DEF place, g
      <3> QED BY <2>1, <3>1, <3>2
    <2>2. CASE ~(i <= distance)
      <3>1. place(i) = place(i - distance)
        BY <1>2, <2>2
      <3>2. i - distance \in 1..size
        BY <1>0, <2>2
      <3>3. g[i] = output[place(i)] /\ g[i - distance] = output[place(i - distance)]
        BY <3>2
      <3> HIDE DEF place, g
      <3> QED BY <2>2, <3>1, <3>3
    <2> QED BY <2>1, <2>2
  <1>6. Unfolds(g)
    BY <1>5
  <1> DEFINE F == CHOOSE f : Unfolds(f)
  <1>7. Unfolds(F)
    <2> HIDE DEF Unfolds, g
    <2> QED BY <1>6
  <1> HIDE DEF F
  <1>8. \A i \in 1..size :
           F[i] = IF i <= distance THEN output[Len(output) - distance + i]
                  ELSE F[i - distance]
    BY <1>7
  <1>9. \A i \in 1..size : F[i] = g[i]
    <2> DEFINE T == {i \in 1..size : F[i] # g[i]}
    <2> SUFFICES ASSUME T # {} PROVE FALSE
      OBVIOUS
    <2>1. PICK i \in T : \A m \in T : i <= m
      <3>1. T \in SUBSET Nat
        OBVIOUS
      <3> HIDE DEF T
      <3> QED BY <3>1, LeastElement
    <2> HIDE DEF g
    <2>2. i \in 1..size /\ F[i] # g[i]
      OBVIOUS
    <2>3. ~(i <= distance)
      BY <1>5, <1>8, <2>2
    <2>4. i - distance \in 1..size /\ ~(i <= i - distance)
      BY <1>0, <2>2, <2>3
    <2>5. F[i - distance] = g[i - distance]
      BY <2>1, <2>4
    <2> QED BY <1>5, <1>8, <2>2, <2>3, <2>5
  <1>10. Copied(distance, size) = [i \in 1..size |-> F[i]]
    BY DEF Copied, F
  <1>11. Copied(distance, size) = g
    BY <1>9, <1>10
  <1>12. \A i \in 1..size : output[place(i)] \in Nat
    <2> HIDE DEF place
    <2> QED BY <1>4
  <1>13. g \in Seq(Nat) /\ Len(g) = size
    <2> HIDE DEF place
    <2> QED BY <1>12
  <1> QED BY <1>11, <1>13

-----------------------------------------------------------------------------
(* Limits: what is decoded stays inside them, whatever the tokens say.     *)

\* The chunk being decoded is as the inputs are assumed.
LEMMA HereFacts ==
    ASSUME input \in Inputs, chunk \in 1..Len(input.chunks)
    PROVE  /\ Here.operations \in Seq(Operation)
           /\ Encodable(Here.operations)
           /\ Here.form = "raw" => Here.operations \in Seq(Byte)
           /\ Here.form \in {"compressed", "raw"} \/ Here.operations = <<>>
  <1>1. input.chunks \in Seq(Chunk)
    BY StreamsAssumption
  <1>2. Here \in Chunk
    BY <1>1 DEF Here
  <1>3. Byte \subseteq Operation
    BY DEF Operation
  <1>4. Seq(Byte) \subseteq Seq(Operation) /\ <<>> \in Seq(Operation)
    BY <1>3
  <1>5. CASE Here \in [form : {"compressed"}, operations : Seq(Operation)]
    BY <1>5, StreamsAssumption DEF Here
  <1>6. CASE Here \in [form : {"raw"}, operations : Seq(Byte)]
    BY <1>4, <1>6, StreamsAssumption DEF Here
  <1>7. CASE Here \in [form : {"end", "header", "signature", "truncated"}, operations : {<<>>}]
    BY <1>4, <1>7, StreamsAssumption DEF Here
  <1> QED BY <1>2, <1>5, <1>6, <1>7 DEF Chunk

\* What an action does, told apart by whether it ends the call.
LEMMA ChunkOutcomes ==
    ASSUME EndOfInput \/ EndMarker \/ BadChunk \/ RawChunk
    PROVE  /\ input' = input
           /\ \/ \E why : Refuse(why)
              \/ LET count == Len(Here.operations)
                 IN  /\ AtChunk /\ Here.form = "raw"
                     /\ ~(count > ChunkBytes) /\ ~(count > Room)
                     /\ NextChunk([i \in 1..count |-> Here.operations[i].byte])
  <1>1. CASE EndOfInput
    <2>1. Refuse("ok")
      BY <1>1 DEF EndOfInput, Refuse
    <2> QED BY <1>1, <2>1 DEF EndOfInput
  <1>2. CASE EndMarker
    BY <1>2, Zenon DEF EndMarker
  <1>3. CASE BadChunk
    BY <1>3, Zenon DEF BadChunk
  <1>4. CASE RawChunk
    BY <1>4, Zenon DEF RawChunk
  <1> QED BY <1>1, <1>2, <1>3, <1>4

LEMMA ItemOutcomes ==
    ASSUME Literal \/ Match \/ CutMatch
    PROVE  /\ AtItem /\ input' = input
           /\ \/ \E why : Refuse(why)
              \/ /\ Here.operations[item].kind = "literal"
                 /\ InChunk # ChunkBytes /\ Len(output) # input.output_limit
                 /\ Produce(<<Here.operations[item].byte>>)
              \/ LET token == Token(Here.operations, item)
                     displacement == Displacement(token, InChunk)
                     length == MatchLength(token, InChunk)
                 IN  /\ Here.operations[item].kind = "copy"
                     /\ ~(displacement > InChunk) /\ ~(length > ChunkBytes - InChunk)
                     /\ Fits(length)
                     /\ Produce(Copied(displacement, length))
  <1>1. CASE Literal
    BY <1>1, Zenon DEF Literal
  <1>2. CASE Match
    BY <1>2, Zenon DEF Match
  <1>3. CASE CutMatch
    BY <1>3, Zenon DEF CutMatch
  <1> QED BY <1>1, <1>2, <1>3

\* A chunk that is taken whole, and an item, keep the limits where there is room.
LEMMA NextChunkType ==
    ASSUME TypeOK, input \in Inputs, chunk \in 1..Len(input.chunks),
           NEW bytes \in Seq(Nat), Len(output) + Len(bytes) <= input.output_limit,
           NextChunk(bytes), input' = input
    PROVE  TypeOK'
  <1>1. input.chunks \in Seq(Chunk) /\ input.output_limit \in Nat /\ ChunkBytes \in Nat
    BY StreamsAssumption, TokenAssumption
  <1>2. output \in Seq(Nat) /\ Len(input.chunks) \in Nat
    BY <1>1 DEF TypeOK
  <1>3. output \o bytes \in Seq(Nat) /\ Len(output \o bytes) = Len(output) + Len(bytes)
    BY <1>2
  <1>4. /\ output' \in Seq(Nat) /\ Len(output') = Len(output) + Len(bytes)
        /\ start' = Len(output') /\ chunk' = chunk + 1 /\ item' = 1
    BY <1>3 DEF NextChunk
  <1>5. Len(output') \in Nat
    BY <1>4
  <1> QED BY <1>1, <1>2, <1>4, <1>5 DEF TypeOK, InChunk

LEMMA ProduceType ==
    ASSUME TypeOK, input \in Inputs, NEW bytes \in Seq(Nat),
           Len(output) + Len(bytes) <= input.output_limit,
           InChunk + Len(bytes) <= ChunkBytes,
           Produce(bytes), input' = input
    PROVE  TypeOK'
  <1>1. input.output_limit \in Nat /\ ChunkBytes \in Nat
    BY StreamsAssumption, TokenAssumption
  <1>2. output \in Seq(Nat) /\ Len(output) \in Nat /\ start \in 0..Len(output) /\ Len(bytes) \in Nat
    BY DEF TypeOK
  <1>3. output \o bytes \in Seq(Nat) /\ Len(output \o bytes) = Len(output) + Len(bytes)
    BY <1>2
  <1>4. /\ output' \in Seq(Nat) /\ Len(output') = Len(output) + Len(bytes)
        /\ start' = start /\ chunk' = chunk /\ item' = item + 1
    BY <1>3 DEF Produce
  <1>5. Len(output') \in Nat /\ start' \in 0..Len(output')
    BY <1>2, <1>4
  <1>6. Len(output') - start' <= ChunkBytes
    BY <1>1, <1>2, <1>4 DEF InChunk
  <1>7. item' \in Nat \ {0}
    BY <1>4 DEF TypeOK
  <1> QED BY <1>4, <1>5, <1>6, <1>7 DEF TypeOK, InChunk

\* The limits hold at the start and in each step.
LEMMA TypeStarts == DecodeInit => input \in Inputs /\ TypeOK
  <1> SUFFICES ASSUME DecodeInit PROVE input \in Inputs /\ TypeOK
    OBVIOUS
  <1>1. input \in Inputs /\ chunk = 1 /\ item = 1 /\ start = 0 /\ output = <<>>
    BY DEF DecodeInit
  <1>2. Len(input.chunks) \in Nat /\ input.output_limit \in Nat /\ ChunkBytes \in Nat
    BY <1>1, StreamsAssumption, TokenAssumption
  <1> QED BY <1>1, <1>2 DEF TypeOK, InChunk

LEMMA TypeStep ==
    ASSUME input \in Inputs, TypeOK, [DecodeNext]_state
    PROVE  input' \in Inputs /\ TypeOK'
  <1>0. /\ input.chunks \in Seq(Chunk) /\ Len(input.chunks) \in Nat
        /\ input.output_limit \in Nat /\ ChunkBytes \in Nat \ {0}
    BY StreamsAssumption, TokenAssumption
  <1>1. /\ output \in Seq(Nat) /\ Len(output) \in Nat /\ start \in 0..Len(output)
        /\ chunk \in 1..Len(input.chunks) + 1 /\ item \in Nat \ {0}
        /\ Len(output) <= input.output_limit
    BY DEF TypeOK
  <1>2. ASSUME input' = input, \E why : Refuse(why) PROVE input' \in Inputs /\ TypeOK'
    <2>1. chunk' = chunk /\ item' = item /\ start' = start /\ output' = output
      BY <1>2 DEF Refuse
    <2> QED BY <1>2, <2>1 DEF TypeOK, InChunk
  <1>3. CASE EndOfInput \/ EndMarker \/ BadChunk \/ RawChunk
    <2>1. PICK count : count = Len(Here.operations)
      OBVIOUS
    <2>2. CASE /\ AtChunk /\ Here.form = "raw" /\ ~(count > Room)
               /\ NextChunk([i \in 1..count |-> Here.operations[i].byte])
      <3>1. chunk \in 1..Len(input.chunks)
        BY <1>0, <1>1, <2>2 DEF AtChunk
      <3>2. Here.operations \in Seq(Byte)
        BY <2>2, <3>1, HereFacts
      <3>3. count \in Nat /\ \A i \in 1..count : Here.operations[i].byte \in Nat
        <4>1. \A i \in 1..Len(Here.operations) : Here.operations[i] \in Byte
          BY <3>2
        <4>2. \A op \in Byte : op.byte \in Nat
          BY DEF Byte
        <4> QED BY <2>1, <3>2, <4>1, <4>2
      <3>4. PICK bytes : bytes = [i \in 1..count |-> Here.operations[i].byte]
        OBVIOUS
      <3>5. bytes \in Seq(Nat) /\ Len(bytes) = count
        BY <3>3, <3>4
      <3>6. Len(output) + Len(bytes) <= input.output_limit
        BY <1>0, <1>1, <2>2, <3>3, <3>5 DEF Room
      <3>7. input' = input
        BY <1>3, ChunkOutcomes
      <3> QED BY <2>2, <3>1, <3>4, <3>5, <3>6, <3>7, NextChunkType
    <2> QED BY <1>2, <1>3, <2>1, <2>2, ChunkOutcomes
  <1>4. CASE Literal \/ Match \/ CutMatch
    <2>1. AtItem /\ input' = input
      BY <1>4, ItemOutcomes
    <2>2. chunk \in 1..Len(input.chunks) /\ item \in 1..Len(Here.operations)
      <3>1. chunk \in 1..Len(input.chunks)
        BY <1>0, <1>1, <2>1 DEF AtItem
      <3>2. Len(Here.operations) \in Nat
        BY <3>1, HereFacts
      <3> QED BY <1>1, <2>1, <3>1, <3>2 DEF AtItem
    <2>3. Here.operations \in Seq(Operation) /\ Encodable(Here.operations)
      BY <2>2, HereFacts
    <2>4. InChunk \in 0..ChunkBytes /\ InChunk <= Len(output)
      BY <1>0, <1>1 DEF TypeOK, InChunk
    <2>5. ASSUME /\ Here.operations[item].kind = "literal"
                 /\ InChunk # ChunkBytes /\ Len(output) # input.output_limit
                 /\ Produce(<<Here.operations[item].byte>>)
          PROVE  TypeOK'
      <3>1. <<Here.operations[item].byte>> \in Seq(Nat) /\ Len(<<Here.operations[item].byte>>) = 1
        BY <2>2, <2>3, <2>5, OperationFacts
      <3>2. Len(output) + 1 <= input.output_limit /\ InChunk + 1 <= ChunkBytes
        BY <1>0, <1>1, <2>4, <2>5
      <3> QED BY <2>1, <2>5, <3>1, <3>2, ProduceType
    <2>6. PICK token, displacement, length :
             /\ token = Token(Here.operations, item)
             /\ displacement = Displacement(token, InChunk)
             /\ length = MatchLength(token, InChunk)
      OBVIOUS
    <2>7. ASSUME /\ Here.operations[item].kind = "copy"
                 /\ ~(displacement > InChunk) /\ ~(length > ChunkBytes - InChunk)
                 /\ Fits(length)
                 /\ Produce(Copied(displacement, length))
          PROVE  TypeOK'
      <3>1. token \in Nat
        BY <2>2, <2>3, <2>6, <2>7, TokenParts
      <3>2. displacement \in Nat \ {0} /\ length \in Nat \ {0}
        BY <2>4, <2>6, <3>1, TakenApart
      <3>3. displacement \in 1..Len(output)
        BY <1>1, <2>4, <2>7, <3>2
      <3>4. Copied(displacement, length) \in Seq(Nat) /\ Len(Copied(displacement, length)) = length
        BY <1>1, <3>2, <3>3, CopiedBytes
      <3>5. Len(output) + length <= input.output_limit /\ InChunk + length <= ChunkBytes
        BY <1>0, <1>1, <2>4, <2>7, <3>2 DEF Fits, Room
      <3> QED BY <2>1, <2>7, <3>4, <3>5, ProduceType
    <2> QED BY <1>2, <1>4, <2>1, <2>5, <2>6, <2>7, ItemOutcomes
  <1>5. CASE EndOfChunk
    <2>1. NextChunk(<<>>) /\ input' = input /\ chunk <= Len(input.chunks)
      BY <1>5 DEF EndOfChunk
    <2>2. chunk \in 1..Len(input.chunks) /\ <<>> \in Seq(Nat)
      BY <1>0, <1>1, <2>1
    <2>3. Len(output) + Len(<<>>) <= input.output_limit
      BY <1>1
    <2> QED BY <2>1, <2>2, <2>3, NextChunkType
  <1>6. CASE UNCHANGED state
    BY <1>6 DEF state, TypeOK, InChunk
  <1>7. Stopped => UNCHANGED state
    BY DEF Stopped
  <1> QED BY <1>3, <1>4, <1>5, <1>6, <1>7 DEF DecodeNext

\* decompress_lznt1 keeps the limit of a chunk and of the output at every step, whatever
\* the tokens of a stream are.
THEOREM LimitsHold == DecodeSpec => []TypeOK
  <1>1. (input \in Inputs /\ TypeOK) /\ [DecodeNext]_state => (input \in Inputs /\ TypeOK)'
    BY TypeStep
  <1> QED BY <1>1, TypeStarts, PTL DEF DecodeSpec

-----------------------------------------------------------------------------
(* What is decoded.                                                        *)

\* What the operations of a raw chunk stand for.
LEMMA RawFacts ==
    ASSUME NEW ops \in Seq(Byte)
    PROVE  /\ Counts(ops)[Len(ops)] = Len(ops)
           /\ Expanded(ops)[Len(ops)] = [i \in 1..Len(ops) |-> ops[i].byte]
  <1> DEFINE E == Expanded(ops)
             S == Counts(ops)
             bytes(n) == [i \in 1..n |-> ops[i].byte]
             T == {n \in 0..Len(ops) : ~(S[n] = n /\ E[n] = bytes(n))}
  <1>0. Len(ops) \in Nat /\ \A i \in 1..Len(ops) : ops[i] \in Byte
    OBVIOUS
  <1>1. \A op \in Byte : op.kind = "literal" /\ op.byte \in Nat
    BY DEF Byte
  <1>2. \A i \in 1..Len(ops) : Length(ops[i]) = 1
    BY <1>0, <1>1 DEF Length
  <1>3. \A plain : \A i \in 1..Len(ops) : ExpandOne(plain, ops[i]) = Append(plain, ops[i].byte)
    <2> TAKE plain
    <2> TAKE i \in 1..Len(ops)
    <2>1. ops[i].kind = "literal"
      BY <1>0, <1>1
    <2> QED BY <2>1 DEF ExpandOne
  <1>4. /\ S[0] = 0 /\ \A n \in 1..Len(ops) : S[n] = S[n - 1] + 1
        /\ E[0] = <<>> /\ \A n \in 1..Len(ops) : E[n] = Append(E[n - 1], ops[n].byte)
    BY <1>0, <1>2, <1>3, CountsUnfold, ExpandedUnfold
  <1> HIDE DEF S, E
  <1>5. ASSUME T # {} PROVE FALSE
    <2>1. PICK n \in T : \A m \in T : n <= m
      <3>1. T \in SUBSET Nat
        BY <1>0
      <3> HIDE DEF T
      <3> QED BY <1>5, <3>1, LeastElement
    <2>2. n \in 0..Len(ops) /\ ~(S[n] = n /\ E[n] = bytes(n))
      OBVIOUS
    <2>3. n # 0
      <3>1. bytes(0) = <<>>
        OBVIOUS
      <3> HIDE DEF bytes
      <3> QED BY <1>4, <2>2, <3>1
    <2>4. n \in 1..Len(ops) /\ n - 1 \in 0..Len(ops) /\ ~(n <= n - 1)
      BY <1>0, <2>2, <2>3
    <2>5. S[n - 1] = n - 1 /\ E[n - 1] = bytes(n - 1)
      <3> HIDE DEF bytes
      <3> QED BY <2>1, <2>4
    <2>6. Append(bytes(n - 1), ops[n].byte) = bytes(n)
      <3>1. \A i \in 1..n - 1 : ops[i].byte \in Nat
        BY <1>0, <1>1, <2>4
      <3>2. bytes(n - 1) \in Seq(Nat) /\ Len(bytes(n - 1)) = n - 1
        BY <2>4, <3>1
      <3> QED BY <2>4, <3>2
    <2>7. E[n] = bytes(n)
      <3> HIDE DEF bytes
      <3> QED BY <1>4, <2>4, <2>5, <2>6
    <2>8. S[n] = n
      BY <1>4, <2>4, <2>5
    <2> QED BY <2>2, <2>7, <2>8
  <1>6. S[Len(ops)] = Len(ops) /\ E[Len(ops)] = bytes(Len(ops))
    <2> HIDE DEF bytes
    <2> QED BY <1>0, <1>5
  <1> QED BY <1>6 DEF S, E

\* A copy that stays in its chunk repeats bytes of the chunk.
LEMMA CopyInChunk ==
    ASSUME NEW before \in Seq(Nat), NEW part \in Seq(Nat),
           NEW distance \in 1..Len(part), NEW size \in Nat
    PROVE  [i \in 1..size |-> (before \o part)[Len(before \o part) - distance + 1
                                               + ((i - 1) % distance)]]
           = [i \in 1..size |-> part[Len(part) - distance + 1 + ((i - 1) % distance)]]
  <1>1. \A i \in 1..size : (i - 1) % distance \in 0..distance - 1
    OBVIOUS
  <1>2. Len(before \o part) = Len(before) + Len(part)
    OBVIOUS
  <1>3. ASSUME NEW r \in 0..distance - 1
        PROVE  (before \o part)[Len(before) + Len(part) - distance + 1 + r]
               = part[Len(part) - distance + 1 + r]
    <2>1. PICK k : k = Len(part) - distance + 1 + r
      OBVIOUS
    <2>2. k \in 1..Len(part)
      BY <2>1
    <2>3. (before \o part)[Len(before) + k] = part[k]
      BY <2>2
    <2>4. Len(before) + Len(part) - distance + 1 + r = Len(before) + k
      BY <2>1
    <2> QED BY <2>1, <2>3, <2>4
  <1>4. ASSUME NEW i \in 1..size
        PROVE  (before \o part)[Len(before \o part) - distance + 1 + ((i - 1) % distance)]
               = part[Len(part) - distance + 1 + ((i - 1) % distance)]
    <2>1. PICK r : r = (i - 1) % distance
      OBVIOUS
    <2>2. r \in 0..distance - 1
      BY <1>1, <2>1
    <2>3. (before \o part)[Len(before) + Len(part) - distance + 1 + r]
          = part[Len(part) - distance + 1 + r]
      BY <1>3, <2>2
    <2>4. Len(before \o part) - distance + 1 + ((i - 1) % distance)
          = Len(before) + Len(part) - distance + 1 + r
      BY <1>2, <2>1
    <2>5. Len(part) - distance + 1 + ((i - 1) % distance) = Len(part) - distance + 1 + r
      BY <2>1
    <2> QED BY <2>3, <2>4, <2>5, Zenon
  <1> QED BY <1>4, Zenon

\* No copy of a stream begins where its chunk holds a power of two.
RegularStream(stream) ==
    \A c \in 1..Len(stream.chunks) :
        \A i \in 1..Len(stream.chunks[c].operations) : ~OnPower(stream.chunks[c].operations, i)

\* The bytes of the current chunk that are decoded.
Part == IF item = 1 THEN <<>> ELSE Expanded(Here.operations)[item - 1]

\* The output is the chunks passed, then the items passed of the current one.
Decoded ==
    Running =>
        /\ Joined(input.chunks)[chunk - 1] \in Seq(Nat)
        /\ Len(Joined(input.chunks)[chunk - 1]) = start
        /\ JoinedLengths(input.chunks)[chunk - 1] = start
        /\ IF chunk > Len(input.chunks) THEN item = 1
           ELSE /\ item <= Len(Here.operations) + 1
                /\ Counts(Here.operations)[item - 1] = InChunk
        /\ Part \in Seq(Nat)
        /\ Len(Part) = InChunk
        /\ output = Joined(input.chunks)[chunk - 1] \o Part

Faithful == Decoded /\ DecodesExactly /\ RefusalsJustified

DecodeInv == input \in Inputs /\ TypeOK /\ (RegularStream(input) => Faithful)

\* Joining sequences is associative.
LEMMA Joining ==
    \A r, s, t \in Seq(Nat) : (r \o s) \o t = r \o (s \o t)
  <1> TAKE r, s, t \in Seq(Nat)
  <1> QED BY ConcatAssociative, SMTT(60)

\* While it runs, a call has promised nothing.
LEMMA RunningPromises == Running' => DecodesExactly' /\ RefusalsJustified'
  <1> SUFFICES ASSUME Running' PROVE DecodesExactly' /\ RefusalsJustified'
    OBVIOUS
  <1>1. outcome' = "none"
    BY Zenon DEF Running
  <1>2. /\ outcome' # "ok" /\ outcome' # "displacement"
        /\ outcome' # "chunk limit" /\ outcome' # "output limit"
    BY <1>1, Zenon
  <1> QED BY <1>2, Zenon DEF DecodesExactly, RefusalsJustified

\* The chunk that is passed next adds what it stands for.
LEMMA NextChunkKeeps ==
    ASSUME input \in Inputs, TypeOK, Decoded, Running,
           chunk \in 1..Len(input.chunks),
           NEW bytes \in Seq(Nat), NextChunk(bytes), input' = input,
           Part \o bytes = Expanded(Here.operations)[Len(Here.operations)],
           InChunk + Len(bytes) = Counts(Here.operations)[Len(Here.operations)]
    PROVE  Faithful'
  <1> DEFINE J == Joined(input.chunks)
             L == JoinedLengths(input.chunks)
             last == Len(Here.operations)
  <1>0. /\ input.chunks \in Seq(Chunk) /\ Len(input.chunks) \in Nat
        /\ output \in Seq(Nat) /\ Len(output) \in Nat /\ start \in 0..Len(output)
    BY StreamsAssumption DEF TypeOK
  <1>1. /\ J[chunk - 1] \in Seq(Nat) /\ Len(J[chunk - 1]) = start /\ L[chunk - 1] = start
        /\ Part \in Seq(Nat) /\ Len(Part) = InChunk /\ output = J[chunk - 1] \o Part
    BY DEF Decoded
  <1>2. /\ J[chunk] = J[chunk - 1] \o Expanded(Here.operations)[last]
        /\ L[chunk] = L[chunk - 1] + Counts(Here.operations)[last]
    BY <1>0, JoinedUnfold, JoinedLengthsUnfold DEF ExpandChunk, Here
  <1> HIDE DEF J, L, last
  <1>3. output \o bytes = J[chunk]
    <2>1. (J[chunk - 1] \o Part) \o bytes = J[chunk - 1] \o (Part \o bytes)
      BY <1>1, Joining, Zenon
    <2> QED BY <1>1, <1>2, <2>1, Zenon DEF last
  <1>4. output \o bytes \in Seq(Nat) /\ Len(output \o bytes) = Len(output) + Len(bytes)
    BY <1>0
  <1>5. L[chunk] = Len(output \o bytes)
    BY <1>0, <1>1, <1>2, <1>4 DEF InChunk, last
  <1>6. /\ chunk' = chunk + 1 /\ item' = 1 /\ outcome' = outcome
        /\ output' = output \o bytes /\ start' = Len(output')
    BY DEF NextChunk
  <1>7. chunk' - 1 = chunk /\ item' - 1 = 0
    BY <1>6
  <1>8. /\ J[chunk' - 1] \in Seq(Nat) /\ Len(J[chunk' - 1]) = start'
        /\ L[chunk' - 1] = start' /\ output' = J[chunk' - 1]
    BY <1>3, <1>4, <1>5, <1>6, <1>7
  <1>9. Part' = <<>> /\ InChunk' = 0
    <2>1. Len(output') - start' = 0
      BY <1>4, <1>6
    <2> QED BY <1>6, <2>1 DEF Part, InChunk
  <1>10. output' = J[chunk' - 1] \o <<>>
    BY <1>8
  <1>11. ASSUME ~(chunk' > Len(input.chunks))
         PROVE  item' <= Len(Here'.operations) + 1 /\ Counts(Here'.operations)[item' - 1] = 0
    <2>1. PICK ops : ops = Here'.operations
      OBVIOUS
    <2>2. chunk + 1 \in 1..Len(input.chunks)
      BY <1>0, <1>6, <1>11
    <2>3. input.chunks[chunk + 1] \in Chunk
      BY <1>0, <2>2
    <2>4. ops = input.chunks[chunk + 1].operations
      BY <1>6, <2>1 DEF Here
    <2>5. Len(ops) \in Nat
      <3>1. \A c \in Chunk : Len(c.operations) \in Nat
        BY DEF Chunk
      <3> QED BY <2>3, <2>4, <3>1
    <2>6. Counts(ops)[0] = 0
      BY <2>5, CountsUnfold
    <2> QED BY <1>6, <1>7, <2>1, <2>5, <2>6
  <1>12. Decoded'
    BY <1>6, <1>8, <1>9, <1>10, <1>11 DEF Decoded, J, L
  <1>13. Running'
    BY <1>6, Zenon DEF Running
  <1> QED BY <1>12, <1>13, RunningPromises DEF Faithful

\* So does the item that is passed next.
LEMMA ProduceKeeps ==
    ASSUME input \in Inputs, TypeOK, Decoded, Running,
           chunk \in 1..Len(input.chunks), item \in 1..Len(Here.operations),
           NEW bytes \in Seq(Nat), Produce(bytes), input' = input,
           Part \o bytes = Expanded(Here.operations)[item],
           InChunk + Len(bytes) = Counts(Here.operations)[item]
    PROVE  Faithful'
  <1> DEFINE J == Joined(input.chunks)
             L == JoinedLengths(input.chunks)
             ops == Here.operations
  <1>0. /\ input.chunks \in Seq(Chunk) /\ Len(input.chunks) \in Nat /\ Len(ops) \in Nat
        /\ output \in Seq(Nat) /\ Len(output) \in Nat /\ start \in 0..Len(output)
    BY HereFacts, StreamsAssumption DEF TypeOK
  <1>1. /\ J[chunk - 1] \in Seq(Nat) /\ Len(J[chunk - 1]) = start /\ L[chunk - 1] = start
        /\ Part \in Seq(Nat) /\ Len(Part) = InChunk /\ output = J[chunk - 1] \o Part
    BY DEF Decoded
  <1> HIDE DEF J, L
  <1>2. /\ chunk' = chunk /\ item' = item + 1 /\ outcome' = outcome /\ start' = start
        /\ output' = output \o bytes
    BY DEF Produce
  <1>3. output' = J[chunk - 1] \o (Part \o bytes)
    BY <1>1, <1>2, Joining, Zenon
  <1>4. Here' = Here
    BY <1>2 DEF Here
  <1>5. Part' = Part \o bytes
    <2>1. item' # 1 /\ item' - 1 = item
      BY <1>2
    <2> QED BY <1>4, <2>1 DEF Part
  <1>6. InChunk' = InChunk + Len(bytes)
    BY <1>0, <1>2 DEF InChunk
  <1>7. Part \o bytes \in Seq(Nat) /\ Len(Part \o bytes) = InChunk + Len(bytes)
    <2>1. PICK part : part = Part
      OBVIOUS
    <2>2. part \in Seq(Nat)
      BY <1>1, <2>1
    <2>3. part \o bytes \in Seq(Nat) /\ Len(part \o bytes) = Len(part) + Len(bytes)
      BY <2>2
    <2> QED BY <1>1, <2>1, <2>3
  <1>8. item' <= Len(ops) + 1 /\ Counts(ops)[item' - 1] = InChunk + Len(bytes)
    <2>1. item' - 1 = item
      BY <1>2
    <2> QED BY <1>0, <1>2, <2>1
  <1>9. ~(chunk > Len(input.chunks))
    BY <1>0
  <1> HIDE DEF ops
  <1>10. Decoded'
    BY <1>1, <1>2, <1>3, <1>4, <1>5, <1>6, <1>7, <1>8, <1>9 DEF Decoded, J, L, ops
  <1>11. Running'
    BY <1>2, Zenon DEF Running
  <1> QED BY <1>10, <1>11, RunningPromises DEF Faithful

\* A call starts with nothing decoded.
LEMMA ExactStarts == DecodeInit => Faithful
  <1> SUFFICES ASSUME DecodeInit PROVE Faithful
    OBVIOUS
  <1>0. outcome = "invalid limit" \/ outcome = "none"
    BY Zenon DEF DecodeInit
  <1>1. input \in Inputs /\ chunk = 1 /\ item = 1 /\ start = 0 /\ output = <<>>
    BY Zenon DEF DecodeInit
  <1>2. /\ outcome # "ok" /\ outcome # "displacement"
        /\ outcome # "chunk limit" /\ outcome # "output limit"
    BY <1>0, Zenon
  <1>3. DecodesExactly /\ RefusalsJustified
    BY <1>2, Zenon DEF DecodesExactly, RefusalsJustified
  <1>4. /\ Len(input.chunks) \in Nat
        /\ Joined(input.chunks)[0] = <<>> /\ JoinedLengths(input.chunks)[0] = 0
    BY <1>1, StreamsAssumption, JoinedUnfold, JoinedLengthsUnfold
  <1>5. Part = <<>> /\ InChunk = 0
    BY <1>1 DEF Part, InChunk
  <1>6. ASSUME ~(chunk > Len(input.chunks))
        PROVE  item <= Len(Here.operations) + 1 /\ Counts(Here.operations)[item - 1] = 0
    <2>1. chunk \in 1..Len(input.chunks)
      BY <1>1, <1>4, <1>6
    <2>2. PICK ops : ops = Here.operations
      OBVIOUS
    <2>3. Len(ops) \in Nat
      BY <1>1, <2>1, <2>2, HereFacts
    <2>4. Counts(ops)[0] = 0
      BY <2>3, CountsUnfold
    <2> QED BY <1>1, <2>2, <2>3, <2>4
  <1>7. Joined(input.chunks)[chunk - 1] = <<>> /\ JoinedLengths(input.chunks)[chunk - 1] = 0
    BY <1>1, <1>4
  <1>8. Decoded
    BY <1>1, <1>5, <1>6, <1>7 DEF Decoded
  <1> QED BY <1>3, <1>8 DEF Faithful

\* A refusal that has its reason.
LEMMA RefuseKeeps ==
    ASSUME NEW why, Refuse(why), why # "none", input' = input,
           why = "ok" =>
              output = Joined(input.chunks)[Len(input.chunks)],
           why = "displacement" =>
              Here.operations[item].displacement > Produced(Here.operations, item),
           why = "chunk limit" =>
              Counts(Here.operations)[Len(Here.operations)] > ChunkBytes,
           why = "output limit" => JoinedLengths(input.chunks)[chunk] > input.output_limit
    PROVE  Faithful'
  <1>1. outcome' = why /\ chunk' = chunk /\ item' = item /\ start' = start /\ output' = output
    BY Zenon DEF Refuse
  <1>2. ~Running'
    BY <1>1, Zenon DEF Running
  <1>3. DecodesExactly'
    BY <1>1, Zenon DEF DecodesExactly
  <1>4. RefusalsJustified'
    BY <1>1, Zenon DEF RefusalsJustified, Here
  <1> QED BY <1>2, <1>3, <1>4, Zenon DEF Faithful, Decoded

\* The refusals of the decoder, and the reason each of them needs.
LEMMA RefuseReasons ==
    ASSUME input' = input
    PROVE  /\ Refuse("ok") /\ output = Joined(input.chunks)[Len(input.chunks)] => Faithful'
           /\ Refuse("displacement")
                 /\ Here.operations[item].displacement > Produced(Here.operations, item)
              => Faithful'
           /\ Refuse("chunk limit")
                 /\ Counts(Here.operations)[Len(Here.operations)] > ChunkBytes
              => Faithful'
           /\ Refuse("output limit") /\ JoinedLengths(input.chunks)[chunk] > input.output_limit
              => Faithful'
           /\ (\E why \in {"data after end", "header", "signature", "truncated", "cut"} :
                  Refuse(why))
              => Faithful'
  <1>1. ASSUME Refuse("ok"), output = Joined(input.chunks)[Len(input.chunks)] PROVE Faithful'
    BY <1>1, RefuseKeeps, Zenon
  <1>2. ASSUME Refuse("displacement"),
               Here.operations[item].displacement > Produced(Here.operations, item)
        PROVE  Faithful'
    BY <1>2, RefuseKeeps, Zenon
  <1>3. ASSUME Refuse("chunk limit"),
               Counts(Here.operations)[Len(Here.operations)] > ChunkBytes
        PROVE  Faithful'
    BY <1>3, RefuseKeeps, Zenon
  <1>4. ASSUME Refuse("output limit"), JoinedLengths(input.chunks)[chunk] > input.output_limit
        PROVE  Faithful'
    BY <1>4, RefuseKeeps, Zenon
  <1>5. ASSUME NEW why \in {"data after end", "header", "signature", "truncated", "cut"},
               Refuse(why)
        PROVE  Faithful'
    BY <1>5, RefuseKeeps, Zenon
  <1> QED BY <1>1, <1>2, <1>3, <1>4, <1>5, Zenon

\* What holds while the chunk of a running call is looked at.
LEMMA AtWork ==
    ASSUME input \in Inputs, TypeOK, Faithful, Running, chunk <= Len(input.chunks)
    PROVE  /\ chunk \in 1..Len(input.chunks) /\ item \in 1..Len(Here.operations) + 1
           /\ Here.operations \in Seq(Operation) /\ Len(Here.operations) \in Nat
           /\ Part = Expanded(Here.operations)[item - 1]
           /\ Part \in Seq(Nat) /\ Len(Part) = InChunk
           /\ Counts(Here.operations)[item - 1] = InChunk
           /\ InChunk \in 0..ChunkBytes /\ ChunkBytes \in Nat /\ input.output_limit \in Nat
           /\ output \in Seq(Nat) /\ Len(output) = start + InChunk /\ start \in Nat
           /\ output = Joined(input.chunks)[chunk - 1] \o Part
           /\ Joined(input.chunks)[chunk - 1] \in Seq(Nat)
           /\ Len(Joined(input.chunks)[chunk - 1]) = start
           /\ JoinedLengths(input.chunks)[chunk]
                 = start + Counts(Here.operations)[Len(Here.operations)]
           /\ Joined(input.chunks)[chunk]
                 = Joined(input.chunks)[chunk - 1]
                      \o Expanded(Here.operations)[Len(Here.operations)]
  <1>1. input.chunks \in Seq(Chunk) /\ Len(input.chunks) \in Nat /\ input.output_limit \in Nat
    BY StreamsAssumption
  <1>2. chunk \in 1..Len(input.chunks) /\ ~(chunk > Len(input.chunks))
    BY <1>1 DEF TypeOK
  <1>3. Here.operations \in Seq(Operation) /\ Len(Here.operations) \in Nat
    BY <1>2, HereFacts
  <1>4. PICK ops : ops = Here.operations
    OBVIOUS
  <1>5. Len(ops) \in Nat
    BY <1>3, <1>4
  <1>6. /\ Joined(input.chunks)[chunk - 1] \in Seq(Nat)
        /\ Len(Joined(input.chunks)[chunk - 1]) = start
        /\ JoinedLengths(input.chunks)[chunk - 1] = start
        /\ item <= Len(ops) + 1 /\ Counts(ops)[item - 1] = InChunk
        /\ Part \in Seq(Nat) /\ Len(Part) = InChunk
        /\ output = Joined(input.chunks)[chunk - 1] \o Part
    BY <1>2, <1>4 DEF Faithful, Decoded
  <1>7. item \in 1..Len(ops) + 1
    BY <1>5, <1>6 DEF TypeOK
  <1>8. /\ InChunk \in 0..ChunkBytes /\ ChunkBytes \in Nat /\ output \in Seq(Nat)
        /\ Len(output) = start + InChunk /\ start \in Nat
    BY TokenAssumption DEF TypeOK, InChunk
  <1>9. Part = Expanded(ops)[item - 1]
    <2>1. CASE item = 1
      <3>1. Expanded(ops)[0] = <<>>
        BY <1>5, ExpandedUnfold
      <3> QED BY <2>1, <3>1 DEF Part
    <2>2. CASE item # 1
      BY <1>4, <2>2 DEF Part
    <2> QED BY <2>1, <2>2
  <1>10. /\ JoinedLengths(input.chunks)[chunk] = start + Counts(ops)[Len(ops)]
         /\ Joined(input.chunks)[chunk] = Joined(input.chunks)[chunk - 1] \o Expanded(ops)[Len(ops)]
    BY <1>1, <1>2, <1>4, <1>6, JoinedUnfold, JoinedLengthsUnfold DEF ExpandChunk, Here
  <1> QED BY <1>1, <1>2, <1>3, <1>4, <1>6, <1>7, <1>8, <1>9, <1>10

\* One item further into the chunk: what it adds to the bytes and to their number.
LEMMA ItemAdds ==
    ASSUME NEW ops \in Seq(Operation), NEW i \in 1..Len(ops)
    PROVE  /\ Counts(ops)[i] = Counts(ops)[i - 1] + Length(ops[i])
           /\ Counts(ops)[i - 1] \in Nat /\ Length(ops[i]) \in Nat
           /\ Counts(ops)[Len(ops)] \in Nat /\ Counts(ops)[i] <= Counts(ops)[Len(ops)]
           /\ Expanded(ops)[i] = ExpandOne(Expanded(ops)[i - 1], ops[i])
  <1>1. Len(ops) \in Nat /\ i \in 0..Len(ops) /\ i - 1 \in 0..Len(ops) /\ Len(ops) \in i..Len(ops)
    OBVIOUS
  <1>2. Counts(ops)[i] = Counts(ops)[i - 1] + Length(ops[i])
    BY <1>1, CountsUnfold
  <1>3. Expanded(ops)[i] = ExpandOne(Expanded(ops)[i - 1], ops[i])
    BY <1>1, ExpandedUnfold
  <1>4. Counts(ops)[i - 1] \in Nat /\ Counts(ops)[Len(ops)] \in Nat
    BY <1>1, CountsType
  <1>5. Counts(ops)[i] <= Counts(ops)[Len(ops)]
    BY <1>1, CountsOrder
  <1>6. Length(ops[i]) \in Nat
    BY OperationFacts
  <1> QED BY <1>2, <1>3, <1>4, <1>5, <1>6

\* The items of a compressed chunk.
LEMMA LiteralExact ==
    ASSUME input \in Inputs, TypeOK, Faithful, Literal
    PROVE  Faithful'
  <1> DEFINE ops == Here.operations
  <1>0. /\ Running /\ chunk <= Len(input.chunks) /\ item <= Len(ops) /\ input' = input
        /\ ops[item].kind = "literal"
    BY Zenon DEF Literal, AtItem
  <1>1. /\ chunk \in 1..Len(input.chunks) /\ item \in 1..Len(ops) + 1
        /\ ops \in Seq(Operation) /\ Len(ops) \in Nat
        /\ Part = Expanded(ops)[item - 1] /\ Part \in Seq(Nat) /\ Len(Part) = InChunk
        /\ Counts(ops)[item - 1] = InChunk /\ InChunk \in 0..ChunkBytes /\ ChunkBytes \in Nat
        /\ Len(output) = start + InChunk /\ start \in Nat /\ input.output_limit \in Nat
        /\ JoinedLengths(input.chunks)[chunk] = start + Counts(ops)[Len(ops)]
    BY <1>0, AtWork
  <1> HIDE DEF ops
  <1>2. item \in 1..Len(ops)
    BY <1>0, <1>1
  <1>3. PICK op : op = ops[item]
    OBVIOUS
  <1>4. Length(op) = 1 /\ op.byte \in Nat
    BY <1>0, <1>1, <1>2, <1>3, OperationFacts DEF Length
  <1>5. /\ Counts(ops)[item] = InChunk + 1 /\ Counts(ops)[Len(ops)] \in Nat
        /\ Counts(ops)[item] <= Counts(ops)[Len(ops)]
        /\ Expanded(ops)[item] = ExpandOne(Part, op)
    BY <1>1, <1>2, <1>3, <1>4, ItemAdds
  <1>6. CASE InChunk = ChunkBytes
    <2>1. Refuse("chunk limit")
      BY <1>6, Zenon DEF Literal
    <2>2. Counts(ops)[Len(ops)] > ChunkBytes
      BY <1>1, <1>5, <1>6
    <2> QED BY <1>0, <2>1, <2>2, RefuseReasons, Zenon DEF ops
  <1>7. CASE InChunk # ChunkBytes /\ Len(output) = input.output_limit
    <2>1. Refuse("output limit")
      BY <1>7, Zenon DEF Literal
    <2>2. JoinedLengths(input.chunks)[chunk] > input.output_limit
      BY <1>1, <1>5, <1>7
    <2> QED BY <1>0, <2>1, <2>2, RefuseReasons, Zenon
  <1>8. CASE InChunk # ChunkBytes /\ Len(output) # input.output_limit
    <2>1. Produce(<<op.byte>>)
      BY <1>3, <1>8, Zenon DEF Literal, ops
    <2>2. ExpandOne(Part, op) = Append(Part, op.byte)
      <3>1. op.kind = "literal" /\ op.kind # "copy"
        BY <1>0, <1>3
      <3> QED BY <3>1, Zenon DEF ExpandOne
    <2>3. Part \o <<op.byte>> = Expanded(ops)[item] /\ <<op.byte>> \in Seq(Nat)
      <3>1. \A part \in Seq(Nat) : \A b \in Nat :
               Append(part, b) = part \o <<b>> /\ <<b>> \in Seq(Nat)
        OBVIOUS
      <3> QED BY <1>1, <1>4, <1>5, <2>2, <3>1
    <2>4. InChunk + Len(<<op.byte>>) = Counts(ops)[item]
      BY <1>5
    <2> QED BY <1>0, <1>1, <1>2, <2>1, <2>3, <2>4, ProduceKeeps DEF Faithful, ops
  <1> QED BY <1>6, <1>7, <1>8

LEMMA MatchExact ==
    ASSUME input \in Inputs, TypeOK, Faithful, RegularStream(input), Match
    PROVE  Faithful'
  <1> DEFINE ops == Here.operations
             token == Token(ops, item)
             distance == Displacement(token, InChunk)
             size == MatchLength(token, InChunk)
  <1>0. /\ Running /\ chunk <= Len(input.chunks) /\ item <= Len(ops) /\ input' = input
        /\ ops[item].kind = "copy"
    BY Zenon DEF Match, AtItem
  <1>1. /\ chunk \in 1..Len(input.chunks) /\ item \in 1..Len(ops) + 1
        /\ ops \in Seq(Operation) /\ Len(ops) \in Nat
        /\ Part = Expanded(ops)[item - 1] /\ Part \in Seq(Nat) /\ Len(Part) = InChunk
        /\ Counts(ops)[item - 1] = InChunk /\ InChunk \in 0..ChunkBytes /\ ChunkBytes \in Nat
        /\ Len(output) = start + InChunk /\ start \in Nat /\ input.output_limit \in Nat
        /\ JoinedLengths(input.chunks)[chunk] = start + Counts(ops)[Len(ops)]
        /\ output \in Seq(Nat) /\ output = Joined(input.chunks)[chunk - 1] \o Part
        /\ Joined(input.chunks)[chunk - 1] \in Seq(Nat)
    BY <1>0, AtWork
  <1>2. item \in 1..Len(ops) /\ Encodable(ops)
    BY <1>0, <1>1, HereFacts
  <1>3. ~OnPower(ops, item)
    <2>1. ops = input.chunks[chunk].operations
      BY DEF Here
    <2> HIDE DEF ops
    <2> QED BY <1>1, <1>2, <2>1 DEF RegularStream
  <1>4. Match => IF distance > InChunk THEN Refuse("displacement")
                 ELSE IF size > ChunkBytes - InChunk THEN Refuse("chunk limit")
                 ELSE IF ~Fits(size) THEN Refuse("output limit")
                 ELSE Produce(Copied(distance, size))
    BY Zenon DEF Match
  <1> HIDE DEF ops, token
  <1>5. Produced(ops, item) = InChunk
    BY <1>1 DEF Produced
  <1>6. PICK op : op = ops[item]
    OBVIOUS
  <1>7. distance = op.displacement /\ size = op.length
    BY <1>0, <1>1, <1>2, <1>3, <1>5, <1>6, TokenRight DEF token
  <1> HIDE DEF distance, size
  <1>8. distance \in Nat \ {0} /\ size \in Nat \ {0} /\ Length(op) = size
    BY <1>0, <1>1, <1>2, <1>6, <1>7, OperationFacts DEF Length
  <1>9. /\ Counts(ops)[item] = InChunk + size /\ Counts(ops)[Len(ops)] \in Nat
        /\ Counts(ops)[item] <= Counts(ops)[Len(ops)]
        /\ Expanded(ops)[item] = ExpandOne(Part, op)
    BY <1>1, <1>2, <1>6, <1>8, ItemAdds
  <1>10. CASE distance > InChunk
    <2>1. Refuse("displacement")
      BY <1>4, <1>10, Zenon
    <2>2. Here.operations[item].displacement > Produced(Here.operations, item)
      BY <1>5, <1>6, <1>7, <1>10 DEF ops
    <2> QED BY <1>0, <2>1, <2>2, RefuseReasons, Zenon
  <1>11. CASE ~(distance > InChunk) /\ size > ChunkBytes - InChunk
    <2>1. Refuse("chunk limit")
      BY <1>4, <1>11, Zenon
    <2>2. Counts(ops)[Len(ops)] > ChunkBytes
      BY <1>1, <1>8, <1>9, <1>11
    <2> QED BY <1>0, <2>1, <2>2, RefuseReasons, Zenon DEF ops
  <1>12. CASE ~(distance > InChunk) /\ ~(size > ChunkBytes - InChunk) /\ ~Fits(size)
    <2>1. Refuse("output limit")
      BY <1>4, <1>12, Zenon
    <2>2. PICK in, all, limit, made : /\ in = InChunk /\ all = Counts(ops)[Len(ops)]
                                       /\ limit = input.output_limit /\ made = Len(output)
      OBVIOUS
    <2>3. ~(size <= limit - made)
      BY <1>12, <2>2, Zenon DEF Fits, Room
    <2>4. /\ in \in Nat /\ all \in Nat /\ limit \in Nat /\ start \in Nat
          /\ made = start + in /\ in + size <= all
      <3>1. /\ in \in 0..ChunkBytes /\ ChunkBytes \in Nat /\ all \in Nat /\ limit \in Nat
            /\ start \in Nat /\ made = start + in /\ in + size <= all
        BY <1>1, <1>9, <2>2, Zenon
      <3> QED BY <3>1
    <2>5. start + all > limit
      <3>1. size \in Nat
        BY <1>8
      <3> QED BY <2>3, <2>4, <3>1
    <2>6. JoinedLengths(input.chunks)[chunk] = start + all
      BY <1>1, <2>2, Zenon
    <2>7. JoinedLengths(input.chunks)[chunk] > input.output_limit
      BY <2>2, <2>5, <2>6, Zenon
    <2> QED BY <1>0, <2>1, <2>7, RefuseReasons, Zenon
  <1>13. CASE ~(distance > InChunk) /\ ~(size > ChunkBytes - InChunk) /\ Fits(size)
    <2>1. Produce(Copied(distance, size))
      BY <1>4, <1>13, Zenon
    <2>2. distance \in 1..Len(Part) /\ distance \in 1..Len(output)
      BY <1>1, <1>8, <1>13
    <2>3. /\ Copied(distance, size) \in Seq(Nat) /\ Len(Copied(distance, size)) = size
          /\ Copied(distance, size) =
                [i \in 1..size |-> output[Len(output) - distance + 1 + ((i - 1) % distance)]]
      <3>1. output \in Seq(Nat) /\ size \in Nat
        BY <1>1, <1>8
      <3> QED BY <2>2, <3>1, CopiedBytes, Zenon
    <2>4. Copied(distance, size) =
             [i \in 1..size |-> Part[Len(Part) - distance + 1 + ((i - 1) % distance)]]
      <3>1. PICK before, part : before = Joined(input.chunks)[chunk - 1] /\ part = Part
        OBVIOUS
      <3>2. before \in Seq(Nat) /\ part \in Seq(Nat) /\ distance \in 1..Len(part) /\ size \in Nat
        BY <1>1, <1>8, <2>2, <3>1
      <3>3. output = before \o part
        BY <1>1, <3>1
      <3>4. [i \in 1..size |-> (before \o part)[Len(before \o part) - distance + 1
                                                 + ((i - 1) % distance)]]
            = [i \in 1..size |-> part[Len(part) - distance + 1 + ((i - 1) % distance)]]
        BY <3>2, CopyInChunk, SMTT(30)
      <3> QED BY <2>3, <3>1, <3>3, <3>4, Zenon
    <2>5. Part \o Copied(distance, size) = Expanded(ops)[item]
      <3>1. op.kind = "copy"
        BY <1>0, <1>6
      <3>2. ExpandOne(Part, op) = Part \o [i \in 1..op.length |->
               Part[Len(Part) - op.displacement + 1 + ((i - 1) % op.displacement)]]
        BY <3>1, Zenon DEF ExpandOne
      <3> QED BY <1>7, <1>9, <2>4, <3>2, Zenon
    <2>6. InChunk + Len(Copied(distance, size)) = Counts(ops)[item]
      BY <1>9, <2>3
    <2> QED BY <1>0, <1>1, <1>2, <2>1, <2>3, <2>5, <2>6, ProduceKeeps DEF Faithful, ops
  <1> QED BY <1>10, <1>11, <1>12, <1>13

\* Raw chunks, ends of chunks and of the stream.
LEMMA RawExact ==
    ASSUME input \in Inputs, TypeOK, Faithful, RawChunk
    PROVE  Faithful'
  <1> DEFINE ops == Here.operations
             count == Len(ops)
             bytes == [i \in 1..count |-> ops[i].byte]
  <1>0. /\ Running /\ chunk <= Len(input.chunks) /\ input' = input
        /\ item = 1 /\ start = Len(output) /\ Here.form = "raw"
    BY Zenon DEF RawChunk, AtChunk
  <1>1. /\ chunk \in 1..Len(input.chunks)
        /\ ops \in Seq(Operation) /\ Len(ops) \in Nat
        /\ InChunk \in 0..ChunkBytes /\ ChunkBytes \in Nat
        /\ Len(output) = start + InChunk /\ start \in Nat /\ input.output_limit \in Nat
        /\ JoinedLengths(input.chunks)[chunk] = start + Counts(ops)[Len(ops)]
    BY <1>0, AtWork
  <1>2. ops \in Seq(Byte)
    BY <1>0, <1>1, HereFacts
  <1>3. RawChunk => IF count > ChunkBytes THEN Refuse("chunk limit")
                    ELSE IF count > Room THEN Refuse("output limit")
                    ELSE NextChunk(bytes)
    BY Zenon DEF RawChunk
  <1>4. Counts(ops)[Len(ops)] = count /\ Expanded(ops)[Len(ops)] = bytes
    <2> HIDE DEF ops
    <2> QED BY <1>2, RawFacts
  <1>5. bytes \in Seq(Nat) /\ Len(bytes) = count
    <2> HIDE DEF ops
    <2>1. \A op \in Byte : op.byte \in Nat
      BY DEF Byte
    <2>2. \A i \in 1..count : ops[i].byte \in Nat
      BY <1>2, <2>1
    <2> QED BY <1>2, <2>2
  <1> HIDE DEF bytes
  <1>6. CASE count > ChunkBytes
    <2>1. Refuse("chunk limit")
      BY <1>3, <1>6, Zenon
    <2>2. Counts(ops)[Len(ops)] > ChunkBytes
      BY <1>4, <1>6
    <2> QED BY <1>0, <2>1, <2>2, RefuseReasons, Zenon DEF ops
  <1>7. CASE ~(count > ChunkBytes) /\ count > Room
    <2>1. Refuse("output limit")
      BY <1>3, <1>7, Zenon
    <2>2. JoinedLengths(input.chunks)[chunk] > input.output_limit
      <3>1. Len(output) = start
        BY <1>0
      <3>2. JoinedLengths(input.chunks)[chunk] = start + count
        BY <1>1, <1>4
      <3>3. count \in Nat /\ count > input.output_limit - Len(output)
        BY <1>1, <1>7 DEF Room
      <3> HIDE DEF count
      <3> QED BY <1>1, <3>1, <3>2, <3>3
    <2> QED BY <1>0, <2>1, <2>2, RefuseReasons, Zenon
  <1>8. CASE ~(count > ChunkBytes) /\ ~(count > Room)
    <2>1. NextChunk(bytes)
      BY <1>3, <1>8, Zenon
    <2>2. Part = <<>> /\ InChunk = 0
      BY <1>0, <1>1 DEF Part
    <2>3. Part \o bytes = Expanded(ops)[Len(ops)]
      BY <1>4, <1>5, <2>2
    <2>4. InChunk + Len(bytes) = Counts(ops)[Len(ops)]
      BY <1>1, <1>4, <1>5, <2>2
    <2> QED BY <1>0, <1>1, <1>5, <2>1, <2>3, <2>4, NextChunkKeeps DEF Faithful, ops
  <1> QED BY <1>6, <1>7, <1>8

LEMMA EndOfChunkExact ==
    ASSUME input \in Inputs, TypeOK, Faithful, EndOfChunk
    PROVE  Faithful'
  <1> DEFINE ops == Here.operations
  <1>0. /\ Running /\ chunk <= Len(input.chunks) /\ input' = input
        /\ item > Len(ops) /\ NextChunk(<<>>)
    BY Zenon DEF EndOfChunk
  <1>1. /\ chunk \in 1..Len(input.chunks) /\ item \in 1..Len(ops) + 1
        /\ Len(ops) \in Nat
        /\ Part = Expanded(ops)[item - 1] /\ Part \in Seq(Nat) /\ Len(Part) = InChunk
        /\ Counts(ops)[item - 1] = InChunk /\ InChunk \in 0..ChunkBytes /\ ChunkBytes \in Nat
    BY <1>0, AtWork
  <1>2. item - 1 = Len(ops)
    BY <1>0, <1>1
  <1>3. <<>> \in Seq(Nat) /\ Part \o <<>> = Part /\ Len(<<>>) = 0
    <2>1. \A part \in Seq(Nat) : part \o <<>> = part
      OBVIOUS
    <2> QED BY <1>1, <2>1
  <1>4. Part \o <<>> = Expanded(ops)[Len(ops)]
    BY <1>1, <1>2, <1>3
  <1>5. InChunk + Len(<<>>) = Counts(ops)[Len(ops)]
    BY <1>1, <1>2, <1>3
  <1> QED BY <1>0, <1>1, <1>3, <1>4, <1>5, NextChunkKeeps DEF Faithful

\* End markers stand for no bytes.
LEMMA MarkersAddNothing ==
    ASSUME input \in Inputs, NEW from \in 1..Len(input.chunks),
           \A c \in from + 1..Len(input.chunks) : input.chunks[c].form = "end",
           Joined(input.chunks)[from] \in Seq(Nat)
    PROVE  Joined(input.chunks)[Len(input.chunks)] = Joined(input.chunks)[from]
  <1> DEFINE J == Joined(input.chunks)
             all == Len(input.chunks)
             T == {n \in from..all : J[n] # J[from]}
  <1>0. input.chunks \in Seq(Chunk) /\ all \in Nat
    BY StreamsAssumption
  <1>1. \A s \in Seq(Nat) : s \o <<>> = s
    OBVIOUS
  <1>2. Expanded(<<>>)[0] = <<>> /\ Len(<<>>) = 0
    <2>1. PICK none : none = <<>>
      OBVIOUS
    <2>2. Len(none) = 0
      BY <2>1
    <2>3. Expanded(none)[0] = <<>>
      BY <2>2, ExpandedUnfold
    <2> QED BY <2>1, <2>2, <2>3
  <1>3. ASSUME NEW c \in from + 1..all PROVE J[c] = J[c - 1] \o <<>>
    <2>1. c \in 1..all
      BY <1>0
    <2>2. input.chunks[c] \in Chunk /\ input.chunks[c].form = "end"
      BY <1>0, <2>1
    <2>3. \A one \in Chunk : one.form = "end" => one.operations = <<>>
      BY DEF Chunk
    <2>4. input.chunks[c].operations = <<>>
      BY <2>2, <2>3
    <2>5. J[c] = ExpandChunk(J[c - 1], input.chunks[c].operations)
      BY <1>0, <2>1, JoinedUnfold
    <2> QED BY <1>2, <2>4, <2>5 DEF ExpandChunk
  <1> HIDE DEF J, all
  <1>4. ASSUME T # {} PROVE FALSE
    <2>1. PICK n \in T : \A m \in T : n <= m
      <3>1. T \in SUBSET Nat
        BY <1>0
      <3> HIDE DEF T
      <3> QED BY <1>4, <3>1, LeastElement
    <2>2. n \in from + 1..all /\ J[n] # J[from]
      BY <1>0
    <2>3. n - 1 \in from..all /\ ~(n <= n - 1)
      BY <1>0, <2>2
    <2>4. J[n - 1] = J[from]
      BY <2>1, <2>3
    <2>5. J[from] \in Seq(Nat)
      BY DEF J
    <2> QED BY <1>1, <1>3, <2>2, <2>4, <2>5
  <1>5. all \in from..all
    BY <1>0 DEF all
  <1>6. J[all] = J[from]
    BY <1>4, <1>5
  <1> QED BY <1>6 DEF J, all

LEMMA EndExact ==
    ASSUME input \in Inputs, TypeOK, Faithful, EndOfInput \/ EndMarker
    PROVE  Faithful'
  <1> DEFINE J == Joined(input.chunks)
             all == Len(input.chunks)
             padded == \A c \in chunk + 1..Len(input.chunks) : input.chunks[c].form = "end"
  <1>0. input.chunks \in Seq(Chunk) /\ all \in Nat
    BY StreamsAssumption
  <1>1. \A s \in Seq(Nat) : s \o <<>> = s
    OBVIOUS
  <1>2. CASE EndOfInput
    <2>1. Running /\ chunk > all /\ input' = input /\ Refuse("ok")
      BY <1>2 DEF EndOfInput, Refuse
    <2>2. chunk - 1 = all
      BY <1>0, <2>1 DEF TypeOK
    <2>3. item = 1 /\ J[chunk - 1] \in Seq(Nat) /\ output = J[chunk - 1] \o Part
      BY <2>1 DEF Faithful, Decoded
    <2>4. Part = <<>>
      BY <2>3 DEF Part
    <2>5. output = J[all]
      BY <1>1, <2>2, <2>3, <2>4
    <2> QED BY <2>1, <2>5, RefuseReasons, Zenon
  <1>3. CASE EndMarker
    <2>1. /\ Running /\ chunk <= all /\ item = 1 /\ input' = input /\ Here.form = "end"
          /\ Refuse(IF padded THEN "ok" ELSE "data after end")
      BY <1>3, Zenon DEF EndMarker, AtChunk
    <2>2. chunk <= all /\ Running /\ item = 1 /\ input' = input /\ Here.form = "end"
      BY <2>1, Zenon
    <2>3. /\ chunk \in 1..all
          /\ J[chunk] = J[chunk - 1] \o Expanded(Here.operations)[Len(Here.operations)]
          /\ J[chunk - 1] \in Seq(Nat) /\ output = J[chunk - 1] \o Part
      BY <2>2, AtWork
    <2>4. Part = <<>>
      BY <2>2 DEF Part
    <2>5. Here.operations = <<>>
      <3>1. Here.form \notin {"compressed", "raw"}
        BY <2>2
      <3> QED BY <2>3, <3>1, HereFacts
    <2>6. Expanded(<<>>)[0] = <<>> /\ Len(<<>>) = 0
      <3>1. PICK none : none = <<>>
        OBVIOUS
      <3>2. Len(none) = 0
        BY <3>1
      <3>3. Expanded(none)[0] = <<>>
        BY <3>2, ExpandedUnfold
      <3> QED BY <3>1, <3>2, <3>3
    <2>7. J[chunk] = output
      BY <1>1, <2>3, <2>4, <2>5, <2>6
    <2>8. CASE padded
      <3>1. Refuse("ok")
        BY <2>1, <2>8, Zenon
      <3>2. output \in Seq(Nat)
        BY DEF TypeOK
      <3>3. J[all] = J[chunk]
        BY <2>3, <2>7, <2>8, <3>2, MarkersAddNothing
      <3>4. output = J[all]
        BY <2>7, <3>3
      <3> QED BY <2>1, <3>1, <3>4, RefuseReasons, Zenon
    <2>9. CASE ~padded
      <3>1. Refuse("data after end")
        BY <2>1, <2>9, Zenon
      <3> QED BY <2>1, <3>1, RefuseReasons, Zenon
    <2> QED BY <2>8, <2>9, Zenon
  <1> QED BY <1>2, <1>3, Zenon

\* Each step keeps the invariant.
LEMMA ExactStep ==
    ASSUME DecodeInv, [DecodeNext]_state
    PROVE  DecodeInv'
  <1>1. input' \in Inputs /\ TypeOK'
    BY TypeStep DEF DecodeInv
  <1>2. input' = input
    BY Zenon DEF DecodeNext, EndOfInput, EndMarker, BadChunk, RawChunk, Literal, Match,
                 CutMatch, EndOfChunk, Stopped, state
  <1>3. ASSUME RegularStream(input) PROVE Faithful'
    <2>0. input \in Inputs /\ TypeOK /\ Faithful
      BY <1>3 DEF DecodeInv
    <2>1. CASE EndOfInput \/ EndMarker
      BY <2>0, <2>1, EndExact
    <2>2. CASE BadChunk
      <3>1. \E why \in {"data after end", "header", "signature", "truncated", "cut"} :
               Refuse(why)
        BY <2>2, Zenon DEF BadChunk
      <3> QED BY <1>2, <3>1, RefuseReasons, Zenon
    <2>3. CASE RawChunk
      BY <2>0, <2>3, RawExact
    <2>4. CASE Literal
      BY <2>0, <2>4, LiteralExact
    <2>5. CASE Match
      BY <1>3, <2>0, <2>5, MatchExact
    <2>6. CASE CutMatch
      <3>1. \E why \in {"data after end", "header", "signature", "truncated", "cut"} :
               Refuse(why)
        BY <2>6, Zenon DEF CutMatch
      <3> QED BY <1>2, <3>1, RefuseReasons, Zenon
    <2>7. CASE EndOfChunk
      BY <2>0, <2>7, EndOfChunkExact
    <2>8. CASE UNCHANGED state
      <3>1. /\ input' = input /\ chunk' = chunk /\ item' = item /\ start' = start
            /\ output' = output /\ outcome' = outcome
        BY <2>8 DEF state
      <3> QED BY <2>0, <3>1, Zenon DEF Faithful, Decoded, DecodesExactly, RefusalsJustified,
                                       Running, Here, Part, InChunk
    <2> QED BY <2>1, <2>2, <2>3, <2>4, <2>5, <2>6, <2>7, <2>8, Zenon DEF DecodeNext, Stopped
  <1> QED BY <1>1, <1>2, <1>3 DEF DecodeInv

\* What a decoder has done, at every moment.
LEMMA DecodeHolds == DecodeSpec => []DecodeInv
  <1>1. DecodeInit => DecodeInv
    BY TypeStarts, ExactStarts DEF DecodeInv
  <1>2. DecodeInv /\ [DecodeNext]_state => DecodeInv'
    BY ExactStep
  <1> QED BY <1>1, <1>2, PTL DEF DecodeSpec

\* Every stream it accepts decodes to the bytes its encoder compressed, but for the
\* streams in which a copy begins where its chunk holds a power of two bytes.
THEOREM StreamsDecode == DecodeSpec => [](RegularStream(input) => DecodesExactly)
  <1>1. DecodeInv => (RegularStream(input) => DecodesExactly)
    BY DEF DecodeInv, Faithful
  <1> QED BY <1>1, DecodeHolds, PTL

\* With that exception the limits are exact: a displacement is refused only where the
\* encoder's reaches past the chunk, a limit is reported only where the bytes compressed
\* pass it, and no step passes either.
THEOREM RefusalsHaveReasons == DecodeSpec => [](RegularStream(input) => LimitsExact)
  <1>1. DecodeInv => (RegularStream(input) => LimitsExact)
    BY DEF DecodeInv, Faithful, LimitsExact
  <1> QED BY <1>1, DecodeHolds, PTL

-----------------------------------------------------------------------------
(* Sizes.                                                                  *)

\* What the recursions say of each power.
LEMMA DoubledUnfold ==
           /\ Doubled[0] = 1
           /\ \A n \in 1..TopBits + Precision : Doubled[n] = 2 * Doubled[n - 1]
  <1> DEFINE Unfolds(f, k) ==
        f = [n \in 0..k |-> IF n = 0 THEN 1 ELSE 2 * f[n - 1]]
  <1>0. TopBits + Precision \in Nat
    BY SizeAssumption
  <1>1. \A k \in Nat : \E f : Unfolds(f, k)
    <2> DEFINE T == {k \in Nat : ~\E f : Unfolds(f, k)}
    <2> SUFFICES ASSUME T # {} PROVE FALSE
      OBVIOUS
    <2>1. PICK k \in T : \A m \in T : k <= m
      <3> HIDE DEF Unfolds
      <3> QED BY LeastElement
    <2>2. CASE k = 0
      <3> DEFINE g == [n \in 0..0 |-> 1]
      <3>1. \A n \in 0..0 : g[n] = IF n = 0 THEN 1 ELSE 2 * g[n - 1]
        OBVIOUS
      <3>2. Unfolds(g, k)
        BY <2>2, <3>1
      <3> HIDE DEF Unfolds
      <3> QED BY <3>2
    <2>3. CASE k # 0
      <3>1. k - 1 \in Nat /\ k - 1 \notin T
        <4> HIDE DEF Unfolds
        <4>1. k \in Nat /\ k - 1 \in Nat
          BY <2>3
        <4>2. ~(k <= k - 1)
          BY <4>1
        <4> QED BY <2>1, <4>1, <4>2
      <3>2. PICK f : Unfolds(f, k - 1)
        <4> HIDE DEF Unfolds
        <4> QED BY <3>1
      <3> DEFINE g == [n \in 0..k |-> IF n = k THEN 2 * f[k - 1] ELSE f[n]]
      <3>3. \A n \in 0..k - 1 : g[n] = f[n]
        BY <3>1
      <3>4. \A n \in 0..k : g[n] = IF n = 0 THEN 1 ELSE 2 * g[n - 1]
        <4> TAKE n \in 0..k
        <4>1. CASE n = k
          <5>1. g[k - 1] = f[k - 1]
            BY <3>1, <3>3
          <5> QED BY <2>3, <4>1, <5>1
        <4>2. CASE n # k /\ n # 0
          <5>1. n \in 0..k - 1 /\ n - 1 \in 0..k - 1
            BY <4>2
          <5>2. f[n] = 2 * f[n - 1]
            BY <3>2, <4>2, <5>1
          <5> QED BY <3>3, <4>2, <5>1, <5>2
        <4>3. CASE n = 0 /\ n # k
          BY <3>1, <3>2, <3>3, <4>3
        <4> QED BY <4>1, <4>2, <4>3
      <3>5. Unfolds(g, k)
        BY <3>4
      <3> HIDE DEF Unfolds
      <3> QED BY <3>5
    <2> QED BY <2>2, <2>3
  <1>2. PICK f : Unfolds(f, TopBits + Precision)
    BY <1>0, <1>1
  <1>3. Unfolds(Doubled, TopBits + Precision)
    <2>1. Doubled = CHOOSE g : Unfolds(g, TopBits + Precision)
      BY DEF Doubled
    <2> HIDE DEF Unfolds
    <2> QED BY <1>2, <2>1
  <1> DEFINE F == Doubled
  <1>4. \A n \in 0..TopBits + Precision : F[n] = IF n = 0 THEN 1 ELSE 2 * F[n - 1]
    <2> HIDE DEF F
    <2>1. Unfolds(F, TopBits + Precision)
      BY <1>3 DEF F
    <2> QED BY <2>1
  <1> QED BY <1>0, <1>4



LEMMA ScaleUnfold ==
           /\ Scale[0] = 1
           /\ \A n \in 1..Len(Prefixes) : Scale[n] = Kib * Scale[n - 1]
  <1> DEFINE Unfolds(f, k) ==
        f = [n \in 0..k |-> IF n = 0 THEN 1 ELSE Kib * f[n - 1]]
  <1>0. Len(Prefixes) \in Nat
    BY DEF Prefixes
  <1>1. \A k \in Nat : \E f : Unfolds(f, k)
    <2> DEFINE T == {k \in Nat : ~\E f : Unfolds(f, k)}
    <2> SUFFICES ASSUME T # {} PROVE FALSE
      OBVIOUS
    <2>1. PICK k \in T : \A m \in T : k <= m
      <3> HIDE DEF Unfolds
      <3> QED BY LeastElement
    <2>2. CASE k = 0
      <3> DEFINE g == [n \in 0..0 |-> 1]
      <3>1. \A n \in 0..0 : g[n] = IF n = 0 THEN 1 ELSE Kib * g[n - 1]
        OBVIOUS
      <3>2. Unfolds(g, k)
        BY <2>2, <3>1
      <3> HIDE DEF Unfolds
      <3> QED BY <3>2
    <2>3. CASE k # 0
      <3>1. k - 1 \in Nat /\ k - 1 \notin T
        <4> HIDE DEF Unfolds
        <4>1. k \in Nat /\ k - 1 \in Nat
          BY <2>3
        <4>2. ~(k <= k - 1)
          BY <4>1
        <4> QED BY <2>1, <4>1, <4>2
      <3>2. PICK f : Unfolds(f, k - 1)
        <4> HIDE DEF Unfolds
        <4> QED BY <3>1
      <3> DEFINE g == [n \in 0..k |-> IF n = k THEN Kib * f[k - 1] ELSE f[n]]
      <3>3. \A n \in 0..k - 1 : g[n] = f[n]
        BY <3>1
      <3>4. \A n \in 0..k : g[n] = IF n = 0 THEN 1 ELSE Kib * g[n - 1]
        <4> TAKE n \in 0..k
        <4>1. CASE n = k
          <5>1. g[k - 1] = f[k - 1]
            BY <3>1, <3>3
          <5> QED BY <2>3, <4>1, <5>1
        <4>2. CASE n # k /\ n # 0
          <5>1. n \in 0..k - 1 /\ n - 1 \in 0..k - 1
            BY <4>2
          <5>2. f[n] = Kib * f[n - 1]
            BY <3>2, <4>2, <5>1
          <5> QED BY <3>3, <4>2, <5>1, <5>2
        <4>3. CASE n = 0 /\ n # k
          BY <3>1, <3>2, <3>3, <4>3
        <4> QED BY <4>1, <4>2, <4>3
      <3>5. Unfolds(g, k)
        BY <3>4
      <3> HIDE DEF Unfolds
      <3> QED BY <3>5
    <2> QED BY <2>2, <2>3
  <1>2. PICK f : Unfolds(f, Len(Prefixes))
    BY <1>0, <1>1
  <1>3. Unfolds(Scale, Len(Prefixes))
    <2>1. Scale = CHOOSE g : Unfolds(g, Len(Prefixes))
      BY DEF Scale
    <2> HIDE DEF Unfolds
    <2> QED BY <1>2, <2>1
  <1> DEFINE F == Scale
  <1>4. \A n \in 0..Len(Prefixes) : F[n] = IF n = 0 THEN 1 ELSE Kib * F[n - 1]
    <2> HIDE DEF F
    <2>1. Unfolds(F, Len(Prefixes))
      BY <1>3 DEF F
    <2> QED BY <2>1
  <1> QED BY <1>0, <1>4



\* Powers are positive, grow, and multiply.
LEMMA DoubledType == \A n \in 0..TopBits + Precision : Doubled[n] \in Nat \ {0}
  <1> DEFINE T == {n \in 0..TopBits + Precision : Doubled[n] \notin Nat \ {0}}
  <1> SUFFICES ASSUME T # {} PROVE FALSE
    OBVIOUS
  <1>0. TopBits + Precision \in Nat
    BY SizeAssumption
  <1>1. PICK n \in T : \A m \in T : n <= m
    <2>1. T \in SUBSET Nat
      BY <1>0
    <2> HIDE DEF T
    <2> QED BY <2>1, LeastElement
  <1>2. n \in 0..TopBits + Precision /\ Doubled[n] \notin Nat \ {0}
    BY <1>1
  <1>3. n # 0
    BY <1>2, DoubledUnfold
  <1>4. n \in 1..TopBits + Precision /\ n - 1 \in 0..TopBits + Precision /\ ~(n <= n - 1)
    BY <1>0, <1>2, <1>3
  <1>5. Doubled[n - 1] \in Nat \ {0}
    BY <1>1, <1>4
  <1>6. Doubled[n] = 2 * Doubled[n - 1]
    BY <1>4, DoubledUnfold
  <1> QED BY <1>2, <1>5, <1>6

LEMMA DoubledSum ==
    \A n \in 0..TopBits + Precision : \A m \in 0..TopBits + Precision :
        m + n <= TopBits + Precision => Doubled[m + n] = Doubled[m] * Doubled[n]
  <1> DEFINE T == {n \in 0..TopBits + Precision :
                      \E m \in 0..TopBits + Precision :
                          m + n <= TopBits + Precision /\ Doubled[m + n] # Doubled[m] * Doubled[n]}
  <1> SUFFICES ASSUME T # {} PROVE FALSE
    OBVIOUS
  <1>0. TopBits + Precision \in Nat
    BY SizeAssumption
  <1>1. PICK n \in T : \A k \in T : n <= k
    <2>1. T \in SUBSET Nat
      BY <1>0
    <2> HIDE DEF T
    <2> QED BY <2>1, LeastElement
  <1>2. PICK m \in 0..TopBits + Precision :
           m + n <= TopBits + Precision /\ Doubled[m + n] # Doubled[m] * Doubled[n]
    BY <1>1
  <1>3. PICK a, b, c : a = Doubled[m] /\ b = Doubled[n] /\ c = Doubled[m + n]
    OBVIOUS
  <1>4. /\ n \in 0..TopBits + Precision /\ m + n \in 0..TopBits + Precision
        /\ a \in Nat /\ b \in Nat /\ c \in Nat
    <2>1. n \in 0..TopBits + Precision /\ m + n \in 0..TopBits + Precision
      BY <1>0, <1>1, <1>2
    <2> QED BY <1>2, <1>3, <2>1, DoubledType
  <1>5. n # 0
    <2> SUFFICES ASSUME n = 0 PROVE FALSE
      OBVIOUS
    <2>1. b = 1 /\ m + n = m
      BY <1>2, <1>3, DoubledUnfold
    <2>2. c = a
      BY <1>3, <2>1
    <2> QED BY <1>2, <1>3, <1>4, <2>1, <2>2
  <1>6. /\ n \in 1..TopBits + Precision /\ n - 1 \in 0..TopBits + Precision
        /\ m + n \in 1..TopBits + Precision /\ ~(n <= n - 1)
        /\ (m + n) - 1 = m + (n - 1) /\ m + (n - 1) <= TopBits + Precision
    BY <1>0, <1>2, <1>4, <1>5
  <1>7. PICK e, g : e = Doubled[n - 1] /\ g = Doubled[m + (n - 1)]
    OBVIOUS
  <1>8. g = a * e
    BY <1>1, <1>2, <1>3, <1>6, <1>7
  <1>9. b = 2 * e /\ c = 2 * g /\ e \in Nat /\ g \in Nat
    BY <1>2, <1>3, <1>4, <1>6, <1>7, DoubledUnfold, DoubledType
  <1>10. 2 * (a * e) = a * (2 * e)
    BY <1>4, <1>9
  <1> QED BY <1>2, <1>3, <1>8, <1>9, <1>10

LEMMA DoubledOrder ==
    \A n \in 0..TopBits + Precision : \A m \in 0..n : Doubled[m] <= Doubled[n]
  <1> TAKE n \in 0..TopBits + Precision
  <1> TAKE m \in 0..n
  <1>1. /\ m \in 0..TopBits + Precision /\ n - m \in 0..TopBits + Precision
        /\ m + (n - m) = n /\ n <= TopBits + Precision
    BY SizeAssumption
  <1>2. PICK a, b, c : a = Doubled[m] /\ b = Doubled[n - m] /\ c = Doubled[n]
    OBVIOUS
  <1>3. c = a * b
    BY <1>1, <1>2, DoubledSum
  <1>4. a \in Nat /\ b \in Nat \ {0} /\ c \in Nat
    BY <1>1, <1>2, DoubledType
  <1>5. a * 1 <= a * b
    BY <1>4, ProductOrder
  <1> QED BY <1>2, <1>3, <1>4, <1>5

\* A unit multiplies by a positive number.
LEMMA FactorType ==
    ASSUME NEW text \in Written, text.unit # "other"
    PROVE  (IF text.unit = "sectors" THEN AtLeastOne(text.sector_size)
            ELSE Multiplier(text.unit)) \in Nat \ {0}
  <1>1. /\ text.sector_size \in Nat
        /\ text.unit \in {"", "k", "m", "g", "t", "p", "sectors"}
    BY DEF Written, Units
  <1>2. AtLeastOne(text.sector_size) \in Nat \ {0}
    <2>1. PICK s : s = text.sector_size
      OBVIOUS
    <2>2. s \in Nat
      BY <1>1, <2>1, Zenon
    <2>3. (IF s = 0 THEN 1 ELSE s) \in Nat \ {0}
      BY <2>2
    <2> QED BY <2>1, <2>3, Zenon DEF AtLeastOne
  <1>3. Len(Prefixes) = 5
    BY DEF Prefixes
  <1>4. \A k \in 0..5 : Scale[k] \in Nat \ {0}
    <2>1. Kib \in Nat \ {0}
      BY SizeAssumption
    <2>2. \A a \in Nat \ {0} : Kib * a \in Nat \ {0}
      BY <2>1
    <2>3. /\ Scale[0] = 1 /\ Scale[1] = Kib * Scale[0] /\ Scale[2] = Kib * Scale[1]
          /\ Scale[3] = Kib * Scale[2] /\ Scale[4] = Kib * Scale[3]
          /\ Scale[5] = Kib * Scale[4]
      BY <1>3, ScaleUnfold
    <2>4. Scale[1] \in Nat \ {0}
      BY <2>2, <2>3
    <2>5. Scale[2] \in Nat \ {0}
      BY <2>2, <2>3, <2>4
    <2>6. Scale[3] \in Nat \ {0}
      BY <2>2, <2>3, <2>5
    <2>7. Scale[4] \in Nat \ {0}
      BY <2>2, <2>3, <2>6
    <2>8. Scale[5] \in Nat \ {0}
      BY <2>2, <2>3, <2>7
    <2> QED BY <2>3, <2>4, <2>5, <2>6, <2>7, <2>8
  <1>5. text.unit \notin {"", "sectors"} =>
           (CHOOSE k \in 1..5 : Prefixes[k] = text.unit) \in 1..5
    <2>1. /\ Prefixes[1] = "k" /\ Prefixes[2] = "m" /\ Prefixes[3] = "g"
          /\ Prefixes[4] = "t" /\ Prefixes[5] = "p"
      BY DEF Prefixes
    <2>2. PICK u : u = text.unit
      OBVIOUS
    <2>3. u \in {"", "k", "m", "g", "t", "p", "sectors"}
      BY <1>1, <2>2, Zenon
    <2>4. 1 \in 1..5 /\ 2 \in 1..5 /\ 3 \in 1..5 /\ 4 \in 1..5 /\ 5 \in 1..5
      OBVIOUS
    <2>5. u \notin {"", "sectors"} => \E k \in 1..5 : Prefixes[k] = u
      BY <2>1, <2>3, <2>4, Zenon
    <2> QED BY <2>2, <2>5, Zenon
  <1>6. text.unit \notin {"", "sectors"} => Multiplier(text.unit) \in Nat \ {0}
    <2>1. \A k \in 1..5 : Scale[k] \in Nat \ {0}
      BY <1>4
    <2> QED BY <1>3, <1>5, <2>1, Zenon DEF Multiplier
  <1>7. text.unit = "" => Multiplier(text.unit) \in Nat \ {0}
    <2>1. 1 \in Nat \ {0}
      OBVIOUS
    <2> QED BY <2>1, Zenon DEF Multiplier
  <1> QED BY <1>2, <1>6, <1>7, Zenon

LEMMA ProductStrict ==
    ASSUME NEW b \in Nat, b > 0, NEW m \in Nat, NEW n \in Nat
    PROVE  m < n <=> m * b < n * b
  <1>1. m < n => m * b < n * b
    <2> SUFFICES ASSUME m < n PROVE m * b < n * b
      OBVIOUS
    <2>1. m + 1 \in Nat /\ m + 1 <= n
      OBVIOUS
    <2>2. (m + 1) * b <= n * b
      BY <2>1, ProductOrder
    <2>3. (m + 1) * b = m * b + b /\ m * b \in Nat /\ n * b \in Nat
      OBVIOUS
    <2> QED BY <2>2, <2>3
  <1>2. n <= m => n * b <= m * b
    BY ProductOrder
  <1>3. m * b \in Nat /\ n * b \in Nat
    OBVIOUS
  <1> QED BY <1>1, <1>2, <1>3

\* A quotient is found between the multiples around a number.
LEMMA QuotientBounds ==
    ASSUME NEW b \in Nat, b > 0, NEW n \in Nat, NEW k \in Nat
    PROVE  /\ n < k * b => n \div b < k
           /\ k * b <= n => k <= n \div b
  <1>1. PICK q : q = n \div b
    OBVIOUS
  <1>2. q \in Nat /\ b * q <= n /\ n < b * q + b
    BY <1>1, Quotient
  <1>3. k <= q => b * k <= b * q
    BY <1>2, ProductOrder
  <1>4. q + 1 <= k => b * (q + 1) <= b * k
    BY <1>2, ProductOrder
  <1>5. b * (q + 1) = b * q + b /\ b * q \in Nat /\ b * k \in Nat /\ k * b = b * k
    BY <1>2
  <1> QED BY <1>1, <1>2, <1>3, <1>4, <1>5

\* Rounding to the nearest number: up or down, and down or up in the same order.
LEMMA NearestFacts ==
    ASSUME NEW d \in Nat \ {0}, NEW n \in Nat
    PROVE  /\ Nearest(n, d) \in Nat
           /\ Nearest(n, d) \in {n \div d, (n \div d) + 1}
           /\ \A k \in Nat : n < k * d => Nearest(n, d) <= k
           /\ \A k \in Nat : k * d <= n => k <= Nearest(n, d)
  <1>1. PICK q, m : q = n \div d /\ m = Nearest(n, d)
    OBVIOUS
  <1>2. q \in Nat
    BY <1>1, Quotient
  <1>3. m \in {q, q + 1}
    <2>1. \/ m = q \/ m = q + 1
      BY <1>1, Zenon DEF Nearest, Floor
    <2> QED BY <2>1
  <1>4. m \in Nat /\ q <= m /\ m <= q + 1
    BY <1>2, <1>3
  <1>5. ASSUME NEW k \in Nat, n < k * d PROVE m <= k
    <2>1. q < k
      BY <1>1, <1>5, QuotientBounds
    <2> QED BY <1>2, <1>4, <2>1
  <1>6. ASSUME NEW k \in Nat, k * d <= n PROVE k <= m
    <2>1. k <= q
      BY <1>1, <1>6, QuotientBounds
    <2> QED BY <1>2, <1>4, <2>1
  <1> QED BY <1>1, <1>3, <1>4, <1>5, <1>6

LEMMA NearestOrder ==
    ASSUME NEW d \in Nat \ {0}, NEW m \in Nat, NEW n \in Nat, m <= n
    PROVE  Nearest(m, d) <= Nearest(n, d)
  <1>1. PICK p, q, a, b : /\ p = m \div d /\ q = n \div d
                          /\ a = Nearest(m, d) /\ b = Nearest(n, d)
    OBVIOUS
  <1>2. p \in Nat /\ q \in Nat /\ p <= q
    BY <1>1, Quotient, QuotientOrder
  <1>3. a \in {p, p + 1} /\ b \in {q, q + 1}
    BY <1>1, NearestFacts
  <1>4. CASE p < q
    BY <1>1, <1>2, <1>3, <1>4
  <1>5. CASE p = q
    <2>1. PICK k : k = q * d
      OBVIOUS
    <2>2. k \in Nat
      BY <1>2, <2>1
    <2>3. b = IF 2 * (n - k) < d \/ (2 * (n - k) = d /\ q % 2 = 0) THEN q ELSE q + 1
      BY <1>1, <2>1, Zenon DEF Nearest, Floor
    <2>4. a = IF 2 * (m - k) < d \/ (2 * (m - k) = d /\ q % 2 = 0) THEN q ELSE q + 1
      BY <1>1, <1>5, <2>1, Zenon DEF Nearest, Floor
    <2>5. PICK even \in BOOLEAN : even <=> q % 2 = 0
      OBVIOUS
    <2>6. a <= b
      BY <1>2, <2>2, <2>3, <2>4, <2>5
    <2> QED BY <1>1, <2>6
  <1> QED BY <1>2, <1>4, <1>5

LEMMA NearestScaled ==
    ASSUME NEW d \in Nat \ {0}, NEW n \in Nat, NEW c \in Nat \ {0}
    PROVE  Nearest(n * c, d * c) = Nearest(n, d)
  <1>1. PICK q, r : q = n \div d /\ r = n - q * d
    OBVIOUS
  <1>2. q \in Nat /\ r \in 0..d - 1 /\ n = q * d + r
    <2>1. PICK k : k = q * d
      OBVIOUS
    <2>2. q \in Nat /\ d * q <= n /\ n < d * q + d
      BY <1>1, Quotient
    <2>3. d * q = q * d /\ q * d \in Nat
      BY <2>2
    <2> QED BY <1>1, <2>1, <2>2, <2>3
  <1>3. PICK e, s : e = d * c /\ s = r * c
    OBVIOUS
  <1>4. e \in Nat /\ e > 0 /\ s \in 0..e - 1 /\ q * e \in Nat
    <2>1. r < d /\ r \in Nat /\ c > 0
      BY <1>2
    <2>2. r * c < d * c
      BY <2>1, ProductStrict
    <2>3. e \in Nat /\ s \in Nat /\ s < e
      BY <1>3, <2>1, <2>2
    <2> QED BY <1>2, <2>3
  <1>5. n * c = q * e + s
    BY <1>2, <1>3
  <1>6. (n * c) \div e = q
    BY <1>2, <1>4, <1>5, Remainder
  <1>7. n * c - q * e = s
    BY <1>4, <1>5
  <1>8. (2 * r < d <=> 2 * s < e) /\ (2 * r = d <=> 2 * s = e)
    <2>1. PICK t : t = 2 * r
      OBVIOUS
    <2>2. t \in Nat /\ t * c = 2 * s /\ c > 0
      BY <1>2, <1>3, <2>1
    <2>3. t < d <=> t * c < d * c
      BY <2>2, ProductStrict
    <2>4. d < t <=> d * c < t * c
      BY <2>2, ProductStrict
    <2>5. (t < d <=> 2 * s < e) /\ (d < t <=> e < 2 * s)
      BY <1>3, <2>2, <2>3, <2>4, Zenon
    <2>6. t = d <=> 2 * s = e
      BY <1>4, <2>2, <2>5
    <2> QED BY <2>1, <2>5, <2>6, Zenon
  <1>9. Nearest(n, d) = IF 2 * r < d \/ (2 * r = d /\ q % 2 = 0) THEN q ELSE q + 1
    BY <1>1, Zenon DEF Nearest, Floor
  <1>10. Nearest(n * c, d * c) = IF 2 * s < e \/ (2 * s = e /\ q % 2 = 0) THEN q ELSE q + 1
    BY <1>3, <1>6, <1>7, Zenon DEF Nearest, Floor
  <1>11. CASE 2 * r < d \/ (2 * r = d /\ q % 2 = 0)
    <2>1. 2 * s < e \/ (2 * s = e /\ q % 2 = 0)
      BY <1>8, <1>11, Zenon
    <2> QED BY <1>9, <1>10, <1>11, <2>1, <1>3, Zenon
  <1>12. CASE ~(2 * r < d \/ (2 * r = d /\ q % 2 = 0))
    <2>1. ~(2 * s < e \/ (2 * s = e /\ q % 2 = 0))
      BY <1>8, <1>12, Zenon
    <2> QED BY <1>9, <1>10, <1>12, <2>1, <1>3, Zenon
  <1> QED BY <1>11, <1>12, Zenon

\* The exponent is the least that leaves Precision bits, if one does.
LEMMA ExponentFacts ==
    ASSUME NEW d \in Nat \ {0}, NEW n \in Nat
    PROVE  /\ Exponent(n, d) \in 0..TopBits
           /\ Exponent(n, d) < TopBits => n < d * Doubled[Exponent(n, d) + Precision]
           /\ Exponent(n, d) > 0 => d * Doubled[Exponent(n, d) - 1 + Precision] <= n
  <1> DEFINE fits == {bits \in 0..TopBits : n < d * Doubled[bits + Precision]}
  <1>1. PICK e : e = Exponent(n, d)
    OBVIOUS
  <1>2. e = IF fits = {} THEN TopBits ELSE Min(fits)
    BY <1>1, Zenon DEF Exponent
  <1>3. TopBits \in Nat /\ Precision \in Nat \ {0} /\ fits \in SUBSET Nat
    BY SizeAssumption
  <1>4. /\ e \in 0..TopBits
        /\ fits # {} => e \in fits
        /\ \A bits \in 0..e - 1 : bits \notin fits
    <2>1. CASE fits = {}
      <3>1. e = TopBits
        BY <1>2, <2>1, Zenon
      <3>2. e \in 0..TopBits
        BY <1>3, <3>1
      <3> HIDE DEF fits
      <3> QED BY <2>1, <3>2
    <2>2. CASE fits # {}
      <3>1. e \in fits /\ \A x \in fits : e <= x
        <4> HIDE DEF fits
        <4> QED BY <1>2, <1>3, <2>2, MinFacts
      <3>2. e \in 0..TopBits
        BY <3>1
      <3>3. \A bits \in 0..e - 1 : ~(e <= bits)
        BY <3>2
      <3> QED BY <3>1, <3>2, <3>3, Zenon
    <2> QED BY <2>1, <2>2
  <1>5. ASSUME e < TopBits PROVE n < d * Doubled[e + Precision]
    <2>1. fits # {}
      BY <1>2, <1>4, <1>5
    <2> QED BY <1>4, <2>1
  <1>6. ASSUME e > 0 PROVE d * Doubled[e - 1 + Precision] <= n
    <2>1. PICK f : f = e - 1
      OBVIOUS
    <2>2. f \in 0..e - 1 /\ f \in 0..TopBits /\ f + Precision \in 0..TopBits + Precision
      BY <1>3, <1>4, <1>6, <2>1
    <2>3. ~(n < d * Doubled[f + Precision])
      BY <1>4, <2>2
    <2>4. d * Doubled[f + Precision] \in Nat
      <3>1. \A a \in Nat : d * a \in Nat
        OBVIOUS
      <3> QED BY <2>2, <3>1, DoubledType
    <2> QED BY <2>1, <2>3, <2>4
  <1> QED BY <1>1, <1>4, <1>5, <1>6

\* The exponent grows with the number.
LEMMA ExponentOrder ==
    ASSUME NEW d \in Nat \ {0}, NEW m \in Nat, NEW n \in Nat, m <= n
    PROVE  Exponent(m, d) <= Exponent(n, d)
  <1>1. PICK e, f : e = Exponent(m, d) /\ f = Exponent(n, d)
    OBVIOUS
  <1>2. /\ e \in 0..TopBits /\ f \in 0..TopBits /\ TopBits \in Nat /\ Precision \in Nat
        /\ f < TopBits => n < d * Doubled[f + Precision]
        /\ e > 0 => d * Doubled[e - 1 + Precision] <= m
    BY <1>1, ExponentFacts, SizeAssumption
  <1>3. ASSUME f < e PROVE FALSE
    <2>1. PICK a, b : a = Doubled[f + Precision] /\ b = Doubled[e - 1 + Precision]
      OBVIOUS
    <2>2. /\ f + Precision \in 0..(e - 1 + Precision)
          /\ e - 1 + Precision \in 0..TopBits + Precision
          /\ f + Precision \in 0..TopBits + Precision
      BY <1>2, <1>3
    <2>3. a \in Nat /\ b \in Nat /\ a <= b
      BY <2>1, <2>2, DoubledType, DoubledOrder
    <2>4. d * a <= d * b /\ d * a \in Nat /\ d * b \in Nat
      BY <2>3, ProductOrder
    <2>5. n < d * a /\ d * b <= m
      BY <1>2, <1>3, <2>1
    <2> QED BY <2>4, <2>5
  <1> QED BY <1>1, <1>2, <1>3

\* What is below a power of two as large as the precision is rounded to no more than it,
\* and what is not below to no less.
LEMMA RoundedWithin ==
    ASSUME NEW d \in Nat \ {0}, NEW n \in Nat, NEW k \in 0..Precision
    PROVE  LET e == Exponent(n, d)
           IN  /\ n < d * Doubled[k + e] => Float(n, d) <= Doubled[k + e]
               /\ d * Doubled[k + e] <= n => Doubled[k + e] <= Float(n, d)
               /\ Float(n, d) \in Nat
  <1>1. PICK e, a, b, c, r, f : /\ e = Exponent(n, d) /\ a = Doubled[k] /\ b = Doubled[e]
                                /\ c = Doubled[k + e] /\ r = Nearest(n, d * b)
                                /\ f = Float(n, d)
    OBVIOUS
  <1>2. e \in 0..TopBits /\ TopBits \in Nat /\ Precision \in Nat /\ k \in 0..Precision
    BY <1>1, ExponentFacts, SizeAssumption
  <1>3. /\ k \in 0..TopBits + Precision /\ e \in 0..TopBits + Precision
        /\ k + e \in 0..TopBits + Precision /\ k + e <= TopBits + Precision
    BY <1>2
  <1>4. a \in Nat /\ b \in Nat \ {0} /\ c = a * b /\ c \in Nat
    BY <1>1, <1>3, DoubledType, DoubledSum
  <1>5. f = r * b
    BY <1>1, Zenon DEF Float
  <1>6. d * b \in Nat \ {0} /\ d * c = a * (d * b)
    BY <1>4
  <1>7. r \in Nat
    BY <1>1, <1>6, NearestFacts
  <1>8. ASSUME n < d * c PROVE f <= c
    <2>1. r <= a
      BY <1>1, <1>4, <1>6, <1>8, NearestFacts
    <2> QED BY <1>4, <1>5, <1>7, <2>1, ProductOrder
  <1>9. ASSUME d * c <= n PROVE c <= f
    <2>1. a <= r
      BY <1>1, <1>4, <1>6, <1>9, NearestFacts
    <2> QED BY <1>4, <1>5, <1>7, <2>1, ProductOrder
  <1>10. f \in Nat
    BY <1>4, <1>5, <1>7
  <1> QED BY <1>1, <1>8, <1>9, <1>10

\* Rounding keeps the order of numbers.
LEMMA FloatOrder ==
    ASSUME NEW d \in Nat \ {0}, NEW m \in Nat, NEW n \in Nat, m <= n
    PROVE  Float(m, d) <= Float(n, d)
  <1>1. PICK e, f, x, y : /\ e = Exponent(m, d) /\ f = Exponent(n, d)
                          /\ x = Float(m, d) /\ y = Float(n, d)
    OBVIOUS
  <1>2. /\ e \in 0..TopBits /\ f \in 0..TopBits /\ e <= f
        /\ e < TopBits => m < d * Doubled[e + Precision]
        /\ f > 0 => d * Doubled[f - 1 + Precision] <= n
        /\ TopBits \in Nat /\ Precision \in Nat \ {0} /\ x \in Nat /\ y \in Nat
    <2>1. e <= f
      BY <1>1, ExponentOrder
    <2>2. 0 \in 0..Precision
      BY SizeAssumption
    <2>3. x \in Nat /\ y \in Nat
      BY <1>1, <2>2, RoundedWithin
    <2> QED BY <1>1, <2>1, <2>3, ExponentFacts, SizeAssumption
  <1>3. CASE e = f
    <2>1. PICK b, p, q : b = Doubled[e] /\ p = Nearest(m, d * b) /\ q = Nearest(n, d * b)
      OBVIOUS
    <2>2. b \in Nat \ {0}
      <3>1. e \in 0..TopBits + Precision
        BY <1>2
      <3> QED BY <2>1, <3>1, DoubledType
    <2>3. d * b \in Nat \ {0}
      BY <2>2
    <2>4. p <= q /\ p \in Nat /\ q \in Nat
      BY <2>1, <2>3, NearestOrder, NearestFacts
    <2>5. x = p * b /\ y = q * b
      BY <1>1, <1>3, <2>1, Zenon DEF Float
    <2> QED BY <1>1, <2>2, <2>4, <2>5, ProductOrder
  <1>4. CASE e < f
    <2>1. PICK a, b : a = Doubled[Precision + e] /\ b = Doubled[(Precision - 1) + f]
      OBVIOUS
    <2>2. /\ Precision \in 0..Precision /\ Precision - 1 \in 0..Precision
          /\ Precision + e = e + Precision /\ (Precision - 1) + f = f - 1 + Precision
          /\ Precision + e \in 0..(Precision - 1) + f
          /\ (Precision - 1) + f \in 0..TopBits + Precision
          /\ Precision + e \in 0..TopBits + Precision
      BY <1>2, <1>4
    <2>3. m < d * a /\ d * b <= n
      BY <1>2, <1>4, <2>1, <2>2
    <2>4. x <= a
      BY <1>1, <2>1, <2>2, <2>3, RoundedWithin
    <2>5. b <= y
      BY <1>1, <2>1, <2>2, <2>3, RoundedWithin
    <2>6. a <= b /\ a \in Nat /\ b \in Nat
      BY <2>1, <2>2, DoubledType, DoubledOrder
    <2>7. x <= y
      BY <1>2, <2>4, <2>5, <2>6
    <2> QED BY <1>1, <2>7
  <1> QED BY <1>2, <1>3, <1>4

\* A fraction can be extended before it is rounded.
LEMMA FloatScaled ==
    ASSUME NEW d \in Nat \ {0}, NEW n \in Nat, NEW c \in Nat \ {0}
    PROVE  Float(n * c, d * c) = Float(n, d)
  <1>1. \A bits \in 0..TopBits :
           n * c < (d * c) * Doubled[bits + Precision] <=> n < d * Doubled[bits + Precision]
    <2> TAKE bits \in 0..TopBits
    <2>1. PICK a : a = Doubled[bits + Precision]
      OBVIOUS
    <2>2. a \in Nat
      <3>1. bits + Precision \in 0..TopBits + Precision
        BY SizeAssumption
      <3> QED BY <2>1, <3>1, DoubledType
    <2>3. d * a \in Nat /\ (d * c) * a = (d * a) * c /\ c > 0
      BY <2>2
    <2>4. n < d * a <=> n * c < (d * a) * c
      BY <2>3, ProductStrict
    <2> QED BY <2>1, <2>3, <2>4
  <1>2. {bits \in 0..TopBits : n * c < (d * c) * Doubled[bits + Precision]}
        = {bits \in 0..TopBits : n < d * Doubled[bits + Precision]}
    BY <1>1
  <1>3. Exponent(n * c, d * c) = Exponent(n, d)
    BY <1>2, Zenon DEF Exponent
  <1>4. PICK b : b = Doubled[Exponent(n, d)]
    OBVIOUS
  <1>5. b \in Nat \ {0}
    <2>1. Exponent(n, d) \in 0..TopBits + Precision
      <3>1. Exponent(n, d) \in 0..TopBits
        BY ExponentFacts
      <3> QED BY <3>1, SizeAssumption
    <2> QED BY <1>4, <2>1, DoubledType
  <1>6. d * b \in Nat \ {0} /\ (d * c) * b = (d * b) * c
    BY <1>5
  <1>7. Nearest(n * c, (d * c) * b) = Nearest(n, d * b)
    <2>1. PICK e : e = d * b
      OBVIOUS
    <2>2. e \in Nat \ {0} /\ (d * c) * b = e * c
      BY <1>6, <2>1, Zenon
    <2>3. Nearest(n * c, e * c) = Nearest(n, e)
      BY <2>2, NearestScaled
    <2> QED BY <2>1, <2>2, <2>3, Zenon
  <1> QED BY <1>3, <1>4, <1>7, Zenon DEF Float

\* What a text's number is multiplied by, and the rounded product.
Factor(text) ==
    IF text.unit = "sectors" THEN AtLeastOne(text.sector_size) ELSE Multiplier(text.unit)

Rounded(text) == Float(Float(text.numerator * Grain, text.denominator) * Factor(text), 1)

LEMMA FloatType == ASSUME NEW d \in Nat \ {0}, NEW n \in Nat PROVE Float(n, d) \in Nat
  <1>1. 0 \in 0..Precision
    BY SizeAssumption
  <1> QED BY <1>1, RoundedWithin

LEMMA WrittenType ==
    ASSUME NEW text \in Written, text.denominator # 0, text.unit # "other"
    PROVE  /\ text.numerator \in Nat /\ text.denominator \in Nat \ {0}
           /\ Factor(text) \in Nat \ {0} /\ Grain \in Nat \ {0} /\ MaxBytes \in Nat \ {0}
           /\ text.numerator * Grain \in Nat
           /\ Float(text.numerator * Grain, text.denominator) \in Nat
           /\ Float(text.numerator * Grain, text.denominator) * Factor(text) \in Nat
           /\ Rounded(text) \in Nat /\ Limit \in Nat
  <1>1. PICK n, d, f : n = text.numerator /\ d = text.denominator /\ f = Factor(text)
    OBVIOUS
  <1>2. n \in Nat /\ d \in Nat \ {0}
    BY <1>1 DEF Written
  <1>3. f \in Nat \ {0}
    BY <1>1, FactorType, Zenon DEF Factor
  <1>4. Grain \in Nat \ {0} /\ MaxBytes \in Nat \ {0} /\ 1 \in Nat \ {0}
    BY SizeAssumption
  <1>5. n * Grain \in Nat /\ MaxBytes * Grain \in Nat
    BY <1>2, <1>4
  <1>6. PICK v : v = Float(n * Grain, d)
    OBVIOUS
  <1>7. v \in Nat
    BY <1>2, <1>5, <1>6, FloatType
  <1>8. v * f \in Nat
    BY <1>3, <1>7
  <1>9. Float(v * f, 1) \in Nat
    BY <1>4, <1>8, FloatType
  <1>10. Limit \in Nat
    BY <1>4, <1>5, FloatType DEF Limit
  <1> QED BY <1>1, <1>2, <1>3, <1>4, <1>5, <1>6, <1>7, <1>8, <1>9, <1>10, Zenon DEF Rounded

\* The bytes of a product.
LEMMA BytesFacts ==
    ASSUME NEW p \in Nat
    PROVE  /\ p \div Grain \in Nat
           /\ ToBytes(p) \in 0..MaxBytes
           /\ ToBytes(p) = IF p \div Grain > MaxBytes THEN MaxBytes ELSE p \div Grain
  <1>1. PICK w : w = p \div Grain
    OBVIOUS
  <1>2. w \in Nat /\ MaxBytes \in Nat
    BY <1>1, Quotient, SizeAssumption
  <1>3. ToBytes(p) = IF w > MaxBytes THEN MaxBytes ELSE w
    BY <1>1, Zenon DEF ToBytes, Floor
  <1>4. (IF w > MaxBytes THEN MaxBytes ELSE w) \in 0..MaxBytes
    BY <1>2
  <1> QED BY <1>1, <1>2, <1>3, <1>4, Zenon

\* What parse_magnitude answers about a number with a unit.
LEMMA Answers == \A why : Without(why).status = why
  BY DEF Without

LEMMA MagnitudeParts ==
    ASSUME NEW text, text.word = "size", text.denominator # 0, text.unit # "other"
    PROVE  /\ TooLarge(Rounded(text)) => Magnitude(text).status = "too large"
           /\ ~TooLarge(Rounded(text)) =>
                 Magnitude(text)
                   = [status |-> "ok", bytes |-> ToBytes(Rounded(text)), relative |-> FALSE]
  <1>1. text.word # "" /\ text.word # "max"
    BY Zenon
  <1>2. Magnitude(text) =
           IF text.word = "" THEN Without("empty")
           ELSE IF text.word = "max" \/ text.denominator = 0 THEN Without("not a number")
           ELSE IF text.unit = "other" THEN Without("unknown unit")
           ELSE IF TooLarge(Rounded(text)) THEN Without("too large")
           ELSE [status |-> "ok", bytes |-> ToBytes(Rounded(text)), relative |-> FALSE]
    BY Zenon DEF Magnitude, Rounded, Factor
  <1>3. TooLarge(Rounded(text)) => Magnitude(text) = Without("too large")
    BY <1>1, <1>2, Zenon
  <1>4. ~TooLarge(Rounded(text)) =>
           Magnitude(text)
             = [status |-> "ok", bytes |-> ToBytes(Rounded(text)), relative |-> FALSE]
    BY <1>1, <1>2, Zenon
  <1> QED BY <1>3, <1>4, Answers, Zenon

\* An answer with bytes gives as many as fit.
LEMMA MagnitudeType ==
    ASSUME NEW text \in Written, Magnitude(text).status = "ok"
    PROVE  /\ text.word = "size"
           /\ \E b \in 0..MaxBytes :
                 Magnitude(text) = [status |-> "ok", bytes |-> b, relative |-> FALSE]
  <1>1. "empty" # "ok" /\ "not a number" # "ok" /\ "unknown unit" # "ok" /\ "too large" # "ok"
    BY Zenon
  <1>2. Magnitude(text) =
           IF text.word = "" THEN Without("empty")
           ELSE IF text.word = "max" \/ text.denominator = 0 THEN Without("not a number")
           ELSE IF text.unit = "other" THEN Without("unknown unit")
           ELSE IF TooLarge(Rounded(text)) THEN Without("too large")
           ELSE [status |-> "ok", bytes |-> ToBytes(Rounded(text)), relative |-> FALSE]
    BY Zenon DEF Magnitude, Rounded, Factor
  <1>3. text.word # ""
    BY <1>1, <1>2, Answers, Zenon
  <1>4. text.word # "max" /\ text.denominator # 0
    BY <1>1, <1>2, <1>3, Answers, Zenon
  <1>5. text.unit # "other"
    BY <1>1, <1>2, <1>3, <1>4, Answers, Zenon
  <1>6. text.word \in {"", "max", "size"}
    BY DEF Written
  <1>7. text.word = "size"
    BY <1>3, <1>4, <1>6, Zenon
  <1>8. ~TooLarge(Rounded(text))
    BY <1>1, <1>4, <1>5, <1>7, MagnitudeParts, Zenon
  <1>9. ToBytes(Rounded(text)) \in 0..MaxBytes
    BY <1>4, <1>5, WrittenType, BytesFacts, Zenon
  <1> QED BY <1>4, <1>5, <1>7, <1>8, <1>9, MagnitudeParts, Zenon

\* The rounded product of a text that needs no rounding.
LEMMA RoundedExact ==
    ASSUME NEW text \in Written, text.denominator # 0, text.unit # "other",
           Representable(text)
    PROVE  /\ Rounded(text) * text.denominator = (text.numerator * Factor(text)) * Grain
           /\ Float(Rounded(text), 1) = Rounded(text)
  <1>1. PICK n, d, f, v, p : /\ n = text.numerator /\ d = text.denominator /\ f = Factor(text)
                             /\ v = Float(n * Grain, d) /\ p = Rounded(text)
    OBVIOUS
  <1>2. /\ n \in Nat /\ d \in Nat \ {0} /\ f \in Nat \ {0} /\ Grain \in Nat \ {0}
        /\ v \in Nat /\ p \in Nat /\ v * f \in Nat
    BY <1>1, WrittenType, Zenon
  <1>3. Exact(text) = [n |-> n * f, d |-> d]
    BY <1>1, Zenon DEF Exact, Factor
  <1>4. Exact(text).n = n * f /\ Exact(text).d = d
    BY <1>3
  <1>5. v * d = n * Grain /\ Float((n * f) * Grain, d) * d = (n * f) * Grain
    BY <1>1, <1>4, Zenon DEF Representable
  <1>6. (n * f) * Grain = (v * f) * d
    BY <1>2, <1>5
  <1>7. Float((v * f) * d, 1 * d) = Float(v * f, 1)
    <2>1. 1 \in Nat \ {0}
      OBVIOUS
    <2> QED BY <1>2, <2>1, FloatScaled
  <1>8. 1 * d = d
    BY <1>2
  <1>9. p = Float(v * f, 1)
    BY <1>1, Zenon DEF Rounded
  <1>10. p * d = (v * f) * d
    BY <1>5, <1>6, <1>7, <1>8, <1>9, Zenon
  <1>11. p = v * f
    <2>1. PICK q : q = v * f
      OBVIOUS
    <2>2. q \in Nat /\ p * d = q * d /\ d > 0
      BY <1>2, <1>10, <2>1
    <2>3. ~(p < q) /\ ~(q < p)
      <3>1. p * d \in Nat /\ q * d \in Nat
        BY <1>2, <2>2
      <3>2. (p < q => p * d < q * d) /\ (q < p => q * d < p * d)
        BY <1>2, <2>2, ProductStrict
      <3> QED BY <2>2, <3>1, <3>2
    <2> QED BY <1>2, <2>1, <2>2, <2>3
  <1> QED BY <1>1, <1>6, <1>9, <1>10, <1>11, Zenon

\* The arithmetic behind ParsedExactly: p is the product in grains, exact = n / d bytes.
LEMMA ExactBytes ==
    ASSUME NEW p \in Nat, NEW n \in Nat, NEW d \in Nat \ {0}, NEW limit \in Nat,
           p * d = n * Grain
    PROVE  /\ n * Grain <= limit * d <=> p <= limit
           /\ n <= MaxBytes * d <=> p <= MaxBytes * Grain
           /\ n > MaxBytes * d => ToBytes(p) = MaxBytes
           /\ n <= MaxBytes * d => ToBytes(p) = Floor(n, d)
  <1>1. Grain \in Nat /\ Grain > 0 /\ MaxBytes \in Nat /\ d > 0
    BY SizeAssumption
  <1>2. n * Grain <= limit * d <=> p <= limit
    <2>1. limit < p <=> limit * d < p * d
      BY <1>1, ProductStrict
    <2>2. limit * d \in Nat /\ n * Grain \in Nat
      BY <1>1
    <2> QED BY <2>1, <2>2
  <1>3. PICK w : w = p \div Grain
    OBVIOUS
  <1>4. w \in Nat /\ Grain * w <= p /\ p < Grain * w + Grain
    BY <1>1, <1>3, Quotient
  <1>5. ASSUME NEW k \in Nat PROVE k * d <= n <=> k * Grain <= p
    <2>1. PICK a, b : a = k * Grain /\ b = k * d
      OBVIOUS
    <2>2. a \in Nat /\ b \in Nat /\ a * d = b * Grain
      BY <1>1, <2>1
    <2>3. p < a <=> p * d < a * d
      BY <1>1, <2>2, ProductStrict
    <2>4. n < b <=> n * Grain < b * Grain
      BY <1>1, <2>2, ProductStrict
    <2>5. p < a <=> n < b
      BY <2>2, <2>3, <2>4, Zenon
    <2> QED BY <2>1, <2>2, <2>5
  <1>6. n <= MaxBytes * d <=> p <= MaxBytes * Grain
    <2>1. PICK a, b : a = MaxBytes * Grain /\ b = MaxBytes * d
      OBVIOUS
    <2>2. a \in Nat /\ b \in Nat /\ a * d = b * Grain
      BY <1>1, <2>1
    <2>3. a < p <=> a * d < p * d
      BY <1>1, <2>2, ProductStrict
    <2>4. b < n <=> b * Grain < n * Grain
      BY <1>1, <2>2, ProductStrict
    <2>5. a < p <=> b < n
      BY <2>2, <2>3, <2>4, Zenon
    <2> QED BY <2>1, <2>2, <2>5
  <1>7. ToBytes(p) = IF w > MaxBytes THEN MaxBytes ELSE w
    BY <1>3, BytesFacts, Zenon
  <1>8. n > MaxBytes * d => ToBytes(p) = MaxBytes
    <2> SUFFICES ASSUME n > MaxBytes * d PROVE ToBytes(p) = MaxBytes
      OBVIOUS
    <2>1. MaxBytes * d \in Nat
      BY <1>1
    <2>2. MaxBytes * d <= n
      BY <2>1
    <2>3. MaxBytes * Grain <= p
      BY <1>1, <1>5, <2>2
    <2>4. MaxBytes <= w
      BY <1>1, <1>3, <2>3, QuotientBounds
    <2> QED BY <1>1, <1>4, <1>7, <2>4
  <1>9. n <= MaxBytes * d => ToBytes(p) = n \div d
    <2> SUFFICES ASSUME n <= MaxBytes * d PROVE ToBytes(p) = n \div d
      OBVIOUS
    <2>1. w <= MaxBytes
      <3>1. MaxBytes + 1 \in Nat /\ (MaxBytes + 1) * Grain = MaxBytes * Grain + Grain
        BY <1>1
      <3>2. MaxBytes * Grain \in Nat /\ p <= MaxBytes * Grain
        BY <1>1, <1>6
      <3>3. p < (MaxBytes + 1) * Grain
        BY <1>1, <3>1, <3>2
      <3>4. w < MaxBytes + 1
        BY <1>1, <1>3, <3>1, <3>3, QuotientBounds
      <3> QED BY <1>1, <1>4, <3>4
    <2>2. ToBytes(p) = w
      BY <1>1, <1>4, <1>7, <2>1
    <2>3. PICK q : q = n \div d
      OBVIOUS
    <2>4. q \in Nat /\ d * q <= n /\ n < d * q + d
      BY <1>1, <2>3, Quotient
    <2>5. w * d <= n
      <3>1. w * Grain <= p
        <4>1. w * Grain = Grain * w
          BY <1>1, <1>4
        <4> QED BY <1>4, <4>1
      <3> QED BY <1>4, <1>5, <3>1
    <2>6. w <= q
      BY <1>1, <1>4, <2>3, <2>5, QuotientBounds
    <2>7. q * Grain <= p
      <3>1. q * d <= n
        <4>1. q * d = d * q
          BY <1>1, <2>4
        <4> QED BY <2>4, <4>1
      <3> QED BY <1>5, <2>4, <3>1
    <2>8. q <= w
      BY <1>1, <1>3, <2>4, <2>7, QuotientBounds
    <2>9. q = w
      BY <1>4, <2>4, <2>6, <2>8
    <2> QED BY <2>2, <2>3, <2>9
  <1> QED BY <1>2, <1>6, <1>8, <1>9, Zenon DEF Floor

\* A number that needs no rounding is parsed to its bytes.
LEMMA ParsedRight == ASSUME NEW text \in Written PROVE ParsedExactly(text)
  <1> SUFFICES ASSUME text.word = "size", text.denominator # 0, text.unit # "other",
                      Representable(text)
               PROVE  IF PastMaxInside(text)
                      THEN Magnitude(text).status = "ok" /\ Magnitude(text).bytes = MaxBytes
                      ELSE IF Exact(text).n > MaxBytes * Exact(text).d
                      THEN Magnitude(text).status = "too large"
                      ELSE /\ Magnitude(text).status = "ok"
                           /\ Magnitude(text).bytes = Floor(Exact(text).n, Exact(text).d)
    BY Zenon DEF ParsedExactly
  <1>1. PICK n, d, p : /\ n = text.numerator * Factor(text) /\ d = text.denominator
                       /\ p = Rounded(text)
    OBVIOUS
  <1>2. /\ n \in Nat /\ d \in Nat \ {0} /\ p \in Nat /\ Limit \in Nat
        /\ MaxBytes \in Nat /\ Grain \in Nat
    <2>1. /\ text.numerator \in Nat /\ Factor(text) \in Nat /\ d \in Nat \ {0} /\ p \in Nat
          /\ Limit \in Nat /\ MaxBytes \in Nat /\ Grain \in Nat
      BY <1>1, WrittenType
    <2>2. \A a, b \in Nat : a * b \in Nat
      OBVIOUS
    <2> QED BY <1>1, <2>1, <2>2, Zenon
  <1>3. Exact(text).n = n /\ Exact(text).d = d
    <2>1. Exact(text) = [n |-> n, d |-> d]
      BY <1>1, Zenon DEF Exact, Factor
    <2> QED BY <2>1
  <1>4. p * d = n * Grain /\ Float(p, 1) = p
    BY <1>1, RoundedExact, Zenon
  <1>5. /\ n * Grain <= Limit * d <=> p <= Limit
        /\ n <= MaxBytes * d <=> p <= MaxBytes * Grain
        /\ n > MaxBytes * d => ToBytes(p) = MaxBytes
        /\ n <= MaxBytes * d => ToBytes(p) = Floor(n, d)
    <2>1. p * d = n * Grain
      BY <1>4
    <2>2. PICK limit : limit = Limit
      OBVIOUS
    <2>3. limit \in Nat
      BY <1>2, <2>2
    <2>4. /\ n * Grain <= limit * d <=> p <= limit
          /\ n <= MaxBytes * d <=> p <= MaxBytes * Grain
          /\ n > MaxBytes * d => ToBytes(p) = MaxBytes
          /\ n <= MaxBytes * d => ToBytes(p) = Floor(n, d)
      <3>1. p \in Nat /\ n \in Nat /\ d \in Nat \ {0} /\ limit \in Nat /\ p * d = n * Grain
        BY <1>2, <2>1, <2>3, Zenon
      <3>2. n * Grain <= limit * d <=> p <= limit
        BY <3>1, ExactBytes, Zenon
      <3>3. n <= MaxBytes * d <=> p <= MaxBytes * Grain
        BY <3>1, ExactBytes, Zenon
      <3>4. n > MaxBytes * d => ToBytes(p) = MaxBytes
        BY <3>1, ExactBytes, Zenon
      <3>5. n <= MaxBytes * d => ToBytes(p) = Floor(n, d)
        BY <3>1, ExactBytes, SMT
      <3> QED BY <3>2, <3>3, <3>4, <3>5, Zenon
    <2> QED BY <2>2, <2>4, Zenon
  <1>6. p <= MaxBytes * Grain => p <= Limit
    <2> SUFFICES ASSUME p <= MaxBytes * Grain PROVE p <= Limit
      OBVIOUS
    <2>1. MaxBytes * Grain \in Nat /\ 1 \in Nat \ {0}
      BY <1>2
    <2>2. Float(p, 1) <= Float(MaxBytes * Grain, 1)
      BY <1>2, <2>1, FloatOrder
    <2> QED BY <1>4, <2>2, Zenon DEF Limit
  <1>7. PICK m : m = Magnitude(text)
    OBVIOUS
  <1>8. /\ ~(p <= Limit) => m.status = "too large"
        /\ p <= Limit => m = [status |-> "ok", bytes |-> ToBytes(p), relative |-> FALSE]
    <2>1. TooLarge(p) <=> ~(p <= Limit)
      BY <1>2 DEF TooLarge
    <2> QED BY <1>1, <1>7, <2>1, MagnitudeParts, Zenon
  <1>9. p <= Limit => m.status = "ok" /\ m.bytes = ToBytes(p)
    <2>1. \A b : /\ [status |-> "ok", bytes |-> b, relative |-> FALSE].status = "ok"
                 /\ [status |-> "ok", bytes |-> b, relative |-> FALSE].bytes = b
      OBVIOUS
    <2> QED BY <1>8, <2>1, Zenon
  <1>10. PastMaxInside(text) <=> n > MaxBytes * d /\ n * Grain <= Limit * d
    BY <1>3, Zenon DEF PastMaxInside
  <1>11. n > MaxBytes * d <=> ~(n <= MaxBytes * d)
    <2>1. MaxBytes * d \in Nat
      BY <1>2
    <2> QED BY <1>2, <2>1
  <1>12. CASE PastMaxInside(text)
    BY <1>5, <1>7, <1>9, <1>10, <1>12, Zenon
  <1>13. CASE ~PastMaxInside(text) /\ n > MaxBytes * d
    BY <1>3, <1>5, <1>7, <1>8, <1>10, <1>13, Zenon
  <1>14. CASE ~(n > MaxBytes * d)
    BY <1>3, <1>5, <1>6, <1>7, <1>9, <1>10, <1>11, <1>14, Zenon
  <1> QED BY <1>12, <1>13, <1>14, Zenon

LEMMA NextWritten ==
    ASSUME NEW text \in Written, NEW other, other = [text EXCEPT !.numerator = @ + 1]
    PROVE  /\ other \in Written /\ other.word = text.word
           /\ other.denominator = text.denominator
           /\ other.unit = text.unit /\ other.sector_size = text.sector_size
           /\ other.numerator = text.numerator + 1 /\ text.numerator \in Nat
  <1>1. text.numerator \in Nat /\ text.numerator + 1 \in Nat
    <2>1. PICK n : n = text.numerator
      OBVIOUS
    <2>2. n \in Nat
      BY <2>1 DEF Written
    <2> QED BY <2>1, <2>2
  <1>2. other.numerator = text.numerator + 1
    <2>1. "numerator" \in DOMAIN text
      BY DEF Written
    <2> QED BY <2>1
  <1>3. /\ other.word = text.word /\ other.denominator = text.denominator
        /\ other.unit = text.unit /\ other.sector_size = text.sector_size
    BY DEF Written
  <1>4. other \in Written
    BY <1>1 DEF Written
  <1> QED BY <1>1, <1>2, <1>3, <1>4

\* Of two sizes in the same unit the larger one is parsed to no fewer bytes.
LEMMA MagnitudeGrows ==
    ASSUME NEW text \in Written
    PROVE  Monotone(text, [text EXCEPT !.numerator = @ + 1])
  <1>1. PICK other : other = [text EXCEPT !.numerator = @ + 1]
    OBVIOUS
  <1> SUFFICES ASSUME text.word = "size", text.denominator # 0, text.unit # "other"
               PROVE  /\ Magnitude(text).status = "too large"
                            => Magnitude(other).status = "too large"
                      /\ Magnitude(text).status = "ok" /\ Magnitude(other).status = "ok"
                            => Magnitude(text).bytes <= Magnitude(other).bytes
    BY <1>1, Zenon DEF Monotone
  <1>2. /\ other \in Written /\ other.word = text.word /\ other.denominator = text.denominator
        /\ other.unit = text.unit /\ other.sector_size = text.sector_size
        /\ other.numerator = text.numerator + 1 /\ text.numerator \in Nat
    BY <1>1, NextWritten
  <1>3. PICK n, m, d, f, v, w, p, q :
           /\ n = text.numerator /\ m = other.numerator /\ d = text.denominator
           /\ f = Factor(text) /\ v = Float(n * Grain, d) /\ w = Float(m * Grain, d)
           /\ p = Rounded(text) /\ q = Rounded(other)
    OBVIOUS
  <1>4. Factor(other) = f
    BY <1>2, <1>3, Zenon DEF Factor
  <1>5. /\ n \in Nat /\ m \in Nat /\ d \in Nat \ {0} /\ f \in Nat \ {0} /\ Grain \in Nat
        /\ n * Grain \in Nat /\ m * Grain \in Nat /\ v \in Nat /\ w \in Nat
        /\ v * f \in Nat /\ w * f \in Nat /\ p \in Nat /\ q \in Nat /\ Limit \in Nat
    <2>1. /\ n \in Nat /\ d \in Nat \ {0} /\ f \in Nat \ {0} /\ Grain \in Nat \ {0}
          /\ n * Grain \in Nat /\ v \in Nat /\ v * f \in Nat /\ p \in Nat /\ Limit \in Nat
      BY <1>3, WrittenType, Zenon
    <2>2. /\ m \in Nat /\ m * Grain \in Nat /\ w \in Nat /\ w * f \in Nat /\ q \in Nat
      BY <1>2, <1>3, <1>4, WrittenType, Zenon
    <2> QED BY <2>1, <2>2
  <1>6. v <= w
    <2>1. n <= m
      BY <1>2, <1>3
    <2>2. n * Grain <= m * Grain
      BY <1>5, <2>1, ProductOrder
    <2> QED BY <1>3, <1>5, <2>2, FloatOrder
  <1>7. p <= q
    <2>1. v * f <= w * f
      BY <1>5, <1>6, ProductOrder
    <2>2. p = Float(v * f, 1) /\ q = Float(w * f, 1)
      BY <1>2, <1>3, <1>4, Zenon DEF Rounded
    <2>3. 1 \in Nat \ {0}
      OBVIOUS
    <2> QED BY <1>5, <2>1, <2>2, <2>3, FloatOrder
  <1>8. TooLarge(p) => TooLarge(q)
    BY <1>5, <1>7 DEF TooLarge
  <1>9. ToBytes(p) <= ToBytes(q)
    <2>1. PICK a, b : a = p \div Grain /\ b = q \div Grain
      OBVIOUS
    <2>2. Grain > 0 /\ MaxBytes \in Nat
      BY SizeAssumption
    <2>3. a \in Nat /\ b \in Nat /\ a <= b
      BY <1>5, <1>7, <2>1, <2>2, Quotient, QuotientOrder
    <2>4. /\ ToBytes(p) = IF a > MaxBytes THEN MaxBytes ELSE a
          /\ ToBytes(q) = IF b > MaxBytes THEN MaxBytes ELSE b
      BY <1>5, <2>1, BytesFacts, Zenon
    <2>5. (IF a > MaxBytes THEN MaxBytes ELSE a) <= (IF b > MaxBytes THEN MaxBytes ELSE b)
      BY <2>2, <2>3
    <2> QED BY <2>4, <2>5, Zenon
  <1>10. "ok" # "too large"
    BY Zenon
  <1>11. \A b : /\ [status |-> "ok", bytes |-> b, relative |-> FALSE].status = "ok"
                /\ [status |-> "ok", bytes |-> b, relative |-> FALSE].bytes = b
    OBVIOUS
  <1>12. /\ TooLarge(p) => Magnitude(text).status = "too large"
         /\ ~TooLarge(p) => Magnitude(text).status = "ok" /\ Magnitude(text).bytes = ToBytes(p)
    BY <1>3, <1>11, MagnitudeParts, Zenon
  <1>13. /\ TooLarge(q) => Magnitude(other).status = "too large"
         /\ ~TooLarge(q) =>
               Magnitude(other).status = "ok" /\ Magnitude(other).bytes = ToBytes(q)
    BY <1>2, <1>3, <1>11, MagnitudeParts, Zenon
  <1> QED BY <1>8, <1>9, <1>10, <1>12, <1>13, Zenon

\* A size is resolved into what a partition can have.
LEMMA ResolvedRight ==
    ASSUME NEW text \in Written, NEW current \in -MaxBytes - 1..MaxBytes
    PROVE  ResolvedSafely(text, current)
  <1>1. PICK spec, found : spec = ParseSizeSpec(text) /\ found = Magnitude(text)
    OBVIOUS
  <1> SUFFICES ASSUME spec.status = "ok"
               PROVE  /\ Resolve(spec, current) \in 0..MaxBytes
                      /\ text.sign = "+" => Resolve(spec, current) >= current
                      /\ text.sign = "-" /\ current >= 0 => Resolve(spec, current) <= current
                      /\ text.sign = "" => Resolve(spec, current) = found.bytes
                      /\ ParseCreateSize(text).status = "ok" <=> text.sign = ""
    BY <1>1, Zenon DEF ResolvedSafely
  <1>2. found.status = "ok"
    BY <1>1, Zenon DEF ParseSizeSpec
  <1>3. PICK b \in 0..MaxBytes : found = [status |-> "ok", bytes |-> b, relative |-> FALSE]
    BY <1>1, <1>2, MagnitudeType, Zenon
  <1>4. text.word = "size"
    BY <1>1, <1>2, MagnitudeType, Zenon
  <1>5. PICK s, c : s = text.sign /\ c = IF text.sign = "-" THEN -b ELSE b
    OBVIOUS
  <1>6. s \in {"", "+", "-"}
    BY <1>5 DEF Written
  <1>7. found.bytes = b /\ found.status = "ok"
    BY <1>3
  <1>8. spec = [found EXCEPT !.bytes = IF s = "-" THEN -@ ELSE @, !.relative = s # ""]
    BY <1>1, <1>2, <1>5, Zenon DEF ParseSizeSpec
  <1>9. spec.bytes = (IF s = "-" THEN -b ELSE b) /\ (spec.relative <=> s # "")
    BY <1>3, <1>8
  <1>10. MaxBytes \in Nat /\ b \in 0..MaxBytes /\ current \in -MaxBytes - 1..MaxBytes
    BY SizeAssumption
  <1>11. PICK r : r = Resolve(spec, current)
    OBVIOUS
  <1>12. CASE s = ""
    <2>1. r = b
      BY <1>9, <1>11, <1>12 DEF Resolve
    <2>2. ParseCreateSize(text).status = "ok"
      <3>1. ParseCreateSize(text) = ParseSize(text)
        BY <1>4, Zenon DEF ParseCreateSize
      <3>2. ParseSize(text) = spec
        BY <1>1, <1>9, <1>12, Zenon DEF ParseSize
      <3> QED BY <3>1, <3>2
    <2>3. text.sign = "" /\ text.sign # "+" /\ text.sign # "-"
      BY <1>5, <1>12
    <2> QED BY <1>7, <1>11, <2>1, <2>2, <2>3, Zenon
  <1>13. CASE s # ""
    <2>1. ~(ParseCreateSize(text).status = "ok")
      <3>1. ParseCreateSize(text) = ParseSize(text)
        BY <1>4, Zenon DEF ParseCreateSize
      <3>2. ParseSize(text) = Without("negative absolute")
        BY <1>1, <1>9, <1>13, Zenon DEF ParseSize
      <3>3. "negative absolute" # "ok"
        BY Zenon
      <3> QED BY <3>1, <3>2, <3>3, Answers, Zenon
    <2>2. PICK x : x = Saturate(current + spec.bytes)
      OBVIOUS
    <2>3. /\ x \in Int /\ x <= MaxBytes
          /\ s = "+" => x >= current
          /\ s = "-" => x <= current
      <3>1. PICK y : y = current + spec.bytes
        OBVIOUS
      <3>2. x = IF y > MaxBytes THEN MaxBytes ELSE IF y < -MaxBytes - 1 THEN -MaxBytes - 1 ELSE y
        BY <2>2, <3>1, Zenon DEF Saturate
      <3>3. s = "-" => spec.bytes = -b
        BY <1>9
      <3>4. s # "-" => spec.bytes = b
        BY <1>9
      <3>5. CASE s = "-"
        BY <1>10, <3>1, <3>2, <3>3, <3>5
      <3>6. CASE s # "-"
        <4>1. y = current + b
          BY <3>1, <3>4, <3>6
        <4> QED BY <1>10, <3>2, <4>1, <3>6
      <3> QED BY <3>5, <3>6
    <2>4. r = Max({x, 0})
      BY <1>9, <1>11, <1>13, <2>2, Zenon DEF Resolve
    <2>5. r = IF x < 0 THEN 0 ELSE x
      <3>1. PICK top : top = IF x < 0 THEN 0 ELSE x
        OBVIOUS
      <3>2. /\ top \in {x, 0} /\ \A y \in {x, 0} : top >= y
            /\ \A t \in {x, 0} : (\A y \in {x, 0} : t >= y) => t = top
        BY <2>3, <3>1
      <3>3. Max({x, 0}) = CHOOSE t \in {x, 0} : \A y \in {x, 0} : t >= y
        BY DEF Max
      <3>4. Max({x, 0}) = top
        BY <3>2, <3>3, Zenon
      <3> QED BY <2>4, <3>1, <3>4
    <2>6. r \in 0..MaxBytes
      BY <1>10, <2>3, <2>5
    <2>7. s = "+" => r >= current
      BY <1>10, <2>3, <2>5
    <2>8. s = "-" /\ current >= 0 => r <= current
      BY <1>10, <2>3, <2>5
    <2> QED BY <1>5, <1>11, <1>13, <2>1, <2>6, <2>7, <2>8, Zenon
  <1> QED BY <1>12, <1>13, Zenon

\* A written size is parsed to exactly the bytes it names where floating point can hold
\* them, a larger one to no fewer, and every one resolves to a size a partition can have,
\* for every precision and width of the numbers.  The exception is a size past the
\* largest integer that the limit, rounded up, lets in: it becomes that integer.
THEOREM SizesFaithful == AskSpec => []SizeFaithful
  <1>1. QuestionInv => SizeFaithful
    <2> SUFFICES ASSUME QuestionInv, question.about = "size"
                 PROVE  /\ ParsedExactly(question.text)
                        /\ Monotone(question.text, [question.text EXCEPT !.numerator = @ + 1])
                        /\ ResolvedSafely(question.text, question.current)
      BY DEF SizeFaithful
    <2>1. question.text \in Written /\ question.current \in -MaxBytes - 1..MaxBytes
      BY QuestionType
    <2> QED BY <2>1, ParsedRight, MagnitudeGrows, ResolvedRight
  <1> QED BY <1>1, QuestionHolds, PTL
=============================================================================
