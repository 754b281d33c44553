------------------------------ MODULE PureFunctions ------------------------------
(***************************************************************************)
(* The parts of the library that keep no state: a caller asks one of them  *)
(* once, with any argument of a set.                                       *)
(***************************************************************************)
EXTENDS SizeSpec, FilesystemType, PeImage, Paging

CONSTANTS SizeQuestions, TypeQuestions, ProbeQuestions, ExtentQuestions, PageQuestions

ASSUME QuestionsAssumption ==
    /\ SizeQuestions \subseteq
          [about : {"size"}, text : Written, current : -MaxBytes - 1..MaxBytes]
    /\ TypeQuestions \subseteq
          [about : {"type"}, filesystem : Filesystem, end_offset : Nat, length : Nat]
    /\ ProbeQuestions \subseteq [about : {"probe"}, partition : Partition, cut : Nat]
    /\ ExtentQuestions \subseteq
          [about : {"extent"}, image : Executable, length : Nat, maximum_sections : Nat]
    /\ PageQuestions \subseteq
          [about : {"page"}, policy : Policy, start : Nat, requested : Nat, returned : Nat,
           total : Nat, actual : Nat]

VARIABLE question

AskInit == question = [about |-> "nothing"]

Ask(questions) == question.about = "nothing" /\ question' \in questions

AskSize == Ask(SizeQuestions)
AskType == Ask(TypeQuestions)
AskProbe == Ask(ProbeQuestions)
AskExtent == Ask(ExtentQuestions)
AskPage == Ask(PageQuestions)

Answered == question.about # "nothing" /\ UNCHANGED question

AskNext == AskSize \/ AskType \/ AskProbe \/ AskExtent \/ AskPage \/ Answered

AskSpec == AskInit /\ [][AskNext]_question

-----------------------------------------------------------------------------
(* Properties.                                                             *)

\* A written size is parsed to exactly the bytes it names where floating point can
\* hold them, never to fewer than a smaller one, and resolves to a size in range.  The
\* exception is what rounds to one byte past the largest integer: it is accepted and
\* becomes the largest.
SizeFaithful ==
    question.about = "size" =>
        /\ ParsedExactly(question.text)
        /\ Monotone(question.text, [question.text EXCEPT !.numerator = @ + 1])
        /\ ResolvedSafely(question.text, question.current)

\* The MBR type byte written for a filesystem reads back as that filesystem or as
\* none, and has LBA addresses exactly where CHS cannot reach the partition's end; the
\* exceptions are FAT12 and small FAT16, which get CHS addresses wherever they end.
TypeReadsBack ==
    question.about = "type" =>
        ByteReadsBack(question.filesystem, question.end_offset, question.length)

\* Detection from a short buffer is detection from the whole probe as soon as the
\* evidence lies in the buffer.
ProbeStable ==
    question.about = "probe" => ProbeAgrees(question.partition, question.cut)

\* The extent of an executable holds all of its parts and is the same whatever
\* follows it.
ExtentExact ==
    question.about = "extent" =>
        ExtentIsTheFile(question.image, question.length, question.maximum_sections)

\* A page that is accepted is the requested window of the listing, entry by entry.
PagesTile ==
    question.about = "page" =>
        PageExact(question.policy, question.start, question.requested,
                  question.returned, question.total, question.actual)
=============================================================================
