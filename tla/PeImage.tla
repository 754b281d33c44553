------------------------------- MODULE PeImage -------------------------------
(***************************************************************************)
(* PeHeader::parse and contained_file_extent of pe.rs: how many bytes of   *)
(* some data are one Windows executable, taken from its headers, its       *)
(* sections and its certificate.                                           *)
(*                                                                         *)
(* An executable is told apart by the fields the functions read; the data  *)
(* is its first "length" bytes, whatever follows them elsewhere.           *)
(***************************************************************************)
EXTENDS Integers, Sequences, FiniteSetsExt

CONSTANT NoExtent

DosHeaderBytes == 64
SectionBytes == 40

Run == [offset : Nat, size : Nat]

Executable ==
    [mz : BOOLEAN, pe_offset : Nat, pe : BOOLEAN, machine : Nat, optional_size : Nat,
     magic : {"pe32", "pe32+", "other"}, subsystem : Nat, headers : Nat, sections : Seq(Run),
     certificate : Run]

\* The fields of PeHeader::parse: the last one read is the subsystem.
Optional(image) == image.pe_offset + 24

Parses(image, length) ==
    /\ image.mz /\ length >= DosHeaderBytes
    /\ image.pe /\ image.pe_offset + 4 <= length
    /\ Optional(image) + 70 <= length

SectionTable(image) == Optional(image) + image.optional_size

TableEnd(image) == SectionTable(image) + SectionBytes * Len(image.sections)

DirectoryOffset(image) == IF image.magic = "pe32" THEN 96 ELSE 112

\* The certificate directory is the fifth, if the optional header reaches it.
HasCertificate(image) ==
    /\ DirectoryOffset(image) + 5 * 8 <= image.optional_size
    /\ image.certificate.size > 0

End(run) == run.offset + run.size

\* Slip: the certificate is left out.
NoCertificate(image) == {}

Certificate(image) == IF HasCertificate(image) THEN {image.certificate} ELSE {}

Sections(image) == {image.sections[i] : i \in 1..Len(image.sections)}

FileEnd(image) ==
    Max({image.headers, TableEnd(image)}
        \cup {End(run) : run \in Sections(image) \cup Certificate(image)})

WellFormed(image, maximum_sections) ==
    /\ image.machine # 0
    /\ Len(image.sections) \in 1..maximum_sections
    /\ image.magic # "other" /\ image.optional_size >= DirectoryOffset(image)

ContainedFileExtent(image, length, maximum_sections) ==
    IF /\ Parses(image, length)
       /\ WellFormed(image, maximum_sections)
       /\ TableEnd(image) <= length
       /\ FileEnd(image) <= length
    THEN FileEnd(image) ELSE NoExtent

\* validate_x64_console: the machine and the subsystem an executable is run under.
X64 == 34404
Console == 3

AdmittedAsConsole(image, length) ==
    /\ Parses(image, length)
    /\ image.machine = X64 /\ image.magic = "pe32+"
    /\ image.subsystem = Console

-----------------------------------------------------------------------------
(* Properties.                                                             *)

\* The parts of an executable, as byte runs of the file; a certificate is one where
\* the optional header reaches its directory and it is not empty.
Parts(image) ==
    {[offset |-> 0, size |-> image.headers], [offset |-> 0, size |-> TableEnd(image)]}
        \cup Sections(image)
        \cup {run \in {image.certificate} :
                  DirectoryOffset(image) + 40 <= image.optional_size /\ run.size > 0}

\* An extent that is recognised holds every part of the executable the headers list,
\* ends where one of them does, and does not depend on what follows the file: any
\* longer data gives the same extent and the same admission, and data that is cut
\* short anywhere gives none.
ExtentIsTheFile(image, length, maximum_sections) ==
    LET n == ContainedFileExtent(image, length, maximum_sections)
    IN  n # NoExtent =>
            /\ \A part \in Parts(image) : part.offset + part.size <= n
            /\ \E part \in Parts(image) : part.offset + part.size = n
            /\ \A m \in 0..length + 1 :
                  ContainedFileExtent(image, m, maximum_sections)
                  = IF m >= n THEN n ELSE NoExtent
            /\ AdmittedAsConsole(image, n) <=> AdmittedAsConsole(image, length)
=============================================================================
