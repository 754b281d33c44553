# Formal models of zmily-disk-studio-foundation

TLA+ models of the Rust crate `zmily-disk-studio-foundation` (bounded parsers and
readers of untrusted disk images) and of the repository's contributor-agreement
check, with TLC configurations that check small instances and TLAPS proofs that hold
for every instance. Paths below are relative to
`crates/zmily-disk-studio-foundation/src/` unless they start with `scripts/` or
`.github/`.

## 1. The system

The crate is a library. It opens no device: every parser is a function that is handed
callbacks (`read(offset, length)`, `write(bytes)`, `is_cancelled()`, `progress(..)`,
`capture(bytes)`) and returns a value. All its state is local to one call, so what
can happen "at the same time" is what the callbacks do: fail, come back short, say
*cancel* at any poll, or present another content at the second call. What makes the
code hard is its input, an image nobody vouches for: cyclic directories, overlapping
extents, address indirections, several descriptors of one kind, and budgets that are
reached in the middle of a step.

| Component | State of a call | Operations | What makes it correct |
|---|---|---|---|
| ISO 9660/Joliet catalog, `catalog_iso` in `boot_media/iso_parser.rs` | descriptors chosen, the catalog, queue of directories, visited set, cursor | scan descriptors, choose the tree, pop/poll/check/read a directory, walk its records | reads stay in the source, no directory twice, budgets hold, the tree is the preferred volume's, the listing is the tree's, nothing missing or refused silently, it returns |
| UDF catalog, `catalog_udf` in `boot_media/udf_parser.rs` | the same, plus position in the recognition sequence, anchors, prevailing descriptors | recognise, find two agreeing anchors, read the descriptor sequence, walk | as above; the volume walked is recognised, confirmed and the prevailing one |
| UDF file entries and address spaces (same file) | address spaces, translated extents, bytes of a body | `build_address_spaces`, `validate_metadata_backing`, `read_file_entry`, `translate_extent`, `read_body`, `body_logical_block` | bytes read are the bytes named, across two levels of indirection |
| File streaming, `read_iso_file`, `read_udf_file` | current extent, two counters, the chunk | read/zero a chunk, write it, cancel | the sink holds a prefix of the file; reports count what was delivered |
| El Torito catalog, `boot_media/el_torito.rs` | the boot record, cursor, section, entries | scan descriptors, validate, parse headers and entries | one authority, a well-formed catalog, images inside the source |
| LZNT1 decoder, `recovery/mft_lznt1.rs` | output, start of the chunk, position | raw chunk, literal, match | decodes what was compressed, within two limits |
| Recovery previews, `recovery/preview.rs` | the latest capture and its inspection | capture, inspect, capture the whole image; make and validate a view | every view made is one its validator accepts |
| Contributor agreement, `scripts/cla_check.py` + `.github/workflows/cla.yml` | commit statuses, the run's reading of the pull request and of the records, the queue | read, mark pending, load, fetch pages, evaluate, read again, post | success only on a head whose commits are acceptable; no earlier success behind a pending mark; the last head is judged |
| Checksums, `boot_media/checksum.rs` | position, what has been digested, the expected digest | parse the expected digest; one loop of poll/read/update | a digest is of all of the source or is not given; a match stands for the whole source; a cancelled call returns |
| Page windows `recovery/paging.rs` | none | `validate_count`, `validate_window` | accepted pages tile the listing |
| Sizes, `size.rs` | none | `parse_size_spec`, `parse_size`, `parse_create_size`, `resolve` | exact where floating point is, monotone, in range |
| PE extents, `pe.rs` | none | `parse`, `contained_file_extent`, admission checks | the extent holds every part and does not depend on what follows |
| Filesystem types, `model/filesystem.rs`, `model/mbr_type.rs` | none | `detect_from_superblock`, `from_mbr_type`, `for_filesystem` | a type that is written reads back; a short buffer misleads only where it lacks the evidence |
| Bounded reads `files.rs`, build identifiers `build_id.rs` | none | one read, lexical tests | not modelled |

Interactions. The parsers do not call each other. A caller catalogs an image and then
streams an entry of the catalog: `FileStream` therefore takes any entry, not only one
a catalog would contain, since nothing in `read_*_file` ties the entry to its image;
`UdfFile` composes the two, from a file's allocation descriptors to the bytes that
reach the caller's writer.
`catalog_udf` calls the address-space functions for every ICB. The workflow is the
only part with real concurrency: contributor, maintainer and the check's run.

Hard behaviours, each with its source line, are the `hazards` of `PROJECT.json`.

## 2. Modules

| Module | Models | State and actions |
|---|---|---|
| `Traversal` | abstract: what any directory walk promises | frontier, explored, discovered; Choose, Explore, Revisit, Discover, Finish, GiveUp |
| `IsoCatalog` | `catalog_iso` | one variable per local of the function (`catalog`, `pending`, `visited`, `cursor`, ...) and `reads`, a history of the reads asked; one action per branch of its two loops |
| `UdfCatalog` | `catalog_udf` | as above; phases `recognition`, `anchor`, `backup`, `descriptors`, `volume`, `walk`, `records` |
| `UdfBody` | one ICB's bytes: address spaces, translation, body, tag block | `spaces`, `extents`, `bytes`; an action per descriptor translated and per extent read |
| `BoundedCopy` | abstract: what a copy to a sink promises | content, sink, outcome |
| `FileStream` | `read_iso_file` and `read_udf_file` | `current`, `extent_completed`, `completed` as in the code; read, zero, write, failing write, cancel |
| `UdfFile` | a catalogued UDF file: `UdfBody` makes its extents, `FileStream` (by INSTANCE) streams them later | the variables of both; Open keeps the extents as a `UdfEntry` and opens it on a source that may have shrunk |
| `Checksum` | `ExpectedChecksum::parse`, `calculate_checksums` | phases parse, config, poll, read; a short block, an interrupted or failing read, and RequestCancel at any moment |
| `ElTorito` | `catalog_el_torito`, `parse_catalog`, `parse_boot_entry` | descriptor index, cursor, section, entries |
| `Lznt1` | `decompress_lznt1`, `decode_match`, `append_one` | an item per step; tokens are computed by the format and taken apart by the code |
| `Preview` | `analyze_guarded_preview`, `inspect_recovery_preview`, `from_preview`, `validate` | first and second capture |
| `ClaCheck` | `check_pr`, `load`, `evaluate`, the workflow's queue | one action per API call; Push, EditRecords, Stops |
| `SizeSpec`, `FilesystemType`, `PeImage`, `Paging` | the functions without state | operators, no variables |
| `PureFunctions` | a caller of these functions | `question`: what was asked, once, with any argument of a set |
| `IsoCatalogProofs`, `UdfCatalogProofs`, `UdfBodyProofs`, `FileStreamProofs`, `ElToritoProofs`, `ChecksumProofs`, `ClaCheckProofs`, `PromiseProofs` | theorems | section 5 |
| `MC*` | small instances, one or two `.cfg` each | |

`IsoCatalog` and `UdfCatalog` implement `Traversal`, with the queue, the visited set
and the entries that were queued as its variables; `FileStream` and `Checksum`
implement `BoundedCopy`, whose content is the file computed without any chunk or extent
counter. `UdfCatalog` uses an ICB as a directory's identity and leaves how its bytes
are found to `UdfBody`.

Conventions. Call arguments are one fixed variable (`input` or `call`), chosen in Init
from a constant set. A callback that may fail is a disjunct that returns an error.
`phase` is the place in the code; the names of actions are the branches. A definition
introduced by a comment "Slip:" is a plausible mistake in the definition that
follows it. No specification uses it: it is there so that each property can be seen
to fail under the mistake it guards against (`mutants` in `PROJECT.json`).

### What is abstracted

- Bytes on disk become parsed records whose `form` says which check of the parser
  rejects them; the order of the checks is kept. Character sets, dates, tag CRCs and
  checksums are verdicts. `u64` overflow checks of offset plus length become the
  comparison with the source's size, which the code makes next and which no
  overflowing sum could pass.
- In file and body data, a byte is named by its source address, so that "the right
  bytes" is an equality; zero is a byte that is not recorded.
- Records of a directory may be any sequence; an extent the image does not describe
  reads as unusable records.
- `UdfCatalog` leaves out `bytes_read`, which only feeds the progress callback and
  the report; `IsoCatalog` keeps it.
- `ClaCheck` reduces the policy and acceptance files to whether they are valid and
  active, who has accepted, and which heads were reviewed. GitHub's side (that a
  page of commits is of the head of that moment, that at most one run waits) is
  modelled from how the workflow and the script use it.
- `Preview` reduces a stream to what a prefix shows: an image from some length on,
  text unless a character is cut. Of the hex dump its length is kept, with the real
  formatter's widths; base64, the dimensions of the image formats and the count of
  source bytes are left out (an overflow of that count is one of the ways a capture
  fails).
- `Checksum` tells a digest apart by its algorithm and by the bytes it is of: no two
  files share one. Parsing the text of an expected digest is reduced to its prefix,
  its length, whether its digits are digits, and their case.
- `SizeSpec` holds a floating-point number as a multiple of a grain, rounded to the
  nearest even one of `Precision` bits; integers end at `MaxBytes`. The texts are
  reduced to a sign, a fraction and a unit. `inf` is "too large"; numbers
  beyond the widest step are rounded to it, far above the limit.
- `FilesystemType` reduces a partition's first bytes to the signatures that are
  written there and the ext feature flags that are set.
- `PeImage` reduces an executable to the header fields the functions read; the sums
  of 32-bit fields do not overflow.

## 3. Runs

`tlc -config <cfg> <module>`; every passing run ends with no error, and every action of
every module fires in one of them.

| Run | Question | Bounds, and why they are enough |
|---|---|---|
| `iso_catalog` (`MCIsoCatalog.cfg`) | Do reads stay inside the source and never repeat, do budgets hold, is the preferred volume the one walked, is the listing sound and every omission and every refused record reported, is the byte count right, does the walk implement `Traversal` and return? | Blocks of two cells; a root of two blocks with every pair of a record of ten kinds and one of four; directories that link to the root, to themselves, to an extent sharing an offset, to one too large, and past the volume; four configurations that reach each budget; 16 descriptor sequences, with the kinds of volume in either order and repeated. Two levels and two records per directory are enough to reach a directory along two paths, in a cycle, and with a full budget in mid-directory. |
| `iso_padded` (`MCIsoCatalogPadded.cfg`) | Does the walk return when a block *begins* with padding? **Violated** (finding 1). | The same images with such a block. `iso_catalog` has none: the two runs split the inputs there. |
| `udf_catalog` (`MCUdfCatalog.cfg`) | Is the volume vouched for (recognition order, anchor, second anchor), prevailing descriptors, budgets, soundness, omissions, records passed over for their name, map or entry, `Traversal`, termination. | All recognition sequences of four sectors; anchor layouts of sources of two to six sectors with the anchor at sector 2 (so that the source sizes at which a backup candidate is the primary anchor occur); two partition and two logical volume descriptors in 54 orders and with one behind the terminator; trees over ICBs in two partition maps with the same block number. |
| `udf_body` (`MCUdfBody.cfg`) | Are the bytes of a body those its descriptors name, is the tag block right, do reads stay in the partition, are refusals justified? Does a file that is catalogued now and streamed later deliver its own bytes? | A partition that does not start at 0, metadata files in one or two pieces, in order, swapped, sparse, too long or reserved, with a mirror elsewhere or shared, with file entries that are bare as they must be or not; entries of up to two runs of 0 to 4 bytes that start in mid-sector and cross a piece. Streams in chunks of 2, from a source of the same size or 5 bytes shorter. |
| `file_stream` (`MCFileStream.cfg`) | Does the copy implement `BoundedCopy`; does it keep to the source and report what the sink took (`CopyIsHonest`)? | Every list of at most two extents of 0, 1 or 3 bytes at two offsets, recorded or not, with chunks of 2: a chunk ends inside, at and across the end of an extent, and lists are shorter and longer than the file. |
| `el_torito` (`MCElTorito.cfg`) | Is there one authority, is a catalog well-formed as a whole, are the entry limits kept? | Every block of five slots over zeros, an entry and four headers (two sections and something behind them; a final header is not required, by the code or by the property); two sections of any two of three platforms; every kind of bad entry as default entry and in a section; every sequence of up to three of seven descriptors. |
| `lznt1` (`MCLznt1.cfg`) | Does an accepted stream decode to what was compressed; are the limits kept at every step, and is a limit or displacement refused only where it is passed (`LimitsExact`)? | Six-bit tokens and chunks of 16 bytes: the split of the token changes three times inside a chunk. Up to five literals and two copies, in a first or second chunk, also overlapping; end markers, repeated ones included; three output limits. No copy begins where the chunk holds exactly 4, 8 or 16 bytes (see finding 2). |
| `lznt1_powers` (`MCLznt1Powers.cfg`) | The same with those copies. **Violated** (finding 2). | |
| `preview` (`MCPreview.cfg`) | Is the view of every returned preview one that `validate` accepts, even if the stream changed between the captures or one of them came back short? | Streams of up to six bytes, image headers of one to three, all configurations of limits up to five; captures of any length; hex rows of two bytes, so that a dump has several rows, a partial last one and addresses wider than the least width. |
| `checksum` (`MCChecksum.cfg`) | Does a match stand for the whole source, is each byte digested once and in order (`BoundedCopy`), does a cancelled call return? | Sources of up to three bytes over two values, all splits into blocks of one or two, block sizes that are refused; expected digests of the source and of others, with every prefix, in capitals, and damaged; an interruption or a request to cancel at any read. |
| `functions` (`MCFunctions.cfg`) | Are sizes parsed and resolved faithfully, do written MBR types read back, is detection from a buffer that holds the evidence, to the last byte, that of the whole probe, is the extent of an executable exact, do pages tile? | Four-bit floats and eight-bit integers with 4 for 1024: rounding, ties and the limit all occur. End offsets and lengths at, below and above both boundaries. Every set of signatures that can be on a disk together, cut before and after each of them. Headers, sections and certificates that end in any order. All windows up to four. |
| `cla_check` (`MCClaCheck.cfg`) | Is a success only on an acceptable head, does a run leave no earlier success once its pending mark is posted, is the last head judged? | Five heads (accepted, a second author, unknown author, co-authored with three commits, one with more commits than the check allows), six states of the records, one commit per page so that a fetch takes up to three calls, two pushes (so that a head can return), one edit, one stopped or failed call. An edit of the records is followed by a rerun. |

Counters of the code that could grow without bound (queue, entries, issues, reads) are
bounded by the budgets of the configuration. The constants `MaxPushes`, `MaxEdits` and
`MaxStops` of `ClaCheck` bound the model only.

### Fairness and deadlock

The crate's calls run on one thread and their callbacks return: `WF_vars(Next)`, so a
behaviour may loop but not pause. Cancellation and failure are choices and never
obliged. `Checksum` asks less: `WF_vars(Step)`, where `Step` is the thread's own steps.
Nothing obliges the caller to cancel or the reader to stop being interrupted, and
`CancelReturns` holds because the loop polls after every interruption. The modules
whose properties are all safety (`FileStream`, `UdfFile`, `ElTorito`, `Lznt1`,
`Preview`, `PureFunctions`) assume no fairness. `Returned` (`Stopped` in `Lznt1`) is a stuttering last step, so deadlock is checked: a state in
which the code has no next step would be found. In `ClaCheck` only `WF_vars(Check)` is
assumed: the service starts a queued run and a run goes on; nobody is obliged to push
or edit. There the system may well have nothing to do, hence
`CHECK_DEADLOCK FALSE`. `HeadIsJudged` excuses behaviours in which a call failed: the
code has no retry, and a failed run leaves *failure*, *pending* or, before its pending
mark, what was there. A head with more commits than the check allows is to end in
*failure*.

## 4. Findings

1. **`iso_padded`**: `next_block` (`iso_parser.rs:552`) rounds *up to itself* when the
   cursor is already a multiple of the block size, so a zero record length at the
   start of a block keeps `catalog_iso` in the loop of lines 203-209 for ever, where
   neither cancellation nor a budget is consulted. The module calls itself bounded.
2. **`lznt1_powers`**: `decode_match` (`mft_lznt1.rs:207`) counts the bytes produced,
   the format the position of the last byte. Where the chunk holds exactly 16, 32,
   64, ... bytes, displacement and length are split one bit off.

Also seen, without a run of its own; each is an exception that a property names:

- For a source of exactly 257 or 513 sectors one backup candidate of
  `find_matching_anchor` is the primary anchor itself (`Confirmed` in `UdfCatalog`).
- `check_pr` compares the head's name before posting (`cla_check.py:205`), but commits
  are fetched for whatever head there is. If the head changes and changes back in
  between, the success was decided on other commits until the run queued by the
  second change (`strayed` in `ClaCheck`).
- `inspect_recovery_preview` (`preview.rs:258`) retains up to `max_image_bytes` of an
  image it holds only in part, and `validate` refuses the view made of it
  (`HeldInPart` in `Preview`). The callers' captures are expected to be exact.
- A size of exactly 2^63 bytes passes the limit of `size.rs:186` and is saturated to
  2^63 - 1 (`PastMaxInside` in `SizeSpec`).
- A run of the check that fails or is stopped before its pending mark is posted
  (`cla_check.py:190-193`, before the `try`) leaves whatever status the head had, an
  earlier success included (`NoOldSuccess` in `ClaCheck` speaks of the phases from the
  mark to the verdict).
- A FAT12 partition past the CHS limit gets its CHS type byte, since it has no other.
  FAT16 on less than 65536 sectors gets 0x04 before its end is looked at
  (`mbr_type.rs:96`), although the comment of `CHS_ADDRESSING_LIMIT`
  (`mbr_type.rs:76-77`) says that what ends past the limit "has to carry an LBA type"
  and 0x0E exists. Both are named as exceptions by `ByteReadsBack` in
  `FilesystemType`. An ext4 superblock cut between its magic and its flags is reported as an
  older generation (`EvidenceEnd` lies behind such a cut).
- The offset of an empty PE section counts as an end, that of an empty certificate does
  not (`PeImage`).

## 5. Proofs

`tlapm <module>`. The theorems hold for all values of the constants, under the
assumptions named in the modules (`ConstantsAssumption`, `InputsAssumption`,
`ChunkAssumption`, `CallsAssumption`, `SectorAssumption`, `LaterAssumption`,
`FilesystemAssumption`, `QuestionsAssumption`, `TokenAssumption`, `StreamsAssumption`,
`SizeAssumption`):
these only say what a parsed image, a call, a token and a stream that an encoder can
write look like, and TLC evaluates them in the runs.

- **`IsoCatalogProofs`**. `TypeCorrect`, `ReadsStayInside`, `ReadsAreFresh`,
  `BudgetsAreKept`. None of the last three is inductive: a read is made of what the
  queue holds, the queue is filled from a volume that parsed and from records that
  were checked, and a repeated read is excluded by what `visited` remembers. `Safe`
  adds exactly these links: `ParsedVolumes` (the volume in use passed
  `parse_descriptor`), `QueueAdmissible` (each queued extent lies in the source and
  within the budgets), `ReadsRemembered` (each directory read is in `visited`),
  `RoomForEntry` (while records are scanned, an entry may still be added). One lemma
  per part shows that a step keeps it.
  `WalkImplementsTraversal`: `Spec => ImplementsTraversal`.
  `FrontTail`, `FrontAppend` and `QueuedOfAppend` say how the mapped queue and the
  mapped set of discovered extents change; `ScanRefines`, `WalkRefines`, `ListRefines`
  and `RecordsRefine` map each action to an action of `Traversal` or to a stutter.
  The invariant used besides `TypeOK` is `Unstarted`: nothing is queued or listed
  before a volume is chosen.
  `JolietIsPreferred` (`VolumePreferred`, a part of `ListingIsSound`): the tree walked is the last Joliet one
  announced before the terminator, or the last primary one. `ScannedInOrder` says that
  the two descriptors held are the last of their kinds among those passed, and that no
  terminator was passed before the scan ended.
  `BytesAreAccounted`: `bytes_read` is the sum over the history of the reads at every
  moment of the call (`Counted`), not only when it returns.
  `ListedIsInTheTree` and `OmissionsAreReported` compare the walk with the tree of the
  image, which is defined level by level. Neither is inductive: that an entry is in the
  tree rests on the directory it was read from being in it; that nothing is missing
  rests on what is still queued and on how far the records of the current directory
  have been read. `ListingInv` says so: `OnRecord` (the cursor is the start of a
  record, and every record that starts before it ends before it), `InTree` (queued
  directories, the current one and the entries are in the tree at their depth),
  `Ordered` (queue and listing ascend; the queue holds two adjacent levels),
  `Parented`, `Untouched` (the root is read first, and alone), `Accounted` (each
  directory known is queued, or read up to the cursor, or settled: its children are
  listed, or an issue names it) and `Ended`. From `Accounted` at the end of the walk an
  induction over the path of an entry of the tree finds the entry or the issue.
- **`UdfCatalogProofs`**. `TypeCorrect`; `VolumeIsVouchedFor` and `DescriptorsPrevail`,
  whose invariant follows the scans (`Recognising`: what a flag that is set says of the
  sectors passed; `Confirming`; `Selecting`: the descriptor held is the best of those
  passed, and none of them ends the sequence); `BudgetsKept`; `WalkImplementsTraversal`;
  `ListedIsInTheTree` and `OmissionsAreReported` with an invariant like that of the ISO
  walk, where a child is what a record *and* the file entry it points to say.
- **`ClaCheckProofs`**. `SuccessIsEarned` (`SuccessMeansAccepted`) and `VerdictsFollowPending`
  (`NoOldSuccess`). The success is posted many calls after the facts it rests on were
  read, and between any two of them a push or an edit may fall. `NoOldSuccess` is
  inductive with the type invariant: statuses are only posted by the one run, and it
  posts none between its pending mark and its verdict. For the other, the invariant
  says what the run holds in the meantime: `InForce` (its records are valid and active, and its commit count is the
  head's), `Gathered` (unless another head strayed in, the pages are the head's first
  commits) and `Judged`.
- **`UdfBodyProofs`**. `BodyExact` (`BodyIsExact`), `ReadsStayInside`
  (`ReadsInsidePartition`), `TagBlocksRight` (`TagBlockRight`) and `RefusalsJustified`.
  What a body must be is defined byte by byte: the descriptor a byte belongs to, the
  block that gives, and for the metadata partition the same question once more for the
  backing file. The code works by runs instead, and in two passes. `BodyInv` says what
  each pass has done: `Placed` (what has been translated lies in the partition),
  `Known` (an address space for metadata is the one the volume declares, its backing
  file translated and checked), `Covers` (the pieces so far are the bytes of the
  descriptors so far, none left out and none empty) and `HasRead` (the bytes read are
  the first of these pieces). The descriptors past the one a byte belongs to say nothing
  about it, and a byte belongs to one only (`Homes`). `Walking` carries a run through
  the pieces of the metadata file: what is left of it starts where the pieces taken end.
  `StreamedBytesRight` (`StreamIsTheFile`): `FileInv` adds the copy to the body. That
  part is not proved again: `FileStreamProofs` is instantiated for the calls `Open`
  can make, `CallsFit` shows that these are entries and sources as that module assumes,
  and its invariant says that the sink is the file's bytes as the extents give them.
  What is left is that those are the bytes the descriptors name.
- **`FileStreamProofs`**. `TypeCorrect`, `ReportsMatch`, `ReadsStayInside`, and both as
  the run checks them, `CopiesAreHonest` (`CopyIsHonest`). The
  inductive invariant ties the two counters together (`InExtent`: what the extent has
  delivered is part of what the file has, and at most the extent's share), bounds the
  chunk that waits (`BlockFits`), remembers that the entry was accepted (`Accepted`)
  and that the count is the sink's until the call fails (`Counted`).
  `CopyImplementsBoundedCopy`: `Spec => ImplementsBoundedCopy`, whose content is the
  file computed from the extents alone. `Placed` says where the two counters are in
  it (the file's bytes before this extent, `Held`, plus what the extent has
  delivered, or the file has ended already), `Waiting` that a chunk read and not yet
  written is the file's from there, `Delivered` that the sink is a prefix. `HeldUnfold`,
  `HeldOrder` and `HeldBy` show that each byte has one extent.
- **`ElToritoProofs`**. `TypeCorrect`, `AuthorityIsUnique` (`OneAuthority`) and
  `CatalogIsWellFormed` (`CatalogIsTheBlock`). `Held` and `Stopped` say what the scan
  has seen of boot records and terminator. `Parsed` is the grammar of a prefix: some
  slots are headers that cut what is behind the cursor into complete sections, but for
  the current one, which lacks as many entries as it has left (`Cut`); the current
  section has its header's platform (`Current`); and the entries are the other slots in
  their order (`Lists`). Each header taken extends the cut by one, each entry the
  listing.
- **`ChecksumProofs`**. `TypeCorrect`, `VerdictHolds` (`VerdictIsTheFile`) and
  `PassImplementsCopy` (`ImplementsBoundedCopy`). The verdict is decided in the last
  step and rests on all before it, so the invariant says what has been digested so
  far (`Digested`: the source up to `position`), what was parsed (`Parsed`: the digest
  the caller named, in lower case, or nothing) and what a report compares
  (`Reported`). The lemmas about sequences say that a prefix grows by the block that
  follows it.
- **`PromiseProofs`**. `ForgetsNothing` and `ReadsAll` for the abstract walk: with the
  refinement, a catalog of `catalog_iso` that carries neither `cancelled` nor
  `limit_reached` comes from a walk that read every directory it queued.
  `PagesAlwaysTile` (`PagesTile`), `TypesReadBack` (`TypeReadsBack`), `ProbesStable`
  (`ProbeStable`) and `ExtentsExact` (`ExtentExact`): what the `functions` run checks,
  for every argument. The extent of an executable is the maximum of the ends of its
  parts, so a bound on them gives one (`SequenceBounded`, `MaxFacts`), and each part
  ends inside the data exactly where the maximum does (`EndFacts`). A short buffer
  holds some of a partition's signatures; where the first of the whole is among them,
  it is their first too (`PrevailingSame`), so a buffer that holds the evidence misses
  nothing. `TypesReadBack` has the two exceptions of section 4, FAT12 and small
  FAT16.
  `ViewsValidate`
  (`ViewValidates`): a preview that is returned is an inspection of some capture under
  a valid configuration (`PreviewInv`), and the view of any such inspection passes
  `validate` exactly where no image is held in part (`ViewRight`). The hex dump is the
  part that is not obvious: its length is bounded by as many rows as `max_hex_bytes`
  makes, each as long as the last of them (`DumpBound`), because an address further on
  has no fewer digits (`DigitsOrder`).
  `LimitsHold` (`TypeOK` of `Lznt1`, for every stream), and, for streams in which no
  copy begins where its chunk holds a power of two bytes (`RegularStream`), `StreamsDecode` (`DecodesExactly`)
  and `RefusalsHaveReasons` (`LimitsExact`). The others are finding 2, where both
  properties fail. `decode_match` halves the position until it is small, the format
  asks for the least power of two that reaches it: `SplitFacts` and `BitsFacts` bracket
  the position between the same two powers, so that they differ only on one, and
  `TokenRight` takes a token apart again. `Copied` reads bytes it has just written;
  `CopiedBytes` gives each by its distance from the last byte before the copy, which is
  what the format says. The invariant (`DecodeInv`) ties the output to the operations
  decoded (`Decoded`): it is the chunks before this one, and the first items of this.
  `SizesFaithful` (`SizeFaithful`), with the exception of 2^63 (`PastMaxInside`). Rounding keeps the order of numbers (`FloatOrder`):
  of two numbers in one binade because the quotient does, across binades because the
  smaller rounds to no more than the power of two between them and the larger to no
  less (`RoundedWithin`). That is what lets the comparison with a rounded limit stand
  for the exact one: a product that needs no rounding is itself a floating-point
  number, so it passes the rounded limit only if it passes `i64::MAX`.

Model-checked only:

- liveness (`Terminates`, `HeadIsJudged`, `CancelReturns`): TLAPS does not prove it
  under fairness;
- `RejectionsReported` of both catalogs, that each record passed over for what it says
  leaves its own issue. What the theorems say of missing entries does not rest on it.

References that are defined by recursion (`Tree`, `ReadTotal`, `RecordStarts`, `Held`,
`Digits`, `Power`, `Counts`, `Expanded`, `Joined`, `Doubled`) are recursive functions, unfolded by `TreeUnfold` and its like. Where a proof needs an
induction it takes the least counterexample (`LeastElement`, from the well-foundedness
of `<` on the naturals), since the induction rules of the library have an operator as
a parameter.

## 6. Not modelled

- `files.rs`, `build_id.rs`: one bounded read through the operating system and lexical
  tests without state.
- `model/filesystem.rs`: the names, size limits and abilities of the filesystems and
  the tables of GPT type GUIDs are constants; a model would repeat them.
- `recovery/preview.rs`: the dimensions in PNG, GIF, BMP and JPEG headers, base64.
- `catalog_udf`'s `bytes_read`, which only feeds the progress callback and the report.
- `size.rs`: how a text is split into sign, number and unit.
- `boot_media/iso_fixtures.rs` builds test images.
- `cla_check.py --check-config` and the HTTP layer.

## 7. Plan

Done, in this order: the ISO catalog with its abstract walk and its proofs, file
streaming, UDF bodies and catalog, the agreement check, LZNT1, El Torito, previews,
the refinement and streaming proofs; then checksums with their proofs, a UDF file from
descriptors to writer, captures of any length and hex dumps, and the functions
without state.

Then the invariants of both catalogs, of the boot catalog, of UDF bodies and files, of
previews, of the LZNT1 decoder and of the agreement check were proved for every input
and every history, that streaming implements `BoundedCopy`, and what the functions
without state promise.

Next:

1. Compose `UdfCatalog` with `UdfBody` for the tag locations of directory records.
