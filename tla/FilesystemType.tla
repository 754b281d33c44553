--------------------------- MODULE FilesystemType ---------------------------
(***************************************************************************)
(* model/filesystem.rs and model/mbr_type.rs: what a partition holds, as   *)
(* its MBR type byte or GPT type GUID declares and as the first bytes of   *)
(* the partition show, and the type byte to write for a filesystem.        *)
(***************************************************************************)
EXTENDS Integers, Sequences, FiniteSetsExt

CONSTANTS
    ChsLimit,        \* CHS_ADDRESSING_LIMIT
    SmallBytes,      \* 65536 sectors of 512 bytes: FAT16B from here on
    None

ASSUME FilesystemAssumption == ChsLimit \in Nat /\ SmallBytes \in Nat

Foreign ==
    {"Ext2", "Ext3", "Ext4", "Btrfs", "Xfs", "Zfs", "F2fs", "LinuxSwap", "LinuxLvm",
     "LinuxRaid", "Apfs", "HfsPlus"}

Filesystem ==
    {"Ntfs", "Fat12", "Fat16", "Fat32", "ExFat", "Refs", "Udf", "Cdfs", "Unformatted",
     "Other"} \cup Foreign

-----------------------------------------------------------------------------
(* MBR type bytes.                                                         *)

TypeByte ==
    [FAT12 |-> 1, FAT16_SMALL |-> 4, EXTENDED_CHS |-> 5, FAT16B |-> 6, IFS |-> 7,
     FAT32_CHS |-> 11, FAT32_LBA |-> 12, FAT16B_LBA |-> 14, EXTENDED_LBA |-> 15,
     LINUX_SWAP |-> 130, LINUX_NATIVE |-> 131, FT_MIRROR_FAT16B |-> 134,
     FT_MIRROR_IFS |-> 135, LINUX_LVM |-> 142, HFS_PLUS |-> 175, LINUX_RAID |-> 253]

\* Slip: the last addressable byte is taken for one too many.
NeedsLbaAtLimit(end_offset) == end_offset >= ChsLimit

NeedsLba(end_offset) == end_offset > ChsLimit

ByteForFat16(end_offset, length) ==
    IF length < SmallBytes THEN TypeByte.FAT16_SMALL
    ELSE IF NeedsLba(end_offset) THEN TypeByte.FAT16B_LBA
    ELSE TypeByte.FAT16B

\* for_filesystem
ForFilesystem(filesystem, end_offset, length) ==
    CASE filesystem = "Fat12" -> TypeByte.FAT12
      [] filesystem = "Fat16" -> ByteForFat16(end_offset, length)
      [] filesystem = "Fat32" ->
            IF NeedsLba(end_offset) THEN TypeByte.FAT32_LBA ELSE TypeByte.FAT32_CHS
      [] filesystem = "LinuxSwap" -> TypeByte.LINUX_SWAP
      [] filesystem = "LinuxLvm" -> TypeByte.LINUX_LVM
      [] filesystem = "LinuxRaid" -> TypeByte.LINUX_RAID
      [] filesystem \in {"Ext2", "Ext3", "Ext4", "Btrfs", "Xfs", "F2fs"} ->
            TypeByte.LINUX_NATIVE
      [] filesystem = "HfsPlus" -> TypeByte.HFS_PLUS
      [] OTHER -> TypeByte.IFS

\* is_hidden: OS/2's Boot Manager adds 16 to the type.
Hidden == {17, 20, 21, 22, 23, 27, 28, 30, 31}

Unhidden(byte) == IF byte \in Hidden THEN byte - 16 ELSE byte

FaultTolerantMirror == {TypeByte.FT_MIRROR_FAT16B, TypeByte.FT_MIRROR_IFS}

VisibleMbrType(byte) ==
    CASE byte = 1 -> "Fat12" [] byte \in {4, 6, 14, 134} -> "Fat16"
      [] byte \in {11, 12} -> "Fat32" [] byte = 130 -> "LinuxSwap"
      [] byte = 142 -> "LinuxLvm" [] byte = 253 -> "LinuxRaid"
      [] byte = 175 -> "HfsPlus" [] OTHER -> None

\* from_mbr_type
FromMbrType(byte) == VisibleMbrType(Unhidden(byte))

-----------------------------------------------------------------------------
(* The superblock.                                                         *)

\* Where each signature lies.
Place(signature) ==
    CASE signature \in {"Ntfs", "ExFat"} -> [offset |-> 3, bytes |-> 8]
      [] signature = "Fat32" -> [offset |-> 82, bytes |-> 8]
      [] signature \in {"Fat16", "Fat12"} -> [offset |-> 54, bytes |-> 8]
      [] signature = "Ext" -> [offset |-> 1080, bytes |-> 2]
      [] signature = "Btrfs" -> [offset |-> 65600, bytes |-> 8]
      [] signature = "Xfs" -> [offset |-> 0, bytes |-> 4]
      [] signature = "F2fs" -> [offset |-> 1024, bytes |-> 4]
      [] signature = "Apfs" -> [offset |-> 32, bytes |-> 4]
      [] signature = "HfsPlus" -> [offset |-> 1024, bytes |-> 2]
      [] signature = "LinuxSwap" -> [offset |-> 4086, bytes |-> 10]

\* The order in which detect_from_superblock looks for them: FAT and NTFS before
\* ext, whose magic a FAT volume may hold by accident.
Order ==
    <<"Ntfs", "ExFat", "Fat32", "Fat16", "Fat12", "Ext", "Btrfs", "Xfs", "F2fs",
      "Apfs", "HfsPlus", "LinuxSwap">>

WindowsFamily == {"Ntfs", "ExFat", "Fat32", "Fat16", "Fat12"}

ProbeBytes == 68 * 1024

\* The start of a partition: the signatures written there, and which of the ext
\* superblock's feature flags are set.
Partition ==
    [signatures : SUBSET {Order[i] : i \in 1..Len(Order)},
     flags : SUBSET {"compat", "incompat", "ro_compat"}]

FlagEnd(flag) ==
    CASE flag = "compat" -> 1024 + 96
      [] flag = "incompat" -> 1024 + 100
      [] flag = "ro_compat" -> 1024 + 104

SignatureEnd(signature) == Place(signature).offset + Place(signature).bytes

\* Slip: a signature that ends with the buffer is missed.
HeldWithin(partition, length) ==
    {s \in partition.signatures : SignatureEnd(s) < length}

\* magic_at: a signature counts where the whole of it is in the buffer.
Held(partition, length) ==
    {s \in partition.signatures : SignatureEnd(s) <= length}

Prevailing(held) == Order[Min({i \in 1..Len(Order) : Order[i] \in held})]

\* detect_ext_family: a flag past the end of the buffer counts as not set.
Generation(partition, length) ==
    LET flags == {f \in partition.flags : FlagEnd(f) <= length}
    IN  IF flags \cap {"incompat", "ro_compat"} # {} THEN "Ext4"
        ELSE IF "compat" \in flags THEN "Ext3"
        ELSE "Ext2"

\* detect_from_superblock
Detect(partition, length) ==
    LET held == Held(partition, length)
    IN  IF held = {} THEN None
        ELSE IF Prevailing(held) = "Ext" THEN Generation(partition, length)
        ELSE Prevailing(held)

-----------------------------------------------------------------------------
(* Properties.                                                             *)

\* The byte written for a filesystem never reads back as another one, visible or
\* hidden, and a byte with LBA addresses is written only where CHS cannot reach.
\* A byte with CHS addresses is written past that limit in two cases: for FAT12, which
\* has no other, and for FAT16 on less than SmallBytes, which keeps FAT16_SMALL
\* although FAT16B_LBA exists.  A mirror half reads as the filesystem it mirrors.
ByteReadsBack(filesystem, end_offset, length) ==
    LET byte == ForFilesystem(filesystem, end_offset, length)
        chs == {TypeByte.FAT12, TypeByte.FAT16_SMALL, TypeByte.FAT16B, TypeByte.FAT32_CHS}
        lba == {TypeByte.FAT16B_LBA, TypeByte.FAT32_LBA}
    IN  /\ FromMbrType(byte) \in {None, filesystem}
        /\ byte + 16 \in Hidden => FromMbrType(byte + 16) = FromMbrType(byte)
        /\ byte \in chs /\ end_offset > ChsLimit =>
              \/ filesystem = "Fat12"
              \/ filesystem = "Fat16" /\ length < SmallBytes
        /\ byte \in lba => end_offset > ChsLimit
        /\ \A half \in FaultTolerantMirror : FromMbrType(half) = FromMbrType(half - 128)

\* What a detection rests on: the signature, and the flags that tell ext4 from ext3
\* and ext2; the absence of any signature shows in every buffer.
EvidenceEnd(partition, length) ==
    LET held == Held(partition, length)
        signature == Prevailing(held)
    IN  IF held = {} THEN 0
        ELSE IF signature # "Ext" THEN SignatureEnd(signature)
        ELSE Max({SignatureEnd("Ext")} \cup {FlagEnd(f) : f \in partition.flags})

\* A buffer cut short gives the answer of the whole probe as soon as it holds the
\* evidence for it, to the last byte; the probe is long enough that nothing behind it
\* matters; and a partition with a Windows boot sector is never taken for a foreign
\* one, whatever its later bytes look like.
ProbeAgrees(partition, cut) ==
    LET whole == Detect(partition, ProbeBytes)
    IN  /\ cut >= EvidenceEnd(partition, ProbeBytes) => Detect(partition, cut) = whole
        /\ cut >= ProbeBytes => Detect(partition, cut) = whole
        /\ partition.signatures \cap WindowsFamily # {} => whole \notin Foreign
=============================================================================
