---------------------------- MODULE Repartition ----------------------------
(***************************************************************************)
(* recovery/sbin/repartition: the data and storage partitions at the end   *)
(* of the disk are resized, by removing and re-creating them around the    *)
(* file system that stays in place.  The power may fail, or a command of   *)
(* the script may, between any two steps; recovery/sbin/auto-mkfs runs at  *)
(* every boot of the recovery system.                                      *)
(*                                                                         *)
(* Sizes are counted from the beginning of the data partition, in MiB in   *)
(* the code, in any unit here.  That beginning is fixed: when the entry is *)
(* missing the script takes the end of partition 26 for it, which is where *)
(* it counts datastorage_size from too.                                    *)
(***************************************************************************)
EXTENDS Integers

CONSTANTS Total,       \* datastorage_size: the room for both partitions
          Reserve,     \* SHRINK_RESERVE_SIZE: 8
          MinStorage,  \* a storage partition below this is not made: 64
          Grid         \* where parted's alignment lets a partition end

ASSUME SizesAssumption ==
    /\ Total \in Nat /\ Reserve \in Nat /\ MinStorage \in Nat
    /\ 0 < Reserve /\ Reserve < Total
    /\ Grid \subseteq 1 .. Total

\* The reserve makes up for the alignment, which is what it is there for.
ASSUME GridAssumption ==
    \A n \in Reserve .. Total : \E g \in Grid : n - Reserve <= g /\ g <= n

VARIABLES
    part,       \* the size of the data partition, or NoPart
    fs,         \* the size of the file system in it (according to its superblock)
    used,       \* the least size it can be shrunk to
    storage,    \* the storage partition: what is in it, or "none"
    sbegin,     \* where the storage partition begins (0 if there is none)
    pc,         \* the next step of the running resize, or "idle"
    newsize,    \* data_newsize
    shrinking,  \* is_shrinking
    blind       \* a resize began when the data partition was missing (history)

vars == <<part, fs, used, storage, sbegin, pc, newsize, shrinking, blind>>

NoPart == 0

\* "raw": not formatted; "seen": files that ls shows; "unseen": only files
\* that it does not show (their names begin with a dot), or the partition
\* cannot be mounted.
Contents == {"none", "raw", "empty", "seen", "unseen"}
Steps    == {"shrink", "rmstorage", "rmdata", "mkdata", "grow", "mkstorage", "mkfs"}

\* "mkpart ... n": the partition ends at the last place before n that the
\* alignment allows.
Aligned(n) == {g \in Grid : g <= n /\ \A h \in Grid : h <= n => h <= g}

\* The device as it is sold: partitions that parted could have made, and a
\* file system that fills the data partition.
Init ==
    /\ part \in Grid \cup {Total}
    /\ fs = part
    /\ used = 1
    /\ storage = IF part = Total THEN "none" ELSE "empty"
    /\ sbegin = IF part = Total THEN 0 ELSE part
    /\ pc = "idle"
    /\ newsize = 0 /\ shrinking = FALSE
    /\ blind = FALSE

-----------------------------------------------------------------------------
(* The script, one step for every command that changes the disk. *)

\* repartition_get_data_minsize: when resize2fs tells nothing, because the
\* partition is missing or damaged or it cannot be run, the least size is the
\* reserve alone.
MinSizes == {Reserve} \cup (IF part # NoPart THEN {used + Reserve} ELSE {})

\* A plausible bug: the file system is not shrunk before the partition is.
NotShrinking(n) == FALSE

\* is_shrinking.  A missing partition has size 0.
IsShrinking(n) == n < part

\* Files in the storage partition stop the resize.
StorageLooksEmpty == storage # "seen"

\* A plausible bug: the reserve is added to the planned size.
PlannedWithReserve(n) == n + Reserve

\* What is left for storage goes to data when it is too small.
PlannedSize(n) == IF Total - n < MinStorage THEN Total ELSE n

\* recovery_resize up to its first change: the sizes, the checks, the plan.
Begin(n) ==
    /\ pc = "idle"
    /\ StorageLooksEmpty
    /\ \E least \in MinSizes : n >= least
    /\ n <= Total
    /\ newsize' = PlannedSize(n)
    /\ shrinking' = IsShrinking(newsize')
    /\ pc' = IF shrinking' THEN "shrink" ELSE "rmstorage"
    /\ blind' = (blind \/ part = NoPart)
    /\ UNCHANGED <<part, fs, used, storage, sbegin>>

\* Plausible bug: shrink to the size of the partition, without the reserve.
ShrinkExactly ==
    /\ pc = "shrink"
    /\ fs <= part /\ used <= newsize
    /\ fs' = newsize
    /\ pc' = "rmstorage"
    /\ UNCHANGED <<part, used, storage, sbegin, newsize, shrinking, blind>>

\* resize_datafs with a size: e2fsck refuses a file system that is larger
\* than its partition, resize2fs one that does not fit the new size.
Shrink ==
    /\ pc = "shrink"
    /\ fs <= part /\ used <= newsize - Reserve
    /\ fs' = newsize - Reserve
    /\ pc' = "rmstorage"
    /\ UNCHANGED <<part, used, storage, sbegin, newsize, shrinking, blind>>

\* parted rm: nobody looks whether it has removed the partition.
RemoveStorage ==
    /\ pc = "rmstorage"
    /\ \/ storage' = "none" /\ sbegin' = 0
       \/ UNCHANGED <<storage, sbegin>>
    /\ pc' = "rmdata"
    /\ UNCHANGED <<part, fs, used, newsize, shrinking, blind>>

RemoveData ==
    /\ pc = "rmdata"
    /\ part' \in {NoPart, part}
    /\ pc' = "mkdata"
    /\ UNCHANGED <<fs, used, storage, sbegin, newsize, shrinking, blind>>

\* parted mkpart of the data partition, to the end of the disk if there will
\* be no storage; parted refuses to overlap another partition.
MakeData ==
    /\ pc = "mkdata"
    /\ part = NoPart
    /\ part' \in IF newsize = Total THEN {Total} ELSE Aligned(newsize)
    /\ storage # "none" => part' <= sbegin
    /\ pc' = "grow"
    /\ UNCHANGED <<fs, used, storage, sbegin, newsize, shrinking, blind>>

\* A plausible bug: the result of e2fsck is ignored.
GrowAnyway ==
    /\ pc = "grow"
    /\ fs' = IF fs <= part THEN part ELSE fs
    /\ pc' = IF newsize = Total THEN "idle" ELSE "mkstorage"
    /\ blind' = FALSE
    /\ UNCHANGED <<part, used, storage, sbegin, newsize, shrinking>>

\* resize_datafs without a size: e2fsck, then fill the partition.
Grow ==
    /\ pc = "grow"
    /\ fs <= part
    /\ fs' = part
    /\ pc' = IF newsize = Total THEN "idle" ELSE "mkstorage"
    /\ blind' = FALSE
    /\ UNCHANGED <<part, used, storage, sbegin, newsize, shrinking>>

\* parted mkpart of the storage partition, behind the data partition.
MakeStorage ==
    /\ pc = "mkstorage"
    /\ storage = "none"
    /\ storage' = "raw" /\ sbegin' = part
    /\ pc' = "mkfs"
    /\ UNCHANGED <<part, fs, used, newsize, shrinking, blind>>

\* mke2fs.
FormatNew ==
    /\ pc = "mkfs"
    /\ storage' = "empty"
    /\ pc' = "idle"
    /\ UNCHANGED <<part, fs, used, sbegin, newsize, shrinking, blind>>

\* The power fails, or the command of the next step does and the script dies.
Interrupted ==
    /\ pc # "idle"
    /\ pc' = "idle"
    /\ UNCHANGED <<part, fs, used, storage, sbegin, newsize, shrinking, blind>>

\* auto-mkfs at the next boot formats what has no file system.  The file
\* system of the data partition, wherever it ends, begins where it did.
AutoMkfs ==
    /\ pc = "idle" /\ storage = "raw"
    /\ storage' = "empty"
    /\ UNCHANGED <<part, fs, used, sbegin, pc, newsize, shrinking, blind>>

-----------------------------------------------------------------------------
(* The user. *)

\* Data is written and deleted while the file system can be mounted.
UseData ==
    /\ pc = "idle"
    /\ part # NoPart /\ fs <= part
    /\ used' \in 1 .. fs
    /\ UNCHANGED <<part, fs, storage, sbegin, pc, newsize, shrinking, blind>>

UseStorage ==
    /\ pc = "idle"
    /\ storage \in {"empty", "seen", "unseen"}
    /\ storage' \in {"seen", "unseen"}
    /\ storage = "seen" => storage' = "seen"
    /\ UNCHANGED <<part, fs, used, sbegin, pc, newsize, shrinking, blind>>

FormatStorage ==
    /\ pc = "idle"
    /\ storage # "none"
    /\ storage' = "empty"
    /\ UNCHANGED <<part, fs, used, sbegin, pc, newsize, shrinking, blind>>

Next ==
    \/ \E n \in 0 .. Total : Begin(n)
    \/ Shrink \/ RemoveStorage \/ RemoveData \/ MakeData \/ Grow
    \/ MakeStorage \/ FormatNew
    \/ Interrupted \/ AutoMkfs
    \/ UseData \/ UseStorage \/ FormatStorage

Spec == Init /\ [][Next]_vars

-----------------------------------------------------------------------------
(* Properties. *)

\* Every variable has its type.
TypeOK ==
    /\ part \in 0 .. Total /\ fs \in 1 .. Total /\ used \in 1 .. Total
    /\ storage \in Contents
    /\ sbegin \in 0 .. Total
    /\ pc \in Steps \cup {"idle"}
    /\ newsize \in 0 .. Total
    /\ shrinking \in BOOLEAN /\ blind \in BOOLEAN

\* No block of the user's data is given away: the data never needs more than
\* its file system has, and a storage partition, which gets formatted, begins
\* behind the file system and its partition.  This holds whatever was
\* interrupted, and whatever size the retry is given: e2fsck stops the script
\* before it makes a storage partition over a file system that was not shrunk.
DataBlocksKept ==
    /\ used <= fs
    /\ storage # "none" => fs <= sbegin /\ part <= sbegin

\* A file system is never larger than its partition, so it can be mounted,
\* unless the script was told to resize while the partition was missing.
DataMountable == part # NoPart /\ ~blind => fs <= part

\* "Not allowed to resize data to less than minimal size": the script makes
\* no data partition that is smaller than the data needs.
NeverBelowMinimum == part # NoPart => part >= used

\* A partition ends where parted lets it.
OnGrid == part \in Grid \cup {Total, NoPart}

\* The plan of the running resize: a file system that is about to be shrunk
\* has a larger partition; once it is shrunk, or when it need not be, its
\* partition can be made again without cutting it.
PlanFits ==
    /\ pc = "shrink" => newsize < part
    /\ pc # "idle" => newsize >= Reserve
    /\ pc \in {"rmstorage", "rmdata", "mkdata"} /\ ~blind =>
        \/ fs <= newsize - Reserve
        \/ \E g \in Grid \cup {Total} : fs <= g /\ g <= newsize

\* The storage partition is made when the data file system fills its own.
StorageComesLast ==
    /\ pc \in {"mkstorage", "mkfs"} => fs = part
    /\ pc = "mkfs" => storage = "raw"

\* The inductive invariant of the proofs.
IInv ==
    /\ TypeOK
    /\ DataBlocksKept
    /\ DataMountable
    /\ OnGrid
    /\ PlanFits
    /\ StorageComesLast
============================================================================
