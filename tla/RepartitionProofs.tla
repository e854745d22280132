------------------------- MODULE RepartitionProofs -------------------------
(***************************************************************************)
(* Repartition's safety for every disk size, reserve and alignment grid.   *)
(* IInv ties the plan made at the beginning of a resize (newsize) to the   *)
(* file system as the steps leave it, so that re-creating the partition    *)
(* cannot cut it; the grid assumption says the reserve covers alignment.   *)
(***************************************************************************)
EXTENDS Repartition, TLAPS

USE DEF NoPart

\* A device as it is sold satisfies the invariant.
LEMMA InitEstablishes == Init => IInv
<1> SUFFICES ASSUME Init PROVE IInv
    OBVIOUS
<1>1. part \in 1 .. Total /\ fs = part /\ used = 1 /\ pc = "idle"
    BY SizesAssumption DEF Init
<1>2. TypeOK
    <2>1. storage \in Contents /\ sbegin \in 0 .. Total
        BY <1>1 DEF Init, Contents
    <2>2. newsize \in 0 .. Total
        BY SizesAssumption DEF Init
    <2>3. shrinking \in BOOLEAN /\ blind \in BOOLEAN
        BY DEF Init
    <2> QED BY <1>1, <2>1, <2>2, <2>3, SizesAssumption DEF TypeOK
<1>3. DataBlocksKept /\ DataMountable /\ OnGrid
    BY <1>1 DEF Init, DataBlocksKept, DataMountable, OnGrid
<1>4. PlanFits /\ StorageComesLast
    BY <1>1 DEF PlanFits, StorageComesLast
<1> QED BY <1>2, <1>3, <1>4 DEF IInv

\* The checks at the beginning: the plan is made, nothing is touched.
LEMMA BeginPreserves ==
    ASSUME IInv, NEW n \in 0 .. Total, Begin(n)
    PROVE  IInv'
<1> USE SizesAssumption DEF IInv
<1>1. PlannedSize(n) \in 0 .. Total /\ n <= PlannedSize(n)
    BY DEF PlannedSize
<1>2. n >= Reserve
    BY DEF Begin, MinSizes, TypeOK
<1>3. TypeOK'
    BY <1>1 DEF Begin, TypeOK, IsShrinking, Steps
<1>4. DataBlocksKept' /\ DataMountable' /\ OnGrid'
    BY DEF Begin, TypeOK, DataBlocksKept, DataMountable, OnGrid
<1>5. PlanFits'
    <2>1. newsize' >= Reserve
        BY <1>1, <1>2 DEF Begin
    <2>2. pc' = "shrink" => newsize' < part'
        BY DEF Begin, IsShrinking
    <2>3. ASSUME pc' \in {"rmstorage", "rmdata", "mkdata"}, ~blind'
          PROVE  \E g \in Grid \cup {Total} : fs' <= g /\ g <= newsize'
        <3>1. part # NoPart /\ ~blind /\ part <= newsize'
            <4>1. ~(blind \/ part = NoPart)
                BY <2>3 DEF Begin
            <4>2. ~shrinking'
                BY <2>3 DEF Begin
            <4>3. shrinking' = (newsize' < part)
                BY DEF Begin, IsShrinking
            <4>4. ~(newsize' < part)
                BY <4>2, <4>3
            <4>5. part <= newsize'
                BY <4>4, <1>1 DEF Begin, TypeOK
            <4> QED BY <4>1, <4>5
        <3>2. part \in Grid \cup {Total} /\ fs <= part
            BY <3>1 DEF OnGrid, DataMountable
        <3> QED BY <3>1, <3>2 DEF Begin
    <2> QED BY <2>1, <2>2, <2>3 DEF PlanFits
<1>6. StorageComesLast'
    BY DEF Begin, StorageComesLast, StorageLooksEmpty
<1> QED BY <1>3, <1>4, <1>5, <1>6

\* Shrinking keeps the data: resize2fs refuses a size below it.
LEMMA ShrinkPreserves == IInv /\ Shrink => IInv'
<1> SUFFICES ASSUME IInv, Shrink PROVE IInv'
    OBVIOUS
<1> USE SizesAssumption DEF IInv
<1>1. fs' \in 1 .. Total /\ fs' < part /\ used <= fs'
    BY DEF Shrink, TypeOK, PlanFits
<1>2. TypeOK'
    BY <1>1 DEF Shrink, TypeOK, Steps
<1>3. DataBlocksKept' /\ DataMountable' /\ OnGrid'
    BY <1>1 DEF Shrink, TypeOK, DataBlocksKept, DataMountable, OnGrid
<1>4. PlanFits' /\ StorageComesLast'
    BY DEF Shrink, TypeOK, PlanFits, StorageComesLast
<1> QED BY <1>2, <1>3, <1>4

\* The partition that is made again is not smaller than the file system,
\* unless the plan was made without knowing the file system.
LEMMA MakeDataPreserves == IInv /\ MakeData => IInv'
<1> SUFFICES ASSUME IInv, MakeData PROVE IInv'
    OBVIOUS
<1> USE SizesAssumption DEF IInv
<1>1. part' \in Grid \cup {Total} /\ part' \in 1 .. Total
    BY DEF MakeData, Aligned
<1>2. ASSUME ~blind PROVE fs <= part'
    <2>1. newsize \in Reserve .. Total /\ fs \in 1 .. Total
        BY DEF MakeData, TypeOK, PlanFits
    <2>2. CASE newsize = Total
        BY <2>1, <2>2 DEF MakeData
    <2>3. CASE newsize # Total
        <3>1. \A h \in Grid : h <= newsize => h <= part'
            BY <2>3 DEF MakeData, Aligned
        <3>2. PICK g \in Grid : newsize - Reserve <= g /\ g <= newsize
            BY <2>1, GridAssumption
        <3>3. g <= part' /\ g \in Nat
            BY <3>1, <3>2
        <3>4. CASE fs <= newsize - Reserve
            BY <3>2, <3>3, <3>4, <2>1, <1>1
        <3>5. CASE \E h \in Grid \cup {Total} : fs <= h /\ h <= newsize
            <4>1. PICK h \in Grid \cup {Total} : fs <= h /\ h <= newsize
                BY <3>5
            <4>2. h \in Grid /\ h \in Nat
                BY <4>1, <2>1, <2>3
            <4> QED BY <4>1, <4>2, <3>1, <2>1, <1>1
        <3> QED BY <1>2, <3>4, <3>5 DEF PlanFits, MakeData
    <2> QED BY <2>2, <2>3
<1>3. TypeOK' /\ OnGrid'
    BY <1>1 DEF MakeData, TypeOK, OnGrid, Steps
<1>4. DataBlocksKept' /\ DataMountable'
    BY <1>2 DEF MakeData, DataBlocksKept, DataMountable
<1>5. PlanFits' /\ StorageComesLast'
    BY DEF MakeData, PlanFits, StorageComesLast
<1> QED BY <1>3, <1>4, <1>5

\* The other steps of the script.
LEMMA ScriptPreserves ==
    ASSUME IInv,
           \/ RemoveStorage \/ RemoveData \/ Grow \/ MakeStorage \/ FormatNew
           \/ Interrupted \/ AutoMkfs
    PROVE  IInv'
<1> USE SizesAssumption
    DEF IInv, TypeOK, DataBlocksKept, DataMountable, OnGrid, PlanFits,
        StorageComesLast, Contents, Steps
<1>1. CASE RemoveStorage  BY <1>1 DEF RemoveStorage
<1>2. CASE RemoveData     BY <1>2 DEF RemoveData
<1>3. CASE Grow
    <2>1. blind' \in BOOLEAN /\ shrinking' \in BOOLEAN
        BY <1>3 DEF Grow
    <2>2. /\ fs <= part /\ fs' = part /\ pc' \in {"idle", "mkstorage"} /\ pc = "grow"
          /\ UNCHANGED <<part, used, storage, sbegin, newsize>>
        BY <1>3 DEF Grow
    <2> QED BY <2>1, <2>2
<1>4. CASE MakeStorage    BY <1>4 DEF MakeStorage
<1>5. CASE FormatNew      BY <1>5 DEF FormatNew
<1>6. CASE Interrupted    BY <1>6 DEF Interrupted
<1>7. CASE AutoMkfs       BY <1>7 DEF AutoMkfs
<1> QED BY <1>1, <1>2, <1>3, <1>4, <1>5, <1>6, <1>7

\* What users do between two resizes.
LEMMA UsePreserves ==
    ASSUME IInv, UseData \/ UseStorage \/ FormatStorage
    PROVE  IInv'
<1> USE SizesAssumption
    DEF IInv, TypeOK, DataBlocksKept, DataMountable, OnGrid, PlanFits,
        StorageComesLast, Contents, Steps
<1>1. CASE UseData        BY <1>1 DEF UseData
<1>2. CASE UseStorage     BY <1>2 DEF UseStorage
<1>3. CASE FormatStorage  BY <1>3 DEF FormatStorage
<1> QED BY <1>1, <1>2, <1>3

LEMMA NextPreserves == IInv /\ [Next]_vars => IInv'
<1> SUFFICES ASSUME IInv, [Next]_vars PROVE IInv'
    OBVIOUS
<1>1. CASE UNCHANGED vars
    BY <1>1 DEF vars, IInv, TypeOK, DataBlocksKept, DataMountable, OnGrid,
                PlanFits, StorageComesLast
<1>2. CASE Next
    BY <1>2, BeginPreserves, ShrinkPreserves, MakeDataPreserves,
       ScriptPreserves, UsePreserves DEF Next
<1> QED BY <1>1, <1>2

\* The inductive invariant holds in every state of the script and the disk.
THEOREM Invariance == Spec => []IInv
BY InitEstablishes, NextPreserves, PTL DEF Spec

\* Every variable keeps its type: no step makes a partition that is larger
\* than the disk or a file system of no size.
THEOREM TypeCorrect == Spec => []TypeOK
<1>1. IInv => TypeOK  BY DEF IInv
<1> QED BY <1>1, Invariance, PTL

\* No interruption and no retry, with any size, gives a block of the user's
\* data to the storage partition.
THEOREM DataKept == Spec => []DataBlocksKept
<1>1. IInv => DataBlocksKept  BY DEF IInv
<1> QED BY <1>1, Invariance, PTL

\* Re-creating the data partition never cuts its file system, unless the
\* resize began when the partition was missing.
THEOREM Mountable == Spec => []DataMountable
<1>1. IInv => DataMountable  BY DEF IInv
<1> QED BY <1>1, Invariance, PTL
============================================================================
