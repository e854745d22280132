--------------------------- MODULE CondVarProofs ---------------------------
(***************************************************************************)
(* Proofs about CondVar, for any finite sets of consumers and producers,   *)
(* any bound on the items and any size of the counter.                     *)
(***************************************************************************)
EXTENDS CondVar, FiniteSetTheorems, TLAPS

(***************************************************************************)
(* What the properties need besides themselves.                            *)
(***************************************************************************)

\* Consumers and producers run their own code.
OwnPoints ==
    /\ \A c \in Consumers : pc[c] \in ConsumerPoints
    /\ \A p \in Producers : pc[p] \in ProducerPoints

\* The counter that a consumer has read is as many pulses ahead of the present
\* one as there were since (the pulses count down, modulo Modulus).
LagIsDistance ==
    \A c \in Consumers :
        /\ pc[c] \in Window => old[c] = value + lag[c] \/ old[c] = value + lag[c] - Modulus
        /\ pc[c] \in {"in", "read"} => lag[c] = 0

\* A consumer that decides to wait has seen no item, and holds the mutex until
\* it has read the counter and unlocked.
WaitsForFirstItem == \A c \in Consumers : pc[c] \in {"read", "unlock"} => items = 0

\* Producers that will change the counter, and consumers that will look again:
\* woken, or with a counter in hand that has changed.
Pending ==
    {p \in Producers : pc[p] \in {"in", "load", "cas"}}
        \cup {c \in Consumers : pc[c] \in {"in", "relock"} \/ (pc[c] \in Window /\ lag[c] > 0)}

\* ... and producers that have changed it and will wake a sleeper.
Helpers == Pending \cup {p \in Producers : pc[p] = "wake"}

\* There are enough of them for all items: for a consumer that is about to
\* sleep on an unchanged counter, and for one that sleeps.
ItemsCovered ==
    /\ (\E c \in Consumers : pc[c] = "fwait" /\ lag[c] = 0) => items <= Cardinality(Pending)
    /\ Sleepers # {} => items <= Cardinality(Helpers)

\* The inductive invariant.
IInv ==
    /\ TypeOK
    /\ OwnPoints
    /\ WaitReturnsLocked
    /\ LagIsDistance
    /\ NoPulseMissed
    /\ WaitsForFirstItem
    /\ ItemsCovered

USE CondAssumption DEF Threads, Window, Waiting, ConsumerPoints, ProducerPoints, Goto, Sleepers

-----------------------------------------------------------------------------
(* One pulse of the counter. *)

LEMMA PulseDown ==
    ASSUME NEW v \in 0 .. Modulus - 1
    PROVE  (v - 1) % Modulus = IF v = 0 THEN Modulus - 1 ELSE v - 1
<1>1. CASE v = 0
    BY <1>1, SMT
<1>2. CASE v # 0
    BY <1>2, SMT
<1> QED BY <1>1, <1>2
(***************************************************************************)
(* The facts that need no counting: types, the mutex, the distance.        *)
(***************************************************************************)
Basics == TypeOK /\ OwnPoints /\ WaitReturnsLocked /\ LagIsDistance /\ NoPulseMissed

LEMMA ConsumerBasics ==
    ASSUME IInv, NEW c \in Consumers,
           ConsumerStep(c) \/ LockToTest(c) \/ ExpiredBefore(c) \/ WaitEnds(c)
    PROVE  Basics'
<1> USE DEF IInv, Basics, TypeOK
<1>1. CASE LockToTest(c)
    <2>1. TypeOK' /\ OwnPoints'  BY <1>1 DEF LockToTest, OwnPoints
    <2>2. WaitReturnsLocked'  BY <1>1 DEF LockToTest, OwnPoints, WaitReturnsLocked
    <2>3. LagIsDistance' /\ NoPulseMissed'  BY <1>1 DEF LockToTest, OwnPoints, LagIsDistance, NoPulseMissed
    <2> QED BY <2>1, <2>2, <2>3
<1>2. CASE Take(c)
    <2>1. TypeOK' /\ OwnPoints'  BY <1>2 DEF Take, OwnPoints
    <2>2. WaitReturnsLocked'  BY <1>2 DEF Take, OwnPoints, WaitReturnsLocked
    <2>3. LagIsDistance' /\ NoPulseMissed'  BY <1>2 DEF Take, OwnPoints, LagIsDistance, NoPulseMissed
    <2> QED BY <2>1, <2>2, <2>3
<1>3. CASE CallWait(c)
    <2>1. TypeOK' /\ OwnPoints'  BY <1>3 DEF CallWait, OwnPoints
    <2>2. WaitReturnsLocked'  BY <1>3 DEF CallWait, OwnPoints, WaitReturnsLocked
    <2>3. LagIsDistance' /\ NoPulseMissed'  BY <1>3 DEF CallWait, OwnPoints, LagIsDistance, NoPulseMissed
    <2> QED BY <2>1, <2>2, <2>3
<1>4. CASE ExpiredBefore(c)
    <2>1. TypeOK' /\ OwnPoints'  BY <1>4 DEF ExpiredBefore, OwnPoints
    <2>2. WaitReturnsLocked'  BY <1>4 DEF ExpiredBefore, OwnPoints, WaitReturnsLocked
    <2>3. LagIsDistance' /\ NoPulseMissed'  BY <1>4 DEF ExpiredBefore, OwnPoints, LagIsDistance, NoPulseMissed
    <2> QED BY <2>1, <2>2, <2>3
<1>5. CASE ReadCounter(c)
    <2>1. TypeOK' /\ OwnPoints'  BY <1>5 DEF ReadCounter, OwnPoints
    <2>2. WaitReturnsLocked'  BY <1>5 DEF ReadCounter, OwnPoints, WaitReturnsLocked
    <2>3. LagIsDistance' /\ NoPulseMissed'  BY <1>5 DEF ReadCounter, OwnPoints, LagIsDistance, NoPulseMissed
    <2> QED BY <2>1, <2>2, <2>3
<1>6. CASE UnlockToWait(c)
    <2>1. TypeOK' /\ OwnPoints'  BY <1>6 DEF UnlockToWait, OwnPoints
    <2>2. WaitReturnsLocked'  BY <1>6 DEF UnlockToWait, OwnPoints, WaitReturnsLocked
    <2>3. LagIsDistance' /\ NoPulseMissed'  BY <1>6 DEF UnlockToWait, OwnPoints, LagIsDistance, NoPulseMissed
    <2> QED BY <2>1, <2>2, <2>3
<1>7. CASE FutexWait(c)
    <2>1. TypeOK' /\ OwnPoints'  BY <1>7 DEF FutexWait, OwnPoints
    <2>2. WaitReturnsLocked'  BY <1>7 DEF FutexWait, OwnPoints, WaitReturnsLocked
    <2>3. LagIsDistance' /\ NoPulseMissed'  BY <1>7 DEF FutexWait, OwnPoints, LagIsDistance, NoPulseMissed
    <2> QED BY <2>1, <2>2, <2>3
<1>8. CASE WaitEnds(c)
    <2>1. TypeOK' /\ OwnPoints'  BY <1>8 DEF WaitEnds, OwnPoints
    <2>2. WaitReturnsLocked'  BY <1>8 DEF WaitEnds, OwnPoints, WaitReturnsLocked
    <2>3. LagIsDistance' /\ NoPulseMissed'  BY <1>8 DEF WaitEnds, OwnPoints, LagIsDistance, NoPulseMissed
    <2> QED BY <2>1, <2>2, <2>3
<1> QED BY <1>1, <1>2, <1>3, <1>4, <1>5, <1>6, <1>7, <1>8 DEF ConsumerStep

LEMMA ProducerBasics ==
    ASSUME IInv, NEW p \in Producers, LockToMake(p) \/ ProducerStep(p)
    PROVE  Basics'
<1> USE DEF IInv, Basics, TypeOK
<1>1. CASE LockToMake(p)
    <2>1. TypeOK' /\ OwnPoints'  BY <1>1 DEF LockToMake, OwnPoints
    <2>2. WaitReturnsLocked'  BY <1>1 DEF LockToMake, OwnPoints, WaitReturnsLocked
    <2>3. LagIsDistance' /\ NoPulseMissed'  BY <1>1 DEF LockToMake, OwnPoints, LagIsDistance, NoPulseMissed
    <2> QED BY <2>1, <2>2, <2>3
<1>2. CASE UnlockFirst(p)
    <2>1. TypeOK' /\ OwnPoints'  BY <1>2 DEF UnlockFirst, OwnPoints
    <2>2. WaitReturnsLocked'  BY <1>2 DEF UnlockFirst, OwnPoints, WaitReturnsLocked
    <2>3. LagIsDistance' /\ NoPulseMissed'  BY <1>2 DEF UnlockFirst, OwnPoints, LagIsDistance, NoPulseMissed
    <2> QED BY <2>1, <2>2, <2>3
<1>3. CASE AnnounceFirst(p)
    <2>1. TypeOK' /\ OwnPoints'  BY <1>3 DEF AnnounceFirst, OwnPoints
    <2>2. WaitReturnsLocked'  BY <1>3 DEF AnnounceFirst, OwnPoints, WaitReturnsLocked
    <2>3. LagIsDistance' /\ NoPulseMissed'  BY <1>3 DEF AnnounceFirst, OwnPoints, LagIsDistance, NoPulseMissed
    <2> QED BY <2>1, <2>2, <2>3
<1>4. CASE LoadCounter(p)
    <2>1. TypeOK' /\ OwnPoints'  BY <1>4 DEF LoadCounter, OwnPoints
    <2>2. WaitReturnsLocked'  BY <1>4 DEF LoadCounter, OwnPoints, WaitReturnsLocked
    <2>3. LagIsDistance' /\ NoPulseMissed'  BY <1>4 DEF LoadCounter, OwnPoints, LagIsDistance, NoPulseMissed
    <2> QED BY <2>1, <2>2, <2>3
<1>5. CASE PulseCounter(p)
    <2>1. CASE value # old[p] /\ UNCHANGED <<value, lag>>
        BY <1>5, <2>1 DEF PulseCounter, OwnPoints, WaitReturnsLocked, LagIsDistance, NoPulseMissed
    <2>2. CASE /\ PulseAllowed
               /\ value' = (value - 1) % Modulus
               /\ lag' = [c \in Consumers |-> IF pc[c] \in Window THEN lag[c] + 1 ELSE lag[c]]
               /\ Goto(p, "wake")
        <3>1. value' = IF value = 0 THEN Modulus - 1 ELSE value - 1  BY <2>2, PulseDown
        <3>2. value' \in 0 .. Modulus - 1  BY <3>1
        <3>3. lag' \in [Consumers -> 0 .. Modulus - 1]  BY <2>2 DEF PulseAllowed
        <3>4. TypeOK' /\ OwnPoints'
              BY <1>5, <2>2, <3>2, <3>3 DEF PulseCounter, OwnPoints
        <3>5. WaitReturnsLocked'
              BY <1>5, <2>2 DEF PulseCounter, OwnPoints, WaitReturnsLocked
        <3>6. \A c \in Consumers : pc'[c] = pc[c] /\ old'[c] = old[c]
              BY <1>5, <2>2 DEF PulseCounter
        <3>7. \A c \in Consumers : lag'[c] = IF pc[c] \in Window THEN lag[c] + 1 ELSE lag[c]
              BY <2>2
        <3>8. LagIsDistance'  BY <3>1, <3>6, <3>7 DEF LagIsDistance
        <3>9. NoPulseMissed'  BY <3>6, <3>7 DEF NoPulseMissed
        <3> QED BY <3>4, <3>5, <3>8, <3>9
    <2> QED BY <1>5, <2>1, <2>2 DEF PulseCounter
<1>6. CASE FutexWake(p)
    <2>1. TypeOK' /\ OwnPoints'  BY <1>6 DEF FutexWake, OwnPoints
    <2>2. WaitReturnsLocked'  BY <1>6 DEF FutexWake, OwnPoints, WaitReturnsLocked
    <2>3. LagIsDistance' /\ NoPulseMissed'  BY <1>6 DEF FutexWake, OwnPoints, LagIsDistance, NoPulseMissed
    <2> QED BY <2>1, <2>2, <2>3
<1>7. CASE Leave(p)
    <2>1. TypeOK' /\ OwnPoints'  BY <1>7 DEF Leave, OwnPoints
    <2>2. WaitReturnsLocked'  BY <1>7 DEF Leave, OwnPoints, WaitReturnsLocked
    <2>3. LagIsDistance' /\ NoPulseMissed'  BY <1>7 DEF Leave, OwnPoints, LagIsDistance, NoPulseMissed
    <2> QED BY <2>1, <2>2, <2>3
<1> QED BY <1>1, <1>2, <1>3, <1>4, <1>5, <1>6, <1>7 DEF ProducerStep
(***************************************************************************)
(* Counting: how the two sets change, and what that does to their size.    *)
(***************************************************************************)
LEMMA SetsAreFinite ==
    ASSUME NEW S, S \subseteq Threads
    PROVE  IsFiniteSet(S) /\ Cardinality(S) \in Nat
BY FS_Subset, FS_CardinalityType

LEMMA LargerSet ==
    ASSUME NEW S, NEW T, S \subseteq T, T \subseteq Threads
    PROVE  Cardinality(S) <= Cardinality(T)
BY SetsAreFinite, FS_Subset

LEMMA OneMore ==
    ASSUME NEW S, NEW t \in Threads, S \subseteq Threads, t \notin S
    PROVE  Cardinality(S \cup {t}) = Cardinality(S) + 1
BY SetsAreFinite, FS_AddElement

LEMMA OneLess ==
    ASSUME NEW S, NEW t \in S, S \subseteq Threads
    PROVE  Cardinality(S \ {t}) = Cardinality(S) - 1
BY SetsAreFinite, FS_RemoveElement
LEMMA HelpersAreThreads == Pending \subseteq Threads /\ Helpers \subseteq Threads
BY DEF Pending, Helpers

LEMMA HelpersAreThreadsNext == Pending' \subseteq Threads /\ Helpers' \subseteq Threads
BY DEF Pending, Helpers

\* A step that takes nobody out of the two sets, makes no item, and lets no
\* consumer fall asleep or unlock on the way to sleep.
LEMMA MoreHelpersCover ==
    ASSUME IInv, TypeOK', items' = items,
           Pending \subseteq Pending', Helpers \subseteq Helpers',
           \A c \in Consumers : pc'[c] = "fwait" /\ lag'[c] = 0 => pc[c] = "fwait" /\ lag[c] = 0,
           Sleepers' \subseteq Sleepers
    PROVE  ItemsCovered'
<1>1. /\ Cardinality(Pending) <= Cardinality(Pending')
      /\ Cardinality(Helpers) <= Cardinality(Helpers')
    BY LargerSet, HelpersAreThreadsNext
<1>2. /\ Cardinality(Pending) \in Nat /\ Cardinality(Pending') \in Nat
      /\ Cardinality(Helpers) \in Nat /\ Cardinality(Helpers') \in Nat
    BY SetsAreFinite, HelpersAreThreads, HelpersAreThreadsNext
<1> QED BY <1>1, <1>2 DEF IInv, TypeOK, ItemsCovered

LEMMA NoItemsCovered == ASSUME items' = 0 PROVE ItemsCovered'
<1>1. Cardinality(Pending') \in Nat /\ Cardinality(Helpers') \in Nat
    BY SetsAreFinite, HelpersAreThreadsNext
<1> QED BY <1>1 DEF ItemsCovered

LEMMA ConsumerItems ==
    ASSUME IInv, TypeOK', NEW c \in Consumers,
           ConsumerStep(c) \/ LockToTest(c) \/ ExpiredBefore(c) \/ WaitEnds(c)
    PROVE  WaitsForFirstItem' /\ ItemsCovered'
<1> USE DEF IInv, TypeOK
<1>1. CASE LockToTest(c)
    <2>1. WaitsForFirstItem'  BY <1>1 DEF LockToTest, WaitsForFirstItem
    <2>2. Pending \subseteq Pending' /\ Helpers \subseteq Helpers'
          BY <1>1 DEF LockToTest, Pending, Helpers
    <2>3. ItemsCovered'  BY <1>1, <2>2, MoreHelpersCover DEF LockToTest
    <2> QED BY <2>1, <2>3
<1>2. CASE Take(c)
    \* The taker was a helper itself: one item less, one helper less.
    <2>1. c \in Pending /\ c \in Helpers  BY <1>2 DEF Take, Pending, Helpers
    <2>2. Pending' = Pending \ {c} /\ Helpers' = Helpers \ {c}
          BY <1>2 DEF Take, Pending, Helpers
    <2>3. /\ Cardinality(Pending') = Cardinality(Pending) - 1
          /\ Cardinality(Helpers') = Cardinality(Helpers) - 1
          BY <2>1, <2>2, OneLess, HelpersAreThreads
    <2>4. Cardinality(Pending) \in Nat /\ Cardinality(Helpers) \in Nat
          BY SetsAreFinite, HelpersAreThreads
    <2>5. ItemsCovered'  BY <1>2, <2>3, <2>4 DEF Take, ItemsCovered
    <2>6. WaitsForFirstItem'  BY <1>2 DEF Take, WaitsForFirstItem, WaitReturnsLocked
    <2> QED BY <2>5, <2>6
<1>3. CASE CallWait(c) \/ ExpiredBefore(c) \/ ReadCounter(c) \/ UnlockToWait(c)
    \* There is no item, and none is made.
    <2>1. items' = 0
          BY <1>3 DEF CallWait, ExpiredBefore, ReadCounter, UnlockToWait, WaitsForFirstItem
    <2> QED BY <2>1, NoItemsCovered DEF WaitsForFirstItem
<1>4. CASE FutexWait(c)
    <2>1. WaitsForFirstItem'  BY <1>4 DEF FutexWait, WaitsForFirstItem
    <2>2. CASE value = old[c]
        \* No pulse since the read: the pending ones cover the items.
        <3>1. lag[c] = 0  BY <1>4, <2>2 DEF FutexWait, LagIsDistance
        <3>2. items <= Cardinality(Pending)
              BY <1>4, <3>1 DEF FutexWait, ItemsCovered
        <3>3. Pending' = Pending /\ Helpers' = Helpers
              BY <1>4, <2>2, <3>1 DEF FutexWait, Pending, Helpers
        <3>4. Cardinality(Pending) <= Cardinality(Helpers)
              BY LargerSet, HelpersAreThreads DEF Helpers
        <3>5. Cardinality(Pending) \in Nat /\ Cardinality(Helpers) \in Nat
              BY SetsAreFinite, HelpersAreThreads
        <3>6. items' = items  BY <1>4 DEF FutexWait
        <3> QED BY <2>1, <3>2, <3>3, <3>4, <3>5, <3>6 DEF ItemsCovered
    <2>3. CASE value # old[c]
        <3>1. lag[c] > 0  BY <1>4, <2>3 DEF FutexWait, LagIsDistance
        <3>2. Pending' = Pending /\ Helpers' = Helpers
              BY <1>4, <2>3, <3>1 DEF FutexWait, Pending, Helpers
        <3>3. ItemsCovered'  BY <1>4, <2>3, <3>2, MoreHelpersCover DEF FutexWait
        <3> QED BY <2>1, <3>3
    <2> QED BY <2>2, <2>3
<1>5. CASE WaitEnds(c)
    <2>1. WaitsForFirstItem'  BY <1>5 DEF WaitEnds, WaitsForFirstItem
    <2>2. Pending \subseteq Pending' /\ Helpers \subseteq Helpers'
          BY <1>5 DEF WaitEnds, Pending, Helpers
    <2>3. ItemsCovered'  BY <1>5, <2>2, MoreHelpersCover DEF WaitEnds
    <2> QED BY <2>1, <2>3
<1> QED BY <1>1, <1>2, <1>3, <1>4, <1>5 DEF ConsumerStep

LEMMA ProducerItems ==
    ASSUME IInv, TypeOK', NEW p \in Producers, LockToMake(p) \/ ProducerStep(p)
    PROVE  WaitsForFirstItem' /\ ItemsCovered'
<1> USE DEF IInv, TypeOK
<1>1. CASE LockToMake(p)
    \* The maker joins the helpers, and nobody holds the mutex to wait.
    <2>1. p \notin Pending /\ p \notin Helpers
          BY <1>1 DEF LockToMake, Pending, Helpers
    <2>2. Pending' = Pending \cup {p} /\ Helpers' = Helpers \cup {p}
          BY <1>1 DEF LockToMake, Pending, Helpers
    <2>3. /\ Cardinality(Pending') = Cardinality(Pending) + 1
          /\ Cardinality(Helpers') = Cardinality(Helpers) + 1
          BY <2>1, <2>2, OneMore, HelpersAreThreads
    <2>4. Cardinality(Pending) \in Nat /\ Cardinality(Helpers) \in Nat
          BY SetsAreFinite, HelpersAreThreads
    <2>5. ItemsCovered'  BY <1>1, <2>3, <2>4 DEF LockToMake, ItemsCovered
    <2>6. WaitsForFirstItem'
          BY <1>1 DEF LockToMake, WaitsForFirstItem, WaitReturnsLocked
    <2> QED BY <2>5, <2>6
<1>2. CASE UnlockFirst(p) \/ AnnounceFirst(p) \/ LoadCounter(p) \/ Leave(p)
    <2>1. WaitsForFirstItem'
          BY <1>2 DEF UnlockFirst, AnnounceFirst, LoadCounter, Leave, WaitsForFirstItem
    <2>2. Pending \subseteq Pending' /\ Helpers \subseteq Helpers'
          BY <1>2 DEF UnlockFirst, AnnounceFirst, LoadCounter, Leave, Pending, Helpers
    <2>3. ItemsCovered'
          BY <1>2, <2>2, MoreHelpersCover DEF UnlockFirst, AnnounceFirst, LoadCounter, Leave
    <2> QED BY <2>1, <2>3
<1>3. CASE PulseCounter(p)
    <2>1. WaitsForFirstItem'  BY <1>3 DEF PulseCounter, WaitsForFirstItem
    <2>2. CASE value # old[p] /\ Goto(p, "load") /\ UNCHANGED <<value, lag>>
        <3>1. Pending \subseteq Pending' /\ Helpers \subseteq Helpers'
              BY <1>3, <2>2 DEF PulseCounter, Pending, Helpers
        <3>2. ItemsCovered'  BY <1>3, <2>2, <3>1, MoreHelpersCover DEF PulseCounter
        <3> QED BY <2>1, <3>2
    <2>3. CASE /\ lag' = [c \in Consumers |-> IF pc[c] \in Window THEN lag[c] + 1 ELSE lag[c]]
               /\ Goto(p, "wake")
        \* p stays a helper; whoever was about to sleep will look again.
        <3>1. \A c \in Consumers : pc'[c] = pc[c]  BY <1>3, <2>3 DEF PulseCounter
        <3>2. \A c \in Consumers : pc[c] \in Window => lag'[c] > 0  BY <2>3
        <3>3. Helpers \subseteq Helpers'
              BY <1>3, <2>3, <3>2 DEF PulseCounter, Pending, Helpers
        <3>4. Cardinality(Helpers) <= Cardinality(Helpers')
              BY <3>3, LargerSet, HelpersAreThreadsNext
        <3>5. Cardinality(Helpers) \in Nat /\ Cardinality(Helpers') \in Nat
              BY SetsAreFinite, HelpersAreThreads, HelpersAreThreadsNext
        <3>6. items' = items  BY <1>3 DEF PulseCounter
        <3>7. ItemsCovered'  BY <3>1, <3>2, <3>4, <3>5, <3>6 DEF ItemsCovered
        <3> QED BY <2>1, <3>7
    <2> QED BY <1>3, <2>2, <2>3 DEF PulseCounter
<1>4. CASE FutexWake(p)
    <2>1. WaitsForFirstItem'  BY <1>4 DEF FutexWake, WaitsForFirstItem, OwnPoints
    <2>2. Pending \subseteq Pending'  BY <1>4 DEF FutexWake, Pending, OwnPoints
    <2>3. Cardinality(Pending) <= Cardinality(Pending')
          BY <2>2, LargerSet, HelpersAreThreadsNext
    <2>4. /\ Cardinality(Pending) \in Nat /\ Cardinality(Pending') \in Nat
          /\ Cardinality(Helpers) \in Nat /\ Cardinality(Helpers') \in Nat
          BY SetsAreFinite, HelpersAreThreads, HelpersAreThreadsNext
    <2>5. items' = items /\ lag' = lag  BY <1>4 DEF FutexWake
    <2>6. CASE pc' = [t \in Threads |-> IF t = p THEN "leave"
                                       ELSE IF t \in Sleepers THEN "relock" ELSE pc[t]]
        <3>1. Sleepers' = {}  BY <2>6
        <3>2. \A c \in Consumers : pc'[c] = "fwait" => pc[c] = "fwait"  BY <2>6
        <3> QED BY <2>1, <2>3, <2>4, <2>5, <3>1, <3>2 DEF ItemsCovered
    <2>7. CASE \E c \in Sleepers : pc' = [pc EXCEPT ![p] = "leave", ![c] = "relock"]
        \* The waker hands its part to the sleeper it wakes.
        <3>1. PICK c \in Sleepers : pc' = [pc EXCEPT ![p] = "leave", ![c] = "relock"]
              BY <2>7
        <3>2. p \in Helpers /\ c \notin Helpers /\ c # p /\ c \in Threads
              BY <1>4, <3>1 DEF FutexWake, Helpers, Pending
        <3>3. Helpers' = (Helpers \ {p}) \cup {c}
              BY <1>4, <3>1, <3>2 DEF FutexWake, Helpers, Pending
        <3>4. Cardinality(Helpers \ {p}) = Cardinality(Helpers) - 1
              BY <3>2, OneLess, HelpersAreThreads
        <3>5. Cardinality(Helpers') = Cardinality(Helpers \ {p}) + 1
              BY <3>2, <3>3, OneMore, HelpersAreThreads
        <3>6. Cardinality(Helpers') = Cardinality(Helpers)  BY <2>4, <3>4, <3>5
        <3>7. \A d \in Consumers : pc'[d] = "fwait" => pc[d] = "fwait"  BY <3>1
        <3> QED BY <2>1, <2>3, <2>4, <2>5, <3>1, <3>6, <3>7 DEF ItemsCovered
    <2> QED BY <1>4, <2>6, <2>7 DEF FutexWake
<1> QED BY <1>1, <1>2, <1>3, <1>4 DEF ProducerStep
LEMMA InitEstablishes == Init => IInv
<1> SUFFICES ASSUME Init PROVE IInv
    OBVIOUS
<1>1. TypeOK /\ OwnPoints /\ WaitReturnsLocked  BY DEF Init, TypeOK, OwnPoints, WaitReturnsLocked
<1>2. LagIsDistance /\ NoPulseMissed /\ WaitsForFirstItem
      BY DEF Init, LagIsDistance, NoPulseMissed, WaitsForFirstItem
<1>3. ItemsCovered  BY DEF Init, ItemsCovered
<1> QED BY <1>1, <1>2, <1>3 DEF IInv

LEMMA NextPreserves == IInv /\ [Next]_vars => IInv'
<1> SUFFICES ASSUME IInv, [Next]_vars PROVE IInv'
    OBVIOUS
<1>1. CASE UNCHANGED vars
    BY <1>1 DEF vars, IInv, TypeOK, OwnPoints, WaitReturnsLocked, LagIsDistance,
                NoPulseMissed, WaitsForFirstItem, ItemsCovered, Pending, Helpers
<1>2. CASE \E c \in Consumers :
                ConsumerStep(c) \/ LockToTest(c) \/ ExpiredBefore(c) \/ WaitEnds(c)
    <2>1. Basics'  BY <1>2, ConsumerBasics
    <2>2. WaitsForFirstItem' /\ ItemsCovered'  BY <1>2, <2>1, ConsumerItems DEF Basics
    <2> QED BY <2>1, <2>2 DEF IInv, Basics
<1>3. CASE \E p \in Producers : LockToMake(p) \/ ProducerStep(p)
    <2>1. Basics'  BY <1>3, ProducerBasics
    <2>2. WaitsForFirstItem' /\ ItemsCovered'  BY <1>3, <2>1, ProducerItems DEF Basics
    <2> QED BY <2>1, <2>2 DEF IInv, Basics
<1> QED BY <1>1, <1>2, <1>3 DEF Next

-----------------------------------------------------------------------------
\* The inductive invariant holds of every reachable state.
THEOREM Invariance == Spec => []IInv
BY InitEstablishes, NextPreserves, PTL DEF Spec

\* Every variable keeps its type: the counter of __pthread_cond_pulse stays
\* within its bits.
THEOREM TypeCorrect == Spec => []TypeOK
<1>1. IInv => TypeOK  BY DEF IInv
<1> QED BY <1>1, Invariance, PTL

\* pthread_cond_wait and the timed waits return with the mutex locked, also
\* when they return at once, are interrupted or run into their time limit.
THEOREM ReturnsLocked == Spec => []WaitReturnsLocked
<1>1. IInv => WaitReturnsLocked  BY DEF IInv
<1> QED BY <1>1, Invariance, PTL

\* The counter that __pthread_cond_timedwait_relative reads before it unlocks
\* the mutex tells about every pulse before the sleep, for a counter of any
\* size, as long as there are fewer pulses than the counter has values.
THEOREM EveryPulseSeen == Spec => []NoPulseMissed
<1>1. IInv => NoPulseMissed  BY DEF IInv
<1> QED BY <1>1, Invariance, PTL

\* With one signal for every item no item is left to sleepers alone: the
\* items are covered by producers on their way to a pulse or a wake and by
\* consumers on their way to a look.
THEOREM NoSleepOnItems == Spec => []NobodySleepsOnItems
<1>1. IInv => NobodySleepsOnItems
    <2> SUFFICES ASSUME IInv, items > 0, Sleepers # {}
                 PROVE  \/ \E p \in Producers : pc[p] # "out"
                        \/ \E c \in Consumers : pc[c] \notin {"asleep", "out"}
        BY DEF NobodySleepsOnItems
    <2>1. items <= Cardinality(Helpers)  BY DEF IInv, ItemsCovered
    <2>2. Cardinality({}) = 0  BY FS_EmptySet
    <2>3. Helpers # {}  BY <2>1, <2>2 DEF IInv, TypeOK
    <2> QED BY <2>3 DEF Helpers, Pending
<1> QED BY <1>1, Invariance, PTL
============================================================================
