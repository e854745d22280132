------------------------- MODULE NormalMutexProofs -------------------------
(***************************************************************************)
(* Proofs about NormalMutex, for every set of threads and every choice of  *)
(* the locking functions they call.                                        *)
(***************************************************************************)
EXTENDS NormalMutex, TLAPS

\* The points and the words are finite sets of literals: always expanded.
USE DEF Unlocked, Uncontended, Contended, Dead,
        LockPoints, UnlockPoints, DestroyPoints, Points, AllCalls,
        Holds, Goto, Cmpxchg

LEMMA InitEstablishes == Init => IInv
BY DEF Init, IInv, TypeOK, MutualExclusion, WordTellsHolder, NobodyOrphaned,
       DeadIsQuiet, DestroyIsAlone, OnlyTimedChecks

(***************************************************************************)
(* Steps that leave the word alone and neither give nor take the mutex:    *)
(* only NobodyOrphaned (a thread falls asleep, wakes or stops being the    *)
(* one who will wake) and the two facts about destroy need an argument.    *)
(***************************************************************************)
LEMMA QuietStepsPreserve ==
    ASSUME IInv, NEW t \in Threads,
           \/ Enter(t) \/ Expire(t) \/ CheckTime(t) \/ FutexWait(t)
           \/ Interrupted(t) \/ WaitTimeout(t) \/ EnterUnlock(t)
           \/ FutexWake(t) \/ EnterDestroy(t)
    PROVE  IInv'
<1> USE DEF IInv, TypeOK
<1>1. CASE Enter(t)
    <2>1. TypeOK'           BY <1>1, CallsAssumption DEF Enter
    <2>2. MutualExclusion' /\ WordTellsHolder'
          BY <1>1 DEF Enter, MutualExclusion, WordTellsHolder
    <2>3. NobodyOrphaned'   BY <1>1 DEF Enter, NobodyOrphaned
    <2>4. DeadIsQuiet' /\ DestroyIsAlone' /\ OnlyTimedChecks'
          BY <1>1 DEF Enter, DeadIsQuiet, DestroyIsAlone, OnlyTimedChecks
    <2> QED BY <2>1, <2>2, <2>3, <2>4
<1>2. CASE Expire(t)
    BY <1>2 DEF Expire, MutualExclusion, WordTellsHolder, NobodyOrphaned,
                DeadIsQuiet, DestroyIsAlone, OnlyTimedChecks
<1>3. CASE CheckTime(t)
    <2>1. TypeOK' /\ MutualExclusion' /\ WordTellsHolder'
          BY <1>3 DEF CheckTime, MutualExclusion, WordTellsHolder
    <2>2. NobodyOrphaned'   BY <1>3 DEF CheckTime, NobodyOrphaned
    <2>3. DeadIsQuiet' /\ DestroyIsAlone' /\ OnlyTimedChecks'
          BY <1>3 DEF CheckTime, DeadIsQuiet, DestroyIsAlone, OnlyTimedChecks
    <2> QED BY <2>1, <2>2, <2>3
<1>4. CASE FutexWait(t)
    \* A thread falls asleep only on a word that is 2.
    <2>1. TypeOK' /\ MutualExclusion' /\ WordTellsHolder'
          BY <1>4 DEF FutexWait, MutualExclusion, WordTellsHolder
    <2>2. NobodyOrphaned'   BY <1>4 DEF FutexWait, NobodyOrphaned
    <2>3. DeadIsQuiet' /\ DestroyIsAlone' /\ OnlyTimedChecks'
          BY <1>4 DEF FutexWait, DeadIsQuiet, DestroyIsAlone, OnlyTimedChecks
    <2> QED BY <2>1, <2>2, <2>3
<1>5. CASE Interrupted(t) \/ WaitTimeout(t)
    <2>1. TypeOK' /\ MutualExclusion' /\ WordTellsHolder'
          BY <1>5 DEF Interrupted, WaitTimeout, MutualExclusion, WordTellsHolder
    <2>2. NobodyOrphaned'   BY <1>5 DEF Interrupted, WaitTimeout, NobodyOrphaned
    <2>3. DeadIsQuiet' /\ DestroyIsAlone' /\ OnlyTimedChecks'
          BY <1>5 DEF Interrupted, WaitTimeout, DeadIsQuiet, DestroyIsAlone, OnlyTimedChecks
    <2> QED BY <2>1, <2>2, <2>3
<1>6. CASE EnterUnlock(t)
    <2>1. TypeOK' /\ MutualExclusion' /\ WordTellsHolder'
          BY <1>6 DEF EnterUnlock, MutualExclusion, WordTellsHolder
    <2>2. NobodyOrphaned'   BY <1>6 DEF EnterUnlock, NobodyOrphaned
    <2>3. DeadIsQuiet' /\ DestroyIsAlone' /\ OnlyTimedChecks'
          BY <1>6 DEF EnterUnlock, DeadIsQuiet, DestroyIsAlone, OnlyTimedChecks
    <2> QED BY <2>1, <2>2, <2>3
<1>7. CASE FutexWake(t)
    \* The waker stops being a witness; the sleeper it wakes becomes one.
    <2>1. TypeOK' /\ MutualExclusion' /\ WordTellsHolder'
          BY <1>7 DEF FutexWake, MutualExclusion, WordTellsHolder
    <2>2. NobodyOrphaned'   BY <1>7 DEF FutexWake, NobodyOrphaned
    <2>3. DeadIsQuiet' /\ DestroyIsAlone' /\ OnlyTimedChecks'
          BY <1>7 DEF FutexWake, DeadIsQuiet, DestroyIsAlone, OnlyTimedChecks
    <2> QED BY <2>1, <2>2, <2>3
<1>8. CASE EnterDestroy(t)
    <2>1. TypeOK' /\ MutualExclusion' /\ WordTellsHolder'
          BY <1>8 DEF EnterDestroy, MutualExclusion, WordTellsHolder
    <2>2. NobodyOrphaned'   BY <1>8 DEF EnterDestroy, NobodyOrphaned
    <2>3. DeadIsQuiet' /\ DestroyIsAlone' /\ OnlyTimedChecks'
          BY <1>8 DEF EnterDestroy, DeadIsQuiet, DestroyIsAlone, OnlyTimedChecks
    <2> QED BY <2>1, <2>2, <2>3
<1> QED BY <1>1, <1>2, <1>3, <1>4, <1>5, <1>6, <1>7, <1>8

(***************************************************************************)
(* Steps that write the word.  An acquisition needs that a free word means *)
(* no holder; a release needs that the releaser is the only holder; the    *)
(* writes of a destroy need that nobody else is near the mutex.            *)
(***************************************************************************)
LEMMA WordStepsPreserve ==
    ASSUME IInv, NEW t \in Threads,
           \/ FastPath(t) \/ Swap(t) \/ AtomicDec(t) \/ StoreUnlocked(t)
           \/ DestroyTrylock(t) \/ DestroyStore(t) \/ MutexInit(t)
    PROVE  IInv'
<1> USE DEF IInv, TypeOK
<1>1. CASE FastPath(t)
    <2>1. TypeOK'           BY <1>1 DEF FastPath
    <2>2. MutualExclusion' /\ WordTellsHolder'
          BY <1>1 DEF FastPath, MutualExclusion, WordTellsHolder
    <2>3. NobodyOrphaned'   BY <1>1 DEF FastPath, NobodyOrphaned
    <2>4. DeadIsQuiet' /\ DestroyIsAlone' /\ OnlyTimedChecks'
          BY <1>1 DEF FastPath, DeadIsQuiet, DestroyIsAlone, OnlyTimedChecks
    <2> QED BY <2>1, <2>2, <2>3, <2>4
<1>2. CASE Swap(t)
    <2>1. TypeOK'           BY <1>2 DEF Swap
    <2>2. MutualExclusion'  BY <1>2 DEF Swap, MutualExclusion, WordTellsHolder
    <2>3. WordTellsHolder'  BY <1>2 DEF Swap, WordTellsHolder, DeadIsQuiet
    <2>4. NobodyOrphaned'   BY <1>2 DEF Swap, NobodyOrphaned
    <2>5. DeadIsQuiet' /\ DestroyIsAlone' /\ OnlyTimedChecks'
          BY <1>2 DEF Swap, DeadIsQuiet, DestroyIsAlone, OnlyTimedChecks
    <2> QED BY <2>1, <2>2, <2>3, <2>4, <2>5
<1>3. CASE AtomicDec(t)
    \* t holds, so the word is 1 or 2 and the decrement gives 0 or 1.
    <2>1. value \in {Uncontended, Contended}  BY <1>3 DEF AtomicDec, WordTellsHolder
    <2>2. TypeOK'           BY <1>3, <2>1 DEF AtomicDec
    <2>3. MutualExclusion' /\ WordTellsHolder'
          BY <1>3, <2>1 DEF AtomicDec, MutualExclusion, WordTellsHolder
    <2>4. NobodyOrphaned'   BY <1>3, <2>1 DEF AtomicDec, NobodyOrphaned
    <2>5. DeadIsQuiet' /\ DestroyIsAlone' /\ OnlyTimedChecks'
          BY <1>3, <2>1 DEF AtomicDec, DeadIsQuiet, DestroyIsAlone, OnlyTimedChecks
    <2> QED BY <2>2, <2>3, <2>4, <2>5
<1>4. CASE StoreUnlocked(t)
    <2>1. TypeOK'           BY <1>4 DEF StoreUnlocked
    <2>2. MutualExclusion' /\ WordTellsHolder'
          BY <1>4 DEF StoreUnlocked, MutualExclusion, WordTellsHolder
    <2>3. NobodyOrphaned'   BY <1>4 DEF StoreUnlocked, NobodyOrphaned
    <2>4. DeadIsQuiet' /\ DestroyIsAlone' /\ OnlyTimedChecks'
          BY <1>4 DEF StoreUnlocked, DeadIsQuiet, DestroyIsAlone, OnlyTimedChecks
    <2> QED BY <2>1, <2>2, <2>3, <2>4
<1>5. CASE DestroyTrylock(t)
    <2>1. TypeOK'           BY <1>5 DEF DestroyTrylock
    <2>2. MutualExclusion' /\ WordTellsHolder'
          BY <1>5 DEF DestroyTrylock, MutualExclusion, WordTellsHolder
    <2>3. NobodyOrphaned'   BY <1>5 DEF DestroyTrylock, NobodyOrphaned
    <2>4. DeadIsQuiet' /\ DestroyIsAlone' /\ OnlyTimedChecks'
          BY <1>5 DEF DestroyTrylock, DeadIsQuiet, DestroyIsAlone, OnlyTimedChecks
    <2> QED BY <2>1, <2>2, <2>3, <2>4
<1>6. CASE DestroyStore(t)
    \* The others neither hold (t does) nor lock or destroy (t is alone).
    <2>1. \A u \in Threads \ {t} : pc[u] \in {"idle", "wake"}
          BY <1>6 DEF DestroyStore, MutualExclusion, DestroyIsAlone
    <2>2. TypeOK'           BY <1>6 DEF DestroyStore
    <2>3. MutualExclusion' /\ WordTellsHolder'
          BY <1>6, <2>1 DEF DestroyStore, MutualExclusion, WordTellsHolder
    <2>4. NobodyOrphaned'   BY <1>6, <2>1 DEF DestroyStore, NobodyOrphaned
    <2>5. DeadIsQuiet' /\ DestroyIsAlone' /\ OnlyTimedChecks'
          BY <1>6, <2>1 DEF DestroyStore, DeadIsQuiet, DestroyIsAlone, OnlyTimedChecks
    <2> QED BY <2>2, <2>3, <2>4, <2>5
<1>7. CASE MutexInit(t)
    <2>1. TypeOK' /\ MutualExclusion' /\ WordTellsHolder'
          BY <1>7 DEF MutexInit, MutualExclusion, WordTellsHolder, DeadIsQuiet
    <2>2. NobodyOrphaned' /\ DeadIsQuiet' /\ DestroyIsAlone' /\ OnlyTimedChecks'
          BY <1>7 DEF MutexInit, NobodyOrphaned, DeadIsQuiet, DestroyIsAlone, OnlyTimedChecks
    <2> QED BY <2>1, <2>2
<1> QED BY <1>1, <1>2, <1>3, <1>4, <1>5, <1>6, <1>7

LEMMA NextPreserves == IInv /\ [Next]_vars => IInv'
<1> SUFFICES ASSUME IInv, [Next]_vars PROVE IInv'
    OBVIOUS
<1>1. CASE UNCHANGED vars
    BY <1>1 DEF vars, IInv, TypeOK, MutualExclusion, WordTellsHolder,
                NobodyOrphaned, DeadIsQuiet, DestroyIsAlone, OnlyTimedChecks
<1>2. CASE Next
    BY <1>2, QuietStepsPreserve, WordStepsPreserve DEF Next, Step
<1> QED BY <1>1, <1>2

\* The inductive invariant holds of every reachable state.
THEOREM Invariance == Spec => []IInv
BY InitEstablishes, NextPreserves, PTL DEF Spec

\* Every variable keeps its type: no sequence of calls takes the word of a
\* normal mutex outside 0, 1, 2 and the mark of pthread_mutex_destroy.
THEOREM TypeCorrect == Spec => []TypeOK
<1>1. IInv => TypeOK  BY DEF IInv
<1> QED BY <1>1, Invariance, PTL

\* _normal_lock, the trylock and lock_timeout_np of a normal mutex never give
\* it to two threads.
THEOREM Exclusion == Spec => []MutualExclusion
<1>1. IInv => MutualExclusion  BY DEF IInv
<1> QED BY <1>1, Invariance, PTL

\* The word of a normal mutex always tells whether it is held, between the
\* decrement and the store of _normal_unlock too.
THEOREM WordTells == Spec => []WordTellsHolder
<1>1. IInv => WordTellsHolder  BY DEF IInv
<1> QED BY <1>1, Invariance, PTL

\* The claim in _normal_unlock's comment, for any number of threads and with
\* timed locks among them: nobody is orphaned on the wait queue.
THEOREM NoOrphan == Spec => []NobodyOrphaned
<1>1. IInv => NobodyOrphaned  BY DEF IInv
<1> QED BY <1>1, Invariance, PTL

\* After pthread_mutex_destroy only pthread_mutex_init writes the word, even
\* with threads that have not returned from pthread_mutex_unlock.
THEOREM DestroyFinal == Spec => DestroyedIsFinal
<1> DEFINE DeadStep == value = Dead => value' = Dead \/ \E t \in Threads : MutexInit(t)
<1>1. IInv /\ [Next]_vars => [DeadStep]_vars
    <2> SUFFICES ASSUME IInv, Next, value = Dead
                 PROVE  value' = Dead \/ \E t \in Threads : MutexInit(t)
        BY DEF vars
    <2>1. PICK t \in Threads :
            \/ Step(t)
            \/ Enter(t) \/ EnterUnlock(t) \/ EnterDestroy(t) \/ MutexInit(t)
            \/ Expire(t) \/ WaitTimeout(t) \/ Interrupted(t)
          BY DEF Next
    <2>2. pc[t] \in {"idle", "wake"}  BY DEF IInv, DeadIsQuiet
    <2>3. CASE Step(t)
          BY <2>2, <2>3 DEF Step, FastPath, Swap, CheckTime, FutexWait, AtomicDec,
                            StoreUnlocked, FutexWake, DestroyTrylock, DestroyStore
    <2>4. CASE ~ Step(t)
          BY <2>1, <2>4 DEF Enter, EnterUnlock, EnterDestroy, Expire, WaitTimeout, Interrupted
    <2> QED BY <2>3, <2>4
<1> QED BY <1>1, Invariance, PTL DEF Spec, DestroyedIsFinal

(***************************************************************************)
(* Refinement: a call is a request; the compare-and-exchange or swap that  *)
(* finds 0 acquires; the decrement from 1 and the store release; the rest  *)
(* of the library is invisible.                                            *)
(***************************************************************************)
LEMMA StepsRefine ==
    ASSUME IInv, NEW t \in Threads,
           \/ Step(t)
           \/ Enter(t) \/ EnterUnlock(t) \/ EnterDestroy(t) \/ MutexInit(t)
           \/ Expire(t) \/ WaitTimeout(t) \/ Interrupted(t)
    PROVE  [Abs!Next]_(Abs!vars)
<1> USE DEF IInv, TypeOK
<1>1. CASE Enter(t)
    <2>1. CASE call'[t] = "lock"
        <3>1. Abs!Lock(t)
              BY <1>1, <2>1 DEF Enter, Abs!Lock
        <3> QED BY <3>1 DEF Abs!Next
    <2>2. CASE call'[t] # "lock"
        <3>1. Abs!Try(t)
              BY <1>1, <2>2 DEF Enter, Abs!Try
        <3> QED BY <3>1 DEF Abs!Next
    <2> QED BY <2>1, <2>2
<1>2. CASE FastPath(t)
    <2>1. CASE value = Unlocked
        <3>1. Abs!Acquire(t)
              BY <1>2, <2>1 DEF FastPath, Abs!Acquire, WordTellsHolder
        <3> QED BY <3>1 DEF Abs!Next
    <2>2. CASE value # Unlocked /\ call[t] = "trylock"
        <3>1. Abs!GiveUp(t)
              BY <1>2, <2>2 DEF FastPath, Abs!GiveUp
        <3> QED BY <3>1 DEF Abs!Next
    <2>3. CASE value # Unlocked /\ call[t] # "trylock"
        BY <1>2, <2>3 DEF FastPath, Abs!vars
    <2> QED BY <2>1, <2>2, <2>3
<1>3. CASE Swap(t)
    <2>1. value # Dead  BY <1>3 DEF Swap, DeadIsQuiet
    <2>2. CASE value = Unlocked
        <3>1. Abs!Acquire(t)
              BY <1>3, <2>2 DEF Swap, Abs!Acquire, WordTellsHolder
        <3> QED BY <3>1 DEF Abs!Next
    <2>3. CASE value # Unlocked
        BY <1>3, <2>1, <2>3 DEF Swap, Abs!vars
    <2> QED BY <2>2, <2>3
<1>4. CASE CheckTime(t)
    <2>1. CASE expired[t] /\ call[t] # "lock"
        <3>1. Abs!GiveUp(t)
              BY <1>4, <2>1 DEF CheckTime, Abs!GiveUp
        <3> QED BY <3>1 DEF Abs!Next
    <2>2. CASE ~ expired[t]
        BY <1>4, <2>2 DEF CheckTime, Abs!vars
    <2> QED BY <1>4, <2>1, <2>2 DEF CheckTime, OnlyTimedChecks
<1>5. CASE FutexWait(t)
    BY <1>5 DEF FutexWait, Abs!vars
<1>6. CASE AtomicDec(t)
    <2>1. value \in {Uncontended, Contended}  BY <1>6 DEF AtomicDec, WordTellsHolder
    <2>2. CASE value = Uncontended
        <3>1. Abs!Release(t)
              BY <1>6, <2>2 DEF AtomicDec, Abs!Release
        <3> QED BY <3>1 DEF Abs!Next
    <2>3. CASE value = Contended
        BY <1>6, <2>3 DEF AtomicDec, Abs!vars
    <2> QED BY <2>1, <2>2, <2>3
<1>7. CASE StoreUnlocked(t)
    <2>1. Abs!Release(t)
          BY <1>7 DEF StoreUnlocked, Abs!Release, WordTellsHolder
    <2> QED BY <2>1 DEF Abs!Next
<1>8. CASE FutexWake(t)
    BY <1>8 DEF FutexWake, Abs!vars
<1>9. CASE DestroyTrylock(t)
    <2>1. CASE value = Unlocked
        <3>1. Abs!Acquire(t)
              BY <1>9, <2>1 DEF DestroyTrylock, Abs!Acquire, WordTellsHolder
        <3> QED BY <3>1 DEF Abs!Next
    <2>2. CASE value # Unlocked
        <3>1. Abs!GiveUp(t)
              BY <1>9, <2>2 DEF DestroyTrylock, Abs!GiveUp
        <3> QED BY <3>1 DEF Abs!Next
    <2> QED BY <2>1, <2>2
<1>10. CASE DestroyStore(t)
    <2>1. Abs!Destroy(t)
          BY <1>10 DEF DestroyStore, Abs!Destroy, MutualExclusion, DestroyIsAlone
    <2> QED BY <2>1 DEF Abs!Next
<1>11. CASE EnterUnlock(t)
    BY <1>11 DEF EnterUnlock, Abs!vars
<1>12. CASE EnterDestroy(t)
    <2>1. Abs!Try(t)
          BY <1>12 DEF EnterDestroy, Abs!Try
    <2> QED BY <2>1 DEF Abs!Next
<1>13. CASE MutexInit(t)
    <2>1. Abs!Reinit
          BY <1>13 DEF MutexInit, Abs!Reinit
    <2> QED BY <2>1 DEF Abs!Next
<1>14. CASE Expire(t) \/ WaitTimeout(t) \/ Interrupted(t)
    BY <1>14 DEF Expire, WaitTimeout, Interrupted, Abs!vars
<1> QED BY <1>1, <1>2, <1>3, <1>4, <1>5, <1>6, <1>7, <1>8, <1>9, <1>10,
           <1>11, <1>12, <1>13, <1>14 DEF Step

\* A normal mutex implements the safety half of AbstractMutex: lock returns
\* only with the mutex, EBUSY never comes from lock, an acquisition needs a
\* free mutex, and destroy retires a mutex that nobody holds or wants.
THEOREM RefinesAbstractMutex == Spec => Abs!SafeSpec
<1>1. Init => Abs!Init
    BY DEF Init, Abs!Init
<1>2. IInv /\ [Next]_vars => [Abs!Next]_(Abs!vars)
    <2>1. ASSUME UNCHANGED vars PROVE UNCHANGED Abs!vars
          BY <2>1 DEF vars, Abs!vars
    <2>2. ASSUME IInv, Next PROVE [Abs!Next]_(Abs!vars)
          BY <2>2, StepsRefine DEF Next
    <2> QED BY <2>1, <2>2
<1> QED BY <1>1, <1>2, Invariance, PTL DEF Spec, Abs!SafeSpec
============================================================================
