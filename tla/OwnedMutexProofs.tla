-------------------------- MODULE OwnedMutexProofs --------------------------
(***************************************************************************)
(* Proofs about OwnedMutex, for any set of threads, any limit of the       *)
(* counter, either type and every choice of the functions that are called. *)
(***************************************************************************)
EXTENDS OwnedMutex, TLAPS

(***************************************************************************)
(* What the properties need besides themselves.                            *)
(***************************************************************************)

\* A word without an owner is free or destroyed, one with an owner is locked;
\* an error-checking mutex is not counted up.
WordIsSound ==
    /\ word.owner = NoOwner => word \in {Unlocked, Dead}
    /\ word.owner # NoOwner => word.state \in {1, 2}
    /\ mtype = PTHREAD_MUTEX_ERRORCHECK => word.counter = 0

\* Where a thread relies on the ownership test it made on an earlier copy, the
\* answer is still right; the owner's decisions about the counter are too.
OwnerKnowsItself ==
    \A t \in Threads :
        /\ pc[t] \in {"inc", "increload", "udec", "udecreload", "uswap", "destroy_store"} =>
            word.owner = t
        /\ pc[t] \in {"inc", "increload"} =>
            word.counter < MaxCounter /\ mtype # PTHREAD_MUTEX_ERRORCHECK
        /\ pc[t] \in {"udec", "udecreload"} => word.counter > 0
        /\ pc[t] = "uswap" => word.counter = 0
        /\ pc[t] \in LoopPoints \cup {"asleep", "try", "quick"} => word.owner # t

\* The copy of the word that the loop works with.
CopiesFit ==
    \A t \in Threads :
        /\ pc[t] = "flip" => mvalue[t].state = 1
        /\ pc[t] = "wait" => mvalue[t].state = 2

\* A thread inside destroy is the only one inside a locking function, and
\* who is about to unlock holds the mutex.
DestroyIsAlone ==
    /\ \A t \in Threads : Destroying(t) => call[t] = "destroy"
    /\ \A t, u \in Threads :
        InDestroy(t) /\ u # t =>
            /\ pc[u] \notin LockPoints /\ ~Destroying(u)
            /\ pc[u] = "uload" => word.owner = u

\* Nobody works with a destroyed mutex, except for the wake that ends an unlock.
DeadIsQuiet == word = Dead => \A t \in Threads : pc[t] \in {"idle", "uwake"}

\* Only a lock with a time limit reads the clock, and the single attempt is not
\* made by the functions that wait.
PointsFitCalls ==
    \A t \in Threads :
        /\ pc[t] \in {"acqcheck", "flipreload", "check"} => call[t] = "timed"
        /\ pc[t] = "try" => call[t] # "lock"

\* The inductive invariant.
IInv ==
    /\ TypeOK
    /\ WordIsSound
    /\ WordMatchesCallers
    /\ OwnerKnowsItself
    /\ CopiesFit
    /\ DestroyIsAlone
    /\ DeadIsQuiet
    /\ PointsFitCalls
    /\ TypeAsAsked
    /\ DestroyedNotLocked

USE DEF Unlocked, Dead, LockedBy, Flipped, Words, LoopPoints, LockPoints, UnlockPoints, Points,
        AllCalls, Destroying, InDestroy, Goto, Fail, PTHREAD_MUTEX_ERRORCHECK, kindVars
USE NoOwnerAssumption, TypesAssumption, MaxCounterAssumption, OwnedCallsAssumption

-----------------------------------------------------------------------------
(* Mutex attributes. *)

\* settype stores the type for init to find, and setpshared leaves it alone.
LEMMA NewMutexType ==
    ASSUME NEW type \in Types, NEW bits, NewMutex(type, bits)
    PROVE  bits = type
<1> USE DEF AttrInit, SetType, SetPshared, InitType
<1> DEFINE older  == {AttrInit} \cup {SetType(AttrInit, k) : k \in 0 .. 2}
           before == {SetPshared(a, s) : a \in older, s \in 0 .. 1}
<1>1. ASSUME NEW a \in older PROVE a \in Nat
    OBVIOUS
<1>2. ASSUME NEW b \in before PROVE b \in Nat
    <2>1. PICK a \in older, s \in 0 .. 1 : b = SetPshared(a, s)  OBVIOUS
    <2>2. a \in Nat  BY <1>1
    <2> QED BY <2>1, <2>2
<1>3. ASSUME NEW a \in AttrsOfType(type) PROVE InitType(a) = type
    <2>1. PICK b \in before, s \in 0 .. 1 : a = SetPshared(SetType(b, type), s)
          BY DEF AttrsOfType
    <2>2. b \in Nat  BY <1>2
    <2>3. a = type + 16 * s  BY <2>1, <2>2
    <2> QED BY <2>3
<1> QED BY <1>3 DEF NewMutex

-----------------------------------------------------------------------------
(* The steps. *)

(***************************************************************************)
(* Steps that leave the word alone.  A thread changes what it knows or     *)
(* where it is; it may rely on the test of an earlier copy of the word,    *)
(* because only the owner changes the owner field of a locked word.        *)
(***************************************************************************)
LEMMA QuietStepsPreserve ==
    ASSUME IInv, NEW t \in Threads, UNCHANGED kindVars,
           \/ Enter(t) \/ Expire(t) \/ Load(t) \/ IncrementReload(t)
           \/ UnlockDecReload(t) \/ FlipReload(t) \/ Reload(t) \/ AcquireCheckTime(t)
           \/ CheckTime(t) \/ FutexWait(t) \/ Interrupted(t) \/ WaitTimeout(t)
           \/ EnterUnlock(t) \/ UnlockLoad(t) \/ FutexWake(t)
    PROVE  IInv'
<1> USE DEF IInv, TypeOK
<1>1. CASE Enter(t)
    <2>1. TypeOK' /\ WordIsSound' /\ WordMatchesCallers' /\ OwnerKnowsItself' /\ CopiesFit'
          BY <1>1 DEF Enter, WordIsSound, WordMatchesCallers, OwnerKnowsItself, CopiesFit
    <2>2. DestroyIsAlone'
        <3>1. \A u \in Threads : ~InDestroy(u)  BY <1>1 DEF Enter
        <3>2. word' = word /\ pc' = [pc EXCEPT ![t] = "load"]  BY <1>1 DEF Enter
        <3>3. PICK c \in Calls : /\ call' = [call EXCEPT ![t] = c]
                                 /\ c = "destroy" =>
                                      \A u \in Threads : /\ pc[u] \notin LockPoints
                                                         /\ pc[u] = "uload" => word.owner = u
              BY <1>1 DEF Enter
        <3>4. \A u \in Threads : ~Destroying(u)  BY <3>1 DEF DestroyIsAlone
        <3> QED BY <3>1, <3>2, <3>3, <3>4 DEF DestroyIsAlone
    <2>3. DeadIsQuiet' /\ PointsFitCalls' /\ TypeAsAsked' /\ DestroyedNotLocked'
          BY <1>1 DEF Enter, DeadIsQuiet, PointsFitCalls, TypeAsAsked, DestroyedNotLocked
    <2> QED BY <2>1, <2>2, <2>3
<1>2. CASE Expire(t)
    BY <1>2 DEF Expire, WordIsSound, WordMatchesCallers, OwnerKnowsItself, CopiesFit,
                DestroyIsAlone, DeadIsQuiet, PointsFitCalls, TypeAsAsked, DestroyedNotLocked
<1>3. CASE Load(t)
    \* The test that all later steps of t rely on: word.owner = t.
    <2>1. TypeOK'  BY <1>3 DEF Load, LoopPoint, IncrementRefused
    <2>2. WordIsSound' /\ WordMatchesCallers'
          BY <1>3 DEF Load, LoopPoint, IncrementRefused, WordIsSound, WordMatchesCallers
    <2>3. OwnerKnowsItself'
        <3>1. CASE word.owner = t /\ IncrementRefused
              BY <1>3, <3>1 DEF Load, OwnerKnowsItself
        <3>2. CASE word.owner = t /\ ~IncrementRefused
            <4>1. word.counter < MaxCounter /\ mtype # PTHREAD_MUTEX_ERRORCHECK
                  BY <3>2 DEF IncrementRefused
            <4>2. word' = word /\ pc' = [pc EXCEPT ![t] = "inc"]  BY <1>3, <3>2 DEF Load
            <4> QED BY <3>2, <4>1, <4>2 DEF OwnerKnowsItself
        <3>3. CASE word.owner # t
              BY <1>3, <3>3 DEF Load, LoopPoint, OwnerKnowsItself
        <3> QED BY <3>1, <3>2, <3>3
    <2>4. /\ CopiesFit' /\ DestroyIsAlone' /\ DeadIsQuiet' /\ PointsFitCalls'
          /\ TypeAsAsked' /\ DestroyedNotLocked'
          BY <1>3 DEF Load, LoopPoint, IncrementRefused, WordIsSound, CopiesFit,
                      DestroyIsAlone, DeadIsQuiet, PointsFitCalls, TypeAsAsked,
                      DestroyedNotLocked
    <2> QED BY <2>1, <2>2, <2>3, <2>4
<1>4. CASE IncrementReload(t) \/ UnlockDecReload(t) \/ FlipReload(t)
    \* Between a failed exchange and the reload only the state bits can change.
    <2>1. TypeOK'  BY <1>4 DEF IncrementReload, UnlockDecReload, FlipReload
    <2>2. /\ WordIsSound' /\ WordMatchesCallers' /\ OwnerKnowsItself' /\ CopiesFit' /\ DestroyIsAlone'
          /\ DeadIsQuiet' /\ PointsFitCalls' /\ TypeAsAsked' /\ DestroyedNotLocked'
          BY <1>4 DEF IncrementReload, UnlockDecReload, FlipReload, WordIsSound,
                      WordMatchesCallers, OwnerKnowsItself, CopiesFit, DestroyIsAlone,
                      DeadIsQuiet, PointsFitCalls, TypeAsAsked, DestroyedNotLocked
    <2> QED BY <2>1, <2>2
<1>5. CASE Reload(t)
    <2>1. TypeOK'  BY <1>5 DEF Reload, LoopPoint
    <2>2. WordIsSound' /\ WordMatchesCallers'
          BY <1>5 DEF Reload, LoopPoint, WordIsSound, WordMatchesCallers
    <2>3. OwnerKnowsItself'  BY <1>5 DEF Reload, LoopPoint, OwnerKnowsItself
    <2>4. /\ CopiesFit' /\ DestroyIsAlone' /\ DeadIsQuiet' /\ PointsFitCalls'
          /\ TypeAsAsked' /\ DestroyedNotLocked'
          BY <1>5 DEF Reload, LoopPoint, WordIsSound, CopiesFit, DestroyIsAlone, DeadIsQuiet,
                      PointsFitCalls, TypeAsAsked, DestroyedNotLocked
    <2> QED BY <2>1, <2>2, <2>3, <2>4
<1>6. CASE AcquireCheckTime(t)
    <2>1. TypeOK'  BY <1>6 DEF AcquireCheckTime, OwnerKnowsItself
    <2>2. WordIsSound' /\ WordMatchesCallers' /\ OwnerKnowsItself'
          BY <1>6 DEF AcquireCheckTime, WordIsSound, WordMatchesCallers, OwnerKnowsItself
    <2>3. CopiesFit'  BY <1>6 DEF AcquireCheckTime, CopiesFit
    <2>4. /\ DestroyIsAlone' /\ DeadIsQuiet' /\ PointsFitCalls'
          /\ TypeAsAsked' /\ DestroyedNotLocked'
          BY <1>6 DEF AcquireCheckTime, DestroyIsAlone, DeadIsQuiet, PointsFitCalls,
                      TypeAsAsked, DestroyedNotLocked
    <2> QED BY <2>1, <2>2, <2>3, <2>4
<1>7. CASE CheckTime(t)
    <2> DEFINE there(p, w) == /\ pc' = [pc EXCEPT ![t] = p]
                              /\ mvalue' = [mvalue EXCEPT ![t] = w]
                              /\ UNCHANGED <<word, call, expired, depth>>
    <2>1. pc[t] = "check"  BY <1>7 DEF CheckTime
    <2>2. \/ there("idle", Unlocked)
          \/ there("acq", mvalue[t])
          \/ there("flip", mvalue[t]) /\ mvalue[t].state = 1
          \/ there("check", mvalue[t])
          \/ there("wait", mvalue[t]) /\ mvalue[t].state = 2
        <3>1. CASE expired[t]  BY <1>7, <3>1 DEF CheckTime
        <3>2. CASE ~expired[t]
            <4>1. mvalue[t].state = 2 \/ call[t] = "timed"  BY <2>1 DEF PointsFitCalls
            <4> QED BY <1>7, <3>2, <4>1 DEF CheckTime, LoopPoint
        <3> QED BY <3>1, <3>2
    <2>3. CASE there("idle", Unlocked)
        BY <2>1, <2>3 DEF WordIsSound, WordMatchesCallers, OwnerKnowsItself, CopiesFit,
                    DestroyIsAlone, DeadIsQuiet, PointsFitCalls, TypeAsAsked, DestroyedNotLocked
    <2>4. CASE there("acq", mvalue[t])
        BY <2>1, <2>4 DEF WordIsSound, WordMatchesCallers, OwnerKnowsItself, CopiesFit,
                    DestroyIsAlone, DeadIsQuiet, PointsFitCalls, TypeAsAsked, DestroyedNotLocked
    <2>5. CASE there("flip", mvalue[t]) /\ mvalue[t].state = 1
        BY <2>1, <2>5 DEF WordIsSound, WordMatchesCallers, OwnerKnowsItself, CopiesFit,
                    DestroyIsAlone, DeadIsQuiet, PointsFitCalls, TypeAsAsked, DestroyedNotLocked
    <2>6. CASE there("check", mvalue[t])
        BY <2>1, <2>6 DEF WordIsSound, WordMatchesCallers, OwnerKnowsItself, CopiesFit,
                    DestroyIsAlone, DeadIsQuiet, PointsFitCalls, TypeAsAsked, DestroyedNotLocked
    <2>7. CASE there("wait", mvalue[t]) /\ mvalue[t].state = 2
        BY <2>1, <2>7 DEF WordIsSound, WordMatchesCallers, OwnerKnowsItself, CopiesFit,
                    DestroyIsAlone, DeadIsQuiet, PointsFitCalls, TypeAsAsked, DestroyedNotLocked
    <2> QED BY <2>2, <2>3, <2>4, <2>5, <2>6, <2>7
<1>8. CASE FutexWait(t)
    BY <1>8 DEF FutexWait, WordIsSound, WordMatchesCallers, OwnerKnowsItself, CopiesFit,
                DestroyIsAlone, DeadIsQuiet, PointsFitCalls, TypeAsAsked, DestroyedNotLocked
<1>9. CASE Interrupted(t) \/ WaitTimeout(t)
    <2>1. TypeOK'  BY <1>9 DEF Interrupted, WaitTimeout, OwnerKnowsItself
    <2>2. WordIsSound' /\ WordMatchesCallers'
          BY <1>9 DEF Interrupted, WaitTimeout, WordIsSound, WordMatchesCallers
    <2>3. OwnerKnowsItself'  BY <1>9 DEF Interrupted, WaitTimeout, OwnerKnowsItself
    <2>4. CopiesFit'  BY <1>9 DEF Interrupted, WaitTimeout, CopiesFit
    <2>5. DestroyIsAlone'  BY <1>9 DEF Interrupted, WaitTimeout, DestroyIsAlone
    <2>6. DeadIsQuiet' /\ PointsFitCalls' /\ TypeAsAsked' /\ DestroyedNotLocked'
          BY <1>9 DEF Interrupted, WaitTimeout, DeadIsQuiet, PointsFitCalls, TypeAsAsked,
                      DestroyedNotLocked
    <2> QED BY <2>1, <2>2, <2>3, <2>4, <2>5, <2>6
<1>10. CASE EnterUnlock(t)
    BY <1>10 DEF EnterUnlock, WordIsSound, WordMatchesCallers, OwnerKnowsItself, CopiesFit,
                 DestroyIsAlone, DeadIsQuiet, PointsFitCalls, TypeAsAsked, DestroyedNotLocked
<1>11. CASE UnlockLoad(t)
    <2>1. TypeOK'  BY <1>11 DEF UnlockLoad
    <2>2. WordIsSound' /\ WordMatchesCallers'
          BY <1>11 DEF UnlockLoad, WordIsSound, WordMatchesCallers
    <2>3. OwnerKnowsItself'  BY <1>11 DEF UnlockLoad, OwnerKnowsItself
    <2>4. CopiesFit'  BY <1>11 DEF UnlockLoad, CopiesFit
    <2>5. DestroyIsAlone'
        <3>1. CASE word.owner # t  BY <1>11, <3>1 DEF UnlockLoad, DestroyIsAlone
        <3>2. CASE word.owner = t
            <4>1. pc'[t] \in UnlockPoints \ {"uload"} /\ call' = call /\ word' = word
                  BY <1>11, <3>2 DEF UnlockLoad
            <4>2. \A u \in Threads : u # t => pc'[u] = pc[u]  BY <1>11, <3>2 DEF UnlockLoad
            <4> QED BY <4>1, <4>2 DEF DestroyIsAlone
        <3> QED BY <3>1, <3>2
    <2>6. DeadIsQuiet' /\ PointsFitCalls' /\ TypeAsAsked' /\ DestroyedNotLocked'
          BY <1>11 DEF UnlockLoad, DeadIsQuiet, PointsFitCalls, TypeAsAsked,
                       DestroyedNotLocked
    <2> QED BY <2>1, <2>2, <2>3, <2>4, <2>5, <2>6
<1>12. CASE FutexWake(t)
    \* The sleeper was queued in the loop, and goes on there.
    <2>1. TypeOK'  BY <1>12 DEF FutexWake
    <2>2. WordIsSound' /\ WordMatchesCallers'
          BY <1>12 DEF FutexWake, WordIsSound, WordMatchesCallers
    <2>3. OwnerKnowsItself'  BY <1>12 DEF FutexWake, OwnerKnowsItself
    <2>4. CopiesFit'  BY <1>12 DEF FutexWake, CopiesFit
    <2>5. DestroyIsAlone'
        \* A thread that is woken stays inside its locking function.
        <3>1. \A u \in Threads : pc'[u] \in LockPoints <=> pc[u] \in LockPoints
              BY <1>12 DEF FutexWake
        <3>2. \A u \in Threads : /\ Destroying(u)' <=> Destroying(u)
                                 /\ pc'[u] = "uload" => pc[u] = "uload"
              BY <1>12 DEF FutexWake
        <3>3. call' = call /\ word' = word  BY <1>12 DEF FutexWake
        <3> QED BY <3>1, <3>2, <3>3 DEF DestroyIsAlone
    <2>6. DeadIsQuiet' /\ PointsFitCalls' /\ TypeAsAsked' /\ DestroyedNotLocked'
          BY <1>12 DEF FutexWake, DeadIsQuiet, PointsFitCalls, TypeAsAsked, DestroyedNotLocked
    <2> QED BY <2>1, <2>2, <2>3, <2>4, <2>5, <2>6
<1> QED BY <1>1, <1>2, <1>3, <1>4, <1>5, <1>6, <1>7, <1>8, <1>9, <1>10, <1>11, <1>12

(***************************************************************************)
(* Steps that write the word.  Only a free word is taken, and only its     *)
(* owner counts up, counts down and releases, so that what the other       *)
(* threads found out about the owner stays right.                          *)
(***************************************************************************)
LEMMA WordStepsPreserve ==
    ASSUME IInv, NEW t \in Threads, UNCHANGED kindVars,
           \/ Increment(t) \/ Try(t) \/ Quick(t) \/ Acquire(t)
           \/ Flip(t) \/ UnlockDec(t) \/ UnlockSwap(t) \/ DestroyStore(t)
    PROVE  IInv'
<1> USE DEF IInv, TypeOK
<1>1. CASE Increment(t)
    <2>1. TypeOK'
        <3>1. CASE word # mvalue[t]  BY <1>1, <3>1 DEF Increment
        <3>2. CASE word = mvalue[t]
            <4>1. word.counter + 1 \in 0 .. MaxCounter  BY <1>1 DEF Increment, OwnerKnowsItself
            <4>2. word' \in Words  BY <1>1, <3>2, <4>1 DEF Increment
            <4>3. depth' \in [Threads -> Nat]  BY <1>1, <3>2 DEF Increment, Succeed
            <4> QED BY <1>1, <3>2, <4>2, <4>3 DEF Increment, Succeed
        <3> QED BY <3>1, <3>2
    <2>2. WordIsSound' /\ WordMatchesCallers' /\ OwnerKnowsItself'
          BY <1>1 DEF Increment, Succeed, WordIsSound, WordMatchesCallers, OwnerKnowsItself
    <2>3. CopiesFit'  BY <1>1 DEF Increment, Succeed, CopiesFit
    <2>4. /\ DestroyIsAlone' /\ DeadIsQuiet' /\ PointsFitCalls'
          /\ TypeAsAsked'
          BY <1>1 DEF Increment, Succeed, DestroyIsAlone, DeadIsQuiet, PointsFitCalls,
                      TypeAsAsked
    <2>5. word' # Dead  BY <1>1, <2>1 DEF Increment, OwnerKnowsItself
    <2>6. DestroyedNotLocked'  BY <2>5 DEF DestroyedNotLocked
    <2> QED BY <2>1, <2>2, <2>3, <2>4, <2>6
<1>2. CASE Try(t)
    <2>1. TypeOK'
        <3>1. CASE word = Unlocked  BY <1>2, <3>1 DEF Try, Succeed
        <3>2. CASE word # Unlocked  BY <1>2, <3>2 DEF Try
        <3> QED BY <3>1, <3>2
    <2>2. WordIsSound' /\ WordMatchesCallers'
          BY <1>2 DEF Try, Succeed, WordIsSound, WordMatchesCallers
    <2>3. OwnerKnowsItself'  BY <1>2 DEF Try, Succeed, OwnerKnowsItself
    <2>4. /\ CopiesFit' /\ DestroyIsAlone' /\ DeadIsQuiet' /\ PointsFitCalls'
          /\ TypeAsAsked' /\ DestroyedNotLocked'
          BY <1>2 DEF Try, Succeed, CopiesFit, DestroyIsAlone, DeadIsQuiet, PointsFitCalls,
                      TypeAsAsked, DestroyedNotLocked
    <2> QED BY <2>1, <2>2, <2>3, <2>4
<1>3. CASE Quick(t)
    <2>1. TypeOK'  BY <1>3 DEF Quick, Succeed
    <2>2. WordIsSound' /\ WordMatchesCallers' /\ OwnerKnowsItself'
          BY <1>3 DEF Quick, Succeed, WordIsSound, WordMatchesCallers, OwnerKnowsItself
    <2>3. CopiesFit'  BY <1>3 DEF Quick, Succeed, CopiesFit
    <2>4. /\ DestroyIsAlone' /\ DeadIsQuiet' /\ PointsFitCalls'
          /\ TypeAsAsked' /\ DestroyedNotLocked'
          BY <1>3 DEF Quick, Succeed, DestroyIsAlone, DeadIsQuiet, PointsFitCalls,
                      TypeAsAsked, DestroyedNotLocked
    <2> QED BY <2>1, <2>2, <2>3, <2>4
<1>4. CASE Acquire(t)
    <2>1. TypeOK'  BY <1>4 DEF Acquire, Succeed
    <2>2. WordIsSound' /\ WordMatchesCallers'
          BY <1>4 DEF Acquire, Succeed, WordIsSound, WordMatchesCallers
    <2>3. OwnerKnowsItself'  BY <1>4 DEF Acquire, Succeed, OwnerKnowsItself
    <2>4. /\ CopiesFit' /\ DestroyIsAlone' /\ DeadIsQuiet' /\ PointsFitCalls'
          /\ TypeAsAsked' /\ DestroyedNotLocked'
          BY <1>4 DEF Acquire, Succeed, CopiesFit, DestroyIsAlone, DeadIsQuiet,
                      PointsFitCalls, TypeAsAsked, DestroyedNotLocked
    <2> QED BY <2>1, <2>2, <2>3, <2>4
<1>5. CASE Flip(t)
    <2>1. TypeOK'  BY <1>5 DEF Flip
    <2>2. WordIsSound' /\ WordMatchesCallers'
          BY <1>5 DEF Flip, WordIsSound, WordMatchesCallers, CopiesFit
    <2>3. OwnerKnowsItself'  BY <1>5 DEF Flip, OwnerKnowsItself
    <2>4. CopiesFit'  BY <1>5 DEF Flip, CopiesFit
    <2>5. DestroyIsAlone'  BY <1>5 DEF Flip, OwnerKnowsItself, DestroyIsAlone
    <2>6. DeadIsQuiet' /\ DestroyedNotLocked'
        <3>1. word # Dead  BY <1>5 DEF Flip, DeadIsQuiet
        <3>2. word'.state = 2 \/ word' = word  BY <1>5 DEF Flip
        <3>3. word' # Dead  BY <3>1, <3>2
        <3> QED BY <3>3 DEF DeadIsQuiet, DestroyedNotLocked
    <2>7. PointsFitCalls' /\ TypeAsAsked'  BY <1>5 DEF Flip, PointsFitCalls, TypeAsAsked
    <2> QED BY <2>1, <2>2, <2>3, <2>4, <2>5, <2>6, <2>7
<1>6. CASE UnlockDec(t)
    <2>1. TypeOK'  BY <1>6 DEF UnlockDec, WordMatchesCallers, OwnerKnowsItself
    <2>2. WordIsSound' /\ WordMatchesCallers'
        <3>1. CASE word = mvalue[t]
            <4>1. WordIsSound'
                BY <1>6, <3>1 DEF UnlockDec, WordIsSound, OwnerKnowsItself
            <4>2. WordMatchesCallers'
                BY <1>6, <3>1 DEF UnlockDec, WordIsSound, WordMatchesCallers, OwnerKnowsItself
            <4> QED BY <4>1, <4>2
        <3>2. CASE word # mvalue[t]
            BY <1>6, <3>2 DEF UnlockDec, WordIsSound, WordMatchesCallers
        <3> QED BY <3>1, <3>2
    <2>3. OwnerKnowsItself'  BY <1>6 DEF UnlockDec, OwnerKnowsItself
    <2>4. CopiesFit'  BY <1>6 DEF UnlockDec, CopiesFit
    <2>5. /\ DestroyIsAlone' /\ DeadIsQuiet' /\ PointsFitCalls'
          /\ TypeAsAsked' /\ DestroyedNotLocked'
          BY <1>6 DEF UnlockDec, OwnerKnowsItself, DestroyIsAlone, DeadIsQuiet,
                      PointsFitCalls, TypeAsAsked, DestroyedNotLocked
    <2> QED BY <2>1, <2>2, <2>3, <2>4, <2>5
<1>7. CASE UnlockSwap(t)
    \* The counter is 0, so that this was t's only lock.
    <2>1. TypeOK'  BY <1>7 DEF UnlockSwap, WordMatchesCallers, OwnerKnowsItself
    <2>2. WordIsSound' /\ WordMatchesCallers'
          BY <1>7 DEF UnlockSwap, WordIsSound, WordMatchesCallers, OwnerKnowsItself
    <2>3. OwnerKnowsItself'  BY <1>7 DEF UnlockSwap, OwnerKnowsItself
    <2>4. DestroyIsAlone'
        \* Nobody else is about to unlock during a destroy: t is the owner.
        <3>1. word.owner = t  BY <1>7 DEF UnlockSwap, OwnerKnowsItself
        <3>2. pc'[t] \in {"idle", "uwake"} /\ \A u \in Threads \ {t} : pc'[u] = pc[u]
              BY <1>7 DEF UnlockSwap
        <3>3. call' = call  BY <1>7 DEF UnlockSwap
        <3> QED BY <3>1, <3>2, <3>3 DEF DestroyIsAlone
    <2>5. /\ CopiesFit' /\ DeadIsQuiet' /\ PointsFitCalls'
          /\ TypeAsAsked' /\ DestroyedNotLocked'
          BY <1>7 DEF UnlockSwap, CopiesFit, DeadIsQuiet, PointsFitCalls,
                      TypeAsAsked, DestroyedNotLocked
    <2> QED BY <2>1, <2>2, <2>3, <2>4, <2>5
<1>8. CASE DestroyStore(t)
    \* t is alone in the library; a counter of 0 means that it held nothing before.
    <2>1. TypeOK'  BY <1>8 DEF DestroyStore
    <2>2. WordIsSound' /\ WordMatchesCallers'
          BY <1>8 DEF DestroyStore, WordIsSound, WordMatchesCallers
    <2>3. OwnerKnowsItself'  BY <1>8 DEF DestroyStore, OwnerKnowsItself
    <2>4. /\ CopiesFit' /\ DestroyIsAlone' /\ DeadIsQuiet' /\ PointsFitCalls'
          /\ TypeAsAsked' /\ DestroyedNotLocked'
          BY <1>8 DEF DestroyStore, WordIsSound, WordMatchesCallers, OwnerKnowsItself,
                      CopiesFit, DestroyIsAlone, DeadIsQuiet, PointsFitCalls, TypeAsAsked,
                      DestroyedNotLocked
    <2> QED BY <2>1, <2>2, <2>3, <2>4
<1> QED BY <1>1, <1>2, <1>3, <1>4, <1>5, <1>6, <1>7, <1>8

LEMMA MutexInitPreserves ==
    ASSUME IInv, NEW t \in Threads, MutexInit(t)
    PROVE  IInv'
<1> USE DEF IInv, TypeOK, MutexInit
<1>1. mtype' = asked' /\ asked' \in Types  BY NewMutexType
<1>2. TypeOK' /\ TypeAsAsked'  BY <1>1 DEF TypeAsAsked
<1>3. WordIsSound' /\ WordMatchesCallers'  BY DEF WordIsSound, WordMatchesCallers, DeadIsQuiet
<1>4. OwnerKnowsItself' /\ CopiesFit' /\ PointsFitCalls'
      BY DEF OwnerKnowsItself, CopiesFit, PointsFitCalls, DeadIsQuiet
<1>5. DestroyIsAlone' /\ DeadIsQuiet' /\ DestroyedNotLocked'
      BY DEF DestroyIsAlone, DeadIsQuiet, DestroyedNotLocked
<1> QED BY <1>2, <1>3, <1>4, <1>5

LEMMA InitEstablishes == Init => IInv
<1> SUFFICES ASSUME Init PROVE IInv
    OBVIOUS
<1> USE DEF Init
<1>1. mtype = asked /\ asked \in Types  BY NewMutexType
<1>2. TypeOK /\ TypeAsAsked  BY <1>1 DEF TypeOK, TypeAsAsked
<1>3. WordIsSound /\ WordMatchesCallers  BY DEF WordIsSound, WordMatchesCallers
<1>4. OwnerKnowsItself /\ CopiesFit /\ PointsFitCalls
      BY DEF OwnerKnowsItself, CopiesFit, PointsFitCalls
<1>5. DestroyIsAlone /\ DeadIsQuiet /\ DestroyedNotLocked
      BY DEF DestroyIsAlone, DeadIsQuiet, DestroyedNotLocked
<1> QED BY <1>2, <1>3, <1>4, <1>5 DEF IInv

LEMMA NextPreserves == IInv /\ [Next]_vars => IInv'
<1> SUFFICES ASSUME IInv, [Next]_vars PROVE IInv'
    OBVIOUS
<1>1. CASE UNCHANGED vars
    BY <1>1 DEF vars, IInv, TypeOK, WordIsSound, WordMatchesCallers, OwnerKnowsItself, CopiesFit,
                DestroyIsAlone, DeadIsQuiet, PointsFitCalls, TypeAsAsked, DestroyedNotLocked
<1>2. CASE Next
    BY <1>2, QuietStepsPreserve, WordStepsPreserve, MutexInitPreserves
    DEF Next, LockStep, UnlockStep
<1> QED BY <1>1, <1>2

-----------------------------------------------------------------------------
\* The inductive invariant holds of every reachable state.
THEOREM Invariance == Spec => []IInv
BY InitEstablishes, NextPreserves, PTL DEF Spec

\* Every variable keeps its type: the counter never runs over into the bits
\* next to it in the word, whatever its width.
THEOREM TypeCorrect == Spec => []TypeOK
<1>1. IInv => TypeOK  BY DEF IInv
<1> QED BY <1>1, Invariance, PTL

\* Owner and counter of the word say what lock and unlock have told their
\* callers; at most one thread holds a recursive or error-checking mutex.
THEOREM WordTells == Spec => []WordMatchesCallers
<1>1. IInv => WordMatchesCallers  BY DEF IInv
<1> QED BY <1>1, Invariance, PTL

\* The ownership test at the start of pthread_mutex_lock is enough: no thread
\* comes to wait for itself in the loop behind it.
THEOREM NoSelfWait == Spec => []NeverWaitsForItself
<1>1. IInv => NeverWaitsForItself
    BY DEF IInv, OwnerKnowsItself, DeadIsQuiet, WordMatchesCallers, NeverWaitsForItself
<1> QED BY <1>1, Invariance, PTL

\* The trylock in pthread_mutex_destroy keeps a mutex that another thread holds
\* from being destroyed, and an error-checking one that the caller holds.
THEOREM DestroyRefused == Spec => []DestroyedNotLocked
<1>1. IInv => DestroyedNotLocked  BY DEF IInv
<1> QED BY <1>1, Invariance, PTL

\* A mutex has the type that was asked for with pthread_mutexattr_settype,
\* whatever pthread_mutexattr_setpshared did before or after it, and keeps it
\* until it is destroyed.
THEOREM TypeKept == Spec => []TypeAsAsked
<1>1. IInv => TypeAsAsked  BY DEF IInv
<1> QED BY <1>1, Invariance, PTL

-----------------------------------------------------------------------------
(* Which functions are called. *)

\* A thread is in a function that callers use, and only destroy marks the word.
CallsAreOffered ==
    /\ \A t \in Threads : call[t] \in Calls \cup {"lock"}
    /\ word = Dead => "destroy" \in Calls

LEMMA OfferedCalls == Spec => []CallsAreOffered
<1>1. Init => CallsAreOffered  BY DEF Init, CallsAreOffered
<1>2. IInv /\ CallsAreOffered /\ [Next]_vars => CallsAreOffered'
    <2> SUFFICES ASSUME IInv, CallsAreOffered, [Next]_vars PROVE CallsAreOffered'
        OBVIOUS
    <2> USE DEF IInv, TypeOK, CallsAreOffered
    <2>1. CASE UNCHANGED vars  BY <2>1 DEF vars
    <2>2. ASSUME NEW t \in Threads, Enter(t) PROVE CallsAreOffered'
          BY <2>2 DEF Enter
    <2>3. ASSUME NEW t \in Threads,
                 \/ LockStep(t) \/ UnlockStep(t) \/ EnterUnlock(t)
                 \/ Expire(t) \/ WaitTimeout(t) \/ Interrupted(t) \/ MutexInit(t)
          PROVE  call' = call
          BY <2>3 DEF LockStep, Load, Increment, IncrementReload, Try, Quick, Reload, Acquire,
                      AcquireCheckTime, Flip, FlipReload, CheckTime, FutexWait, DestroyStore,
                      UnlockStep, UnlockLoad, UnlockDec, UnlockDecReload, UnlockSwap, FutexWake,
                      EnterUnlock, Expire, WaitTimeout, Interrupted, MutexInit
    <2>4. ASSUME NEW t \in Threads, DestroyStore(t) PROVE "destroy" \in Calls
          BY <2>4 DEF DestroyStore, DestroyIsAlone
    <2>5. ASSUME NEW t \in Threads, ~DestroyStore(t),
                 \/ LockStep(t) \/ UnlockStep(t) \/ EnterUnlock(t)
                 \/ Expire(t) \/ WaitTimeout(t) \/ Interrupted(t) \/ MutexInit(t)
          PROVE  word' = Dead => word = Dead
          BY <2>5 DEF LockStep, Load, Increment, IncrementReload, Try, Quick, Reload, Acquire,
                      AcquireCheckTime, Flip, FlipReload, CheckTime, FutexWait, OwnerKnowsItself,
                      UnlockStep, UnlockLoad, UnlockDec, UnlockDecReload, UnlockSwap, FutexWake,
                      EnterUnlock, Expire, WaitTimeout, Interrupted, MutexInit
    <2> QED BY <2>1, <2>2, <2>3, <2>4, <2>5 DEF Next
<1> QED BY <1>1, <1>2, Invariance, PTL DEF Spec
-----------------------------------------------------------------------------
(* Sleepers.  Without timed locks nobody leaves the loop but with the mutex. *)

LEMMA SleepersStep ==
    ASSUME IInv, SleepersAreRemembered, [Next]_vars,
           \A u \in Threads : call[u] # "timed"
    PROVE  SleepersAreRemembered'
<1> USE DEF IInv, TypeOK, SleepersAreRemembered
<1>1. CASE UNCHANGED vars  BY <1>1 DEF vars
<1>2. ASSUME NEW t \in Threads, MutexInit(t) PROVE SleepersAreRemembered'
      BY <1>2 DEF MutexInit, DeadIsQuiet
<1>3. ASSUME NEW t \in Threads, Enter(t) \/ EnterUnlock(t) \/ Expire(t)
      PROVE  SleepersAreRemembered'
      BY <1>3 DEF Enter, EnterUnlock, Expire
<1>4. ASSUME NEW t \in Threads, Interrupted(t) \/ WaitTimeout(t)
      PROVE  SleepersAreRemembered'
      BY <1>4 DEF Interrupted, WaitTimeout
<1>5. ASSUME NEW t \in Threads, LockStep(t) PROVE SleepersAreRemembered'
    <2>1. CASE Load(t)  BY <2>1 DEF Load, LoopPoint
    <2>2. CASE Increment(t) \/ IncrementReload(t)
          BY <2>2 DEF Increment, IncrementReload, Succeed
    <2>3. CASE Try(t) \/ Quick(t)
          BY <2>3 DEF Try, Quick, Succeed
    <2>4. CASE Reload(t)  BY <2>4 DEF Reload, LoopPoint
    \* Who takes the mutex in the loop takes it in state 2.
    <2>5. CASE Acquire(t)  BY <2>5 DEF Acquire, Succeed
    <2>6. CASE AcquireCheckTime(t) \/ FlipReload(t) \/ CheckTime(t)
          BY <2>6 DEF AcquireCheckTime, FlipReload, CheckTime, PointsFitCalls
    <2>7. CASE Flip(t)  BY <2>7 DEF Flip
    \* A thread falls asleep only on a word in state 2.
    <2>8. CASE FutexWait(t)  BY <2>8 DEF FutexWait, CopiesFit
    <2>9. CASE DestroyStore(t)  BY <2>9 DEF DestroyStore, DestroyIsAlone
    <2> QED BY <1>5, <2>1, <2>2, <2>3, <2>4, <2>5, <2>6, <2>7, <2>8, <2>9 DEF LockStep
<1>6. ASSUME NEW t \in Threads, UnlockStep(t) PROVE SleepersAreRemembered'
    <2>1. CASE UnlockLoad(t) \/ UnlockDecReload(t)
          BY <2>1 DEF UnlockLoad, UnlockDecReload
    <2>2. CASE UnlockDec(t)  BY <2>2 DEF UnlockDec
    \* A release from state 2 is followed by a wake.
    <2>3. CASE UnlockSwap(t)  BY <2>3 DEF UnlockSwap
    \* The waker stops being a witness; the sleeper it wakes becomes one.
    <2>4. CASE FutexWake(t)  BY <2>4 DEF FutexWake
    <2> QED BY <1>6, <2>1, <2>2, <2>3, <2>4 DEF UnlockStep
<1> QED BY <1>1, <1>2, <1>3, <1>4, <1>5, <1>6 DEF Next

\* "We _know_ there is contention when we are in this loop": where nobody calls
\* lock_timeout_np, a sleeper in lock always has the word or a thread that
\* will get it woken.  (OwnedLostWake shows why timed locks are left out.)
THEOREM SleepersKept ==
    ASSUME "timed" \notin Calls
    PROVE  Spec => []SleepersAreRemembered
<1>1. Init => SleepersAreRemembered  BY DEF Init, SleepersAreRemembered
<1>2. CallsAreOffered => \A u \in Threads : call[u] # "timed"  BY DEF CallsAreOffered
<1>3. IInv /\ CallsAreOffered /\ SleepersAreRemembered /\ [Next]_vars => SleepersAreRemembered'
      BY <1>2, SleepersStep
<1> QED BY <1>1, <1>3, Invariance, OfferedCalls, PTL DEF Spec

-----------------------------------------------------------------------------
(***************************************************************************)
(* Refinement.  A call of a thread that does not hold the mutex is a       *)
(* request; the exchange that finds the free word acquires; the last       *)
(* unlock's swap releases; the owner's nested calls are invisible.         *)
(***************************************************************************)

\* An unlocked word is held by nobody.
LEMMA FreeIsUnheld ==
    ASSUME IInv, word = Unlocked
    PROVE  \A u \in Threads : depth[u] = 0 /\ ~Destroying(u)
BY DEF IInv, TypeOK, WordMatchesCallers

\* A thread at a point where it knows that it is not the owner holds nothing.
LEMMA OutsiderHoldsNothing ==
    ASSUME IInv, NEW t \in Threads, pc[t] \in LoopPoints \cup {"asleep", "try", "quick"}
    PROVE  word # Dead /\ depth[t] = 0
BY DEF IInv, TypeOK, OwnerKnowsItself, WordMatchesCallers, DeadIsQuiet

\* Taking the free word is an abstract acquisition.
LEMMA TakeRefines ==
    ASSUME IInv, NEW t \in Threads, pc[t] \in {"try", "quick", "acq"}, word = Unlocked,
           NEW s \in {1, 2}, word' = LockedBy(t, s), Succeed(t), call' = call
    PROVE  Abs!Acquire(t)
<1>1. \A u \in Threads : depth[u] = 0 /\ ~Destroying(u)  BY FreeIsUnheld
<1>2. word' # Dead  OBVIOUS
<1> USE DEF IInv, TypeOK
<1>3. \A u \in Threads : (depth'[u] > 0 \/ Destroying(u)') <=> u = t
      BY <1>1 DEF Succeed
<1>4. pc'[t] \notin LockPoints /\ \A u \in Threads \ {t} : pc'[u] = pc[u] /\ depth'[u] = depth[u]
      BY DEF Succeed
<1> QED BY <1>1, <1>2, <1>3, <1>4 DEF Abs!Acquire

LEMMA LockStepsRefine ==
    ASSUME IInv, NEW t \in Threads, LockStep(t) \/ Enter(t), ~DestroyStore(t)
    PROVE  [Abs!Next]_(Abs!vars)
<1> USE DEF IInv, TypeOK
<1>1. CASE Enter(t)
    <2>1. CASE depth[t] = 0 /\ call'[t] = "lock"
        <3>1. Abs!Lock(t)  BY <1>1, <2>1 DEF Enter, Abs!Lock
        <3> QED BY <3>1 DEF Abs!Next
    <2>2. CASE depth[t] = 0 /\ call'[t] # "lock"
        <3>1. Abs!Try(t)  BY <1>1, <2>2 DEF Enter, Abs!Try
        <3> QED BY <3>1 DEF Abs!Next
    <2>3. CASE depth[t] # 0
          BY <1>1, <2>3 DEF Enter, Abs!vars
    <2> QED BY <2>1, <2>2, <2>3
<1>2. CASE Load(t)
    \* Refused, or one level deeper: t holds the mutex, and no request is seen.
    <2>1. CASE word.owner = t
        <3>1. depth[t] > 0  BY <1>2, <2>1 DEF Load, WordMatchesCallers
        <3> QED BY <1>2, <2>1, <3>1 DEF Load, Abs!vars
    <2>2. CASE word.owner # t
          BY <1>2, <2>2 DEF Load, LoopPoint, Abs!vars
    <2> QED BY <2>1, <2>2
<1>3. CASE Increment(t)
    <2>1. depth[t] > 0 /\ word.owner = t /\ word # Dead
          BY <1>3 DEF Increment, WordMatchesCallers, OwnerKnowsItself
    <2>2. word' # Dead  BY <1>3, <2>1 DEF Increment
    <2>3. \A u \in Threads : /\ depth'[u] > 0 <=> depth[u] > 0
                             /\ u # t => pc'[u] = pc[u] /\ depth'[u] = depth[u]
          BY <1>3, <2>1 DEF Increment, Succeed
    <2> QED BY <1>3, <2>1, <2>2, <2>3 DEF Increment, Abs!vars
<1>4. CASE Try(t)
    <2>1. CASE word = Unlocked
        <3>1. Abs!Acquire(t)  BY <1>4, <2>1, TakeRefines DEF Try
        <3> QED BY <3>1 DEF Abs!Next
    <2>2. CASE word # Unlocked
        <3>1. depth[t] = 0 /\ call[t] # "lock"
              BY <1>4, OutsiderHoldsNothing DEF Try, PointsFitCalls
        <3>2. Abs!GiveUp(t)  BY <1>4, <2>2, <3>1 DEF Try, Abs!GiveUp
        <3> QED BY <3>2 DEF Abs!Next
    <2> QED BY <2>1, <2>2
<1>5. CASE Quick(t)
    <2>1. CASE word = Unlocked
        <3>1. Abs!Acquire(t)  BY <1>5, <2>1, TakeRefines DEF Quick
        <3> QED BY <3>1 DEF Abs!Next
    <2>2. CASE word # Unlocked
          BY <1>5, <2>2 DEF Quick, Abs!vars
    <2> QED BY <2>1, <2>2
<1>6. CASE Acquire(t)
    <2>1. CASE word = Unlocked
        <3>1. Abs!Acquire(t)  BY <1>6, <2>1, TakeRefines DEF Acquire
        <3> QED BY <3>1 DEF Abs!Next
    <2>2. CASE word # Unlocked
          BY <1>6, <2>2 DEF Acquire, Abs!vars
    <2> QED BY <2>1, <2>2
<1>7. CASE AcquireCheckTime(t) \/ CheckTime(t)
    <2>1. depth[t] = 0 /\ call[t] = "timed"
          BY <1>7, OutsiderHoldsNothing DEF AcquireCheckTime, CheckTime, PointsFitCalls
    <2>2. CASE expired[t]
        <3>1. Abs!GiveUp(t)  BY <1>7, <2>1, <2>2 DEF AcquireCheckTime, CheckTime, Abs!GiveUp
        <3> QED BY <3>1 DEF Abs!Next
    <2>3. CASE ~expired[t]
          BY <1>7, <2>3 DEF AcquireCheckTime, CheckTime, LoopPoint, Abs!vars
    <2> QED BY <2>2, <2>3
<1>8. CASE Flip(t)
    <2>1. word # Dead  BY <1>8, OutsiderHoldsNothing DEF Flip
    <2>2. word' # Dead  BY <1>8, <2>1 DEF Flip
    <2> QED BY <1>8, <2>1, <2>2 DEF Flip, Abs!vars
<1>9. CASE IncrementReload(t) \/ Reload(t) \/ FlipReload(t) \/ FutexWait(t)
      BY <1>9 DEF IncrementReload, Reload, FlipReload, FutexWait, LoopPoint, Abs!vars
<1> QED BY <1>1, <1>2, <1>3, <1>4, <1>5, <1>6, <1>7, <1>8, <1>9 DEF LockStep

LEMMA UnlockStepsRefine ==
    ASSUME IInv, NEW t \in Threads,
           \/ UnlockStep(t) \/ EnterUnlock(t)
           \/ Expire(t) \/ WaitTimeout(t) \/ Interrupted(t)
    PROVE  [Abs!Next]_(Abs!vars)
<1> USE DEF IInv, TypeOK
<1>1. CASE UnlockDec(t)
    \* A nested unlock leaves at least one lock.
    <2>1. word.owner = t /\ word.counter > 0 /\ word # Dead /\ depth[t] = word.counter + 1
          BY <1>1 DEF UnlockDec, OwnerKnowsItself, WordMatchesCallers
    <2>2. word' # Dead  BY <1>1, <2>1 DEF UnlockDec
    <2>3. \A u \in Threads : depth'[u] > 0 <=> depth[u] > 0
          BY <1>1, <2>1 DEF UnlockDec
    <2> QED BY <1>1, <2>1, <2>2, <2>3 DEF UnlockDec, Abs!vars
<1>2. CASE UnlockSwap(t)
    <2>1. word # Dead /\ depth[t] = 1
          BY <1>2 DEF UnlockSwap, OwnerKnowsItself, WordMatchesCallers
    <2>2. depth'[t] = 0 /\ pc'[t] \in {"idle", "uwake"}  BY <1>2, <2>1 DEF UnlockSwap
    <2>3. \A u \in Threads \ {t} : depth'[u] = depth[u] /\ pc'[u] = pc[u]
          BY <1>2 DEF UnlockSwap
    <2>4. Abs!Release(t)  BY <1>2, <2>1, <2>2, <2>3 DEF UnlockSwap, Abs!Release
    <2> QED BY <2>4 DEF Abs!Next
<1>3. CASE FutexWake(t)
    <2>1. \A u \in Threads : /\ pc'[u] \in LockPoints <=> pc[u] \in LockPoints
                             /\ Destroying(u)' <=> Destroying(u)
          BY <1>3 DEF FutexWake
    <2> QED BY <1>3, <2>1 DEF FutexWake, Abs!vars
<1>4. CASE UnlockLoad(t) \/ UnlockDecReload(t) \/ EnterUnlock(t)
      BY <1>4 DEF UnlockLoad, UnlockDecReload, EnterUnlock, Abs!vars
<1>5. CASE Expire(t) \/ WaitTimeout(t) \/ Interrupted(t)
      BY <1>5 DEF Expire, WaitTimeout, Interrupted, Abs!vars
<1> QED BY <1>1, <1>2, <1>3, <1>4, <1>5 DEF UnlockStep

\* Destroy and init, of a mutex that its owner cannot destroy.
LEMMA LifeStepsRefine ==
    ASSUME IInv, CallsAreOffered, "destroy" \notin Calls \/ 1 \notin Types,
           NEW t \in Threads, DestroyStore(t) \/ MutexInit(t)
    PROVE  [Abs!Next]_(Abs!vars)
<1> USE DEF IInv, TypeOK
<1>1. CASE DestroyStore(t)
    <2>1. call[t] = "destroy"  BY <1>1 DEF DestroyStore, DestroyIsAlone
    <2>2. mtype = PTHREAD_MUTEX_ERRORCHECK
          BY <2>1 DEF CallsAreOffered, TypeAsAsked
    <2>3. word # Dead /\ word.owner = t /\ word.counter = 0
          BY <1>1, <2>2 DEF DestroyStore, OwnerKnowsItself, WordIsSound
    <2>4. \A u \in Threads : depth[u] = 0 /\ (u # t => ~Destroying(u))
          BY <1>1, <2>3 DEF DestroyStore, WordMatchesCallers
    <2>5. \A u \in Threads : pc[u] \notin LockPoints
          BY <1>1, <2>1 DEF DestroyStore, DestroyIsAlone
    <2>6. \A u \in Threads : pc'[u] = IF u = t THEN "idle" ELSE pc[u]
          BY <1>1 DEF DestroyStore
    <2>7. Abs!Destroy(t)
          BY <1>1, <2>3, <2>4, <2>5, <2>6 DEF DestroyStore, Abs!Destroy
    <2> QED BY <2>7 DEF Abs!Next
<1>2. CASE MutexInit(t)
    <2>1. \A u \in Threads : depth[u] = 0
          BY <1>2 DEF MutexInit, CallsAreOffered, DestroyedNotLocked
    <2>2. Abs!Reinit  BY <1>2, <2>1 DEF MutexInit, Abs!Reinit
    <2> QED BY <2>2 DEF Abs!Next
<1> QED BY <1>1, <1>2

\* Recursive and error-checking mutexes implement the safety half of
\* AbstractMutex, where no recursive mutex is destroyed (its owner could do
\* that while it holds it): nested locks and unlocks are invisible, only the
\* outermost pair takes and gives the mutex, and EBUSY never comes from lock.
THEOREM RefinesAbstractMutex ==
    ASSUME "destroy" \notin Calls \/ 1 \notin Types
    PROVE  Spec => Abs!SafeSpec
<1>1. Init => Abs!Init
    BY DEF Init, Abs!Init
<1>2. IInv /\ CallsAreOffered /\ [Next]_vars => [Abs!Next]_(Abs!vars)
    <2>1. ASSUME UNCHANGED vars PROVE UNCHANGED Abs!vars
          BY <2>1 DEF vars, Abs!vars
    <2>2. ASSUME IInv, CallsAreOffered, Next PROVE [Abs!Next]_(Abs!vars)
          BY <2>2, LockStepsRefine, UnlockStepsRefine, LifeStepsRefine DEF Next, LockStep
    <2> QED BY <2>1, <2>2
<1> QED BY <1>1, <1>2, Invariance, OfferedCalls, PTL DEF Spec, Abs!SafeSpec
=============================================================================
