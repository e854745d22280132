----------------------------- MODULE OwnedMutex -----------------------------
(***************************************************************************)
(* A mutex of type PTHREAD_MUTEX_RECURSIVE or PTHREAD_MUTEX_ERRORCHECK of  *)
(* libp4hread/bionic/pthread.c: the word carries the owner, the recursion  *)
(* counter and the lock state, and all three change together.              *)
(*                                                                         *)
(* As in NormalMutex, one action is one access to the word, one futex call *)
(* or one reading of the clock; what a thread does with its copy of the    *)
(* word (mvalue) between two accesses is part of the first one.            *)
(***************************************************************************)
EXTENDS Integers

CONSTANTS Threads,     \* the threads that use the mutex; their tids are not 0
          NoOwner,     \* the owner bits of an unlocked mutex: 0, no thread's tid
          Types,       \* the types the callers ask for: 1 recursive, 2 errorcheck
          MaxCounter,  \* what the counter field can hold: 2047 in the code
          Calls        \* the functions the threads call, besides unlock

\* The functions that try to take the mutex; destroy starts with a trylock.
AllCalls == {"lock", "trylock", "timed", "destroy"}

ASSUME NoOwnerAssumption    == NoOwner \notin Threads
ASSUME TypesAssumption      == Types \subseteq {1, 2} /\ Types # {}
ASSUME MaxCounterAssumption == MaxCounter \in Nat
ASSUME OwnedCallsAssumption == Calls \subseteq AllCalls

VARIABLES
    asked,    \* the type the caller of pthread_mutexattr_settype gave
    mtype,    \* the type bits of the word, constant in the life of a mutex
    word,     \* mutex->value, without its type and shared bits
    pc,       \* pc[t]: what t does next inside the library, or "idle"
    mvalue,   \* mvalue[t]: t's local copy of the word; Unlocked outside calls
    call,     \* call[t]: the locking function t is in, or was in last
    expired,  \* expired[t]: the absolute time of t's timed lock has passed
    depth     \* depth[t]: successful locks minus successful unlocks of t (history)

kindVars == <<asked, mtype>>
vars == <<kindVars, word, pc, mvalue, call, expired, depth>>

Words == [owner : Threads \cup {NoOwner}, counter : 0 .. MaxCounter, state : 0 .. 3]

\* The word of an unlocked mutex.
Unlocked == [owner |-> NoOwner, counter |-> 0, state |-> 0]
\* A word just locked by t, in state 1 (uncontended) or 2 (contended).
LockedBy(t, s) == [owner |-> t, counter |-> 0, state |-> s]
\* MUTEX_STATE_BITS_FLIP_CONTENTION of a word in state 1.
Flipped(w) == [w EXCEPT !.state = 2]
\* Stands for 0xdead10cc, which no word of a live mutex equals.
Dead == [owner |-> NoOwner, counter |-> 0, state |-> 3]

LoopPoints    == {"reload", "acq", "acqcheck", "flip", "flipreload", "check", "wait"}
LockPoints    == {"load", "inc", "increload", "try", "quick", "asleep"} \cup LoopPoints
UnlockPoints  == {"uload", "udec", "udecreload", "uswap", "uwake"}
Points == {"idle", "destroy_store"} \cup LockPoints \cup UnlockPoints

\* t's destroy has locked the mutex; that lock is not the caller's.
Destroying(t) == pc[t] = "destroy_store"
InDestroy(t)  == call[t] = "destroy" /\ pc[t] \in LockPoints \cup {"destroy_store"}

-----------------------------------------------------------------------------
(* Mutex attributes: bits 0-3 are the type, bit 4 is the process-shared flag. *)

PTHREAD_MUTEX_ERRORCHECK == 2

AttrInit == 0

SetType(attr, type) == ((attr \div 16) * 16) + type

\* A plausible bug: the flag replaces the whole attribute.
SetPsharedOnly(attr, shared) == 16 * shared

SetPshared(attr, shared) == (attr % 16) + 16 * shared

\* The attributes on which the last settype was for this type.
AttrsOfType(type) ==
    LET older  == {AttrInit} \cup {SetType(AttrInit, k) : k \in 0 .. 2}
        before == {SetPshared(a, s) : a \in older, s \in 0 .. 1}
    IN  {SetPshared(SetType(a, type), s) : a \in before, s \in 0 .. 1}

\* pthread_mutex_init: the type bits of the new word.
InitType(attr) == attr % 16

NewMutex(type, bits) ==
    /\ type \in Types
    /\ bits \in {InitType(a) : a \in AttrsOfType(type)}

Init ==
    /\ asked \in Types
    /\ \E bits \in 0 .. 15 : mtype = bits /\ NewMutex(asked, bits)
    /\ word = Unlocked
    /\ pc = [t \in Threads |-> "idle"]
    /\ mvalue = [t \in Threads |-> Unlocked]
    /\ call = [t \in Threads |-> "lock"]
    /\ expired = [t \in Threads |-> FALSE]
    /\ depth = [t \in Threads |-> 0]

-----------------------------------------------------------------------------
(* Shared pieces of the steps. *)

Goto(t, p, w) == pc' = [pc EXCEPT ![t] = p] /\ mvalue' = [mvalue EXCEPT ![t] = w]

\* The call returns an error, and its locals are gone.
Fail(t) == Goto(t, "idle", Unlocked) /\ UNCHANGED depth

\* The call has locked the mutex: it returns 0, or destroy goes on.
Succeed(t) ==
    IF call[t] = "destroy"
    THEN Goto(t, "destroy_store", Unlocked) /\ UNCHANGED depth
    ELSE Goto(t, "idle", Unlocked) /\ depth' = [depth EXCEPT ![t] = @ + 1]

\* The top of the for(;;) of lock and lock_timeout_np, with the word w in
\* mvalue: acquire, mark as contended, or wait (after the clock, if timed).
LoopPoint(t, w) ==
    IF w = Unlocked THEN "acq"
    ELSE IF w.state = 1 THEN "flip"
    ELSE IF call[t] = "timed" THEN "check" ELSE "wait"

-----------------------------------------------------------------------------
(* lock, trylock, lock_timeout_np, and the trylock inside destroy. *)

\* A call starts.  Callers use a live mutex only, nobody starts to use it
\* while another thread destroys it, and a destroy starts when no other
\* thread is inside a locking function, or inside unlock without holding the
\* mutex.  The functions branch on the type bits first: a word of type 0 is a
\* normal mutex, whose steps are those of NormalMutex.
Enter(t) ==
    /\ mtype \in {1, 2}
    /\ pc[t] = "idle"
    /\ word # Dead
    /\ \A u \in Threads : ~InDestroy(u)
    /\ \E c \in Calls :
        /\ c = "destroy" => \A u \in Threads : /\ pc[u] \notin LockPoints
                                               /\ pc[u] = "uload" => word.owner = u
        /\ call' = [call EXCEPT ![t] = c]
    /\ expired' = [expired EXCEPT ![t] = FALSE]
    /\ Goto(t, "load", Unlocked)
    /\ UNCHANGED <<word, depth>>

\* The clock passes the expiration time of a timed lock.
Expire(t) ==
    /\ call[t] = "timed" /\ pc[t] \in LockPoints
    /\ ~expired[t]
    /\ expired' = [expired EXCEPT ![t] = TRUE]
    /\ UNCHANGED <<word, pc, mvalue, call, depth>>

\* A plausible bug: the counter's limit is not looked at.
RefusesRelockOnly == mtype = PTHREAD_MUTEX_ERRORCHECK

\* A plausible bug: an error-checking mutex is counted up like a recursive one.
RefusesAtLimitOnly == word.counter = MaxCounter

\* _recursive_increment refuses with EDEADLK or, at the counter's limit, EAGAIN.
IncrementRefused == mtype = PTHREAD_MUTEX_ERRORCHECK \/ word.counter = MaxCounter

\* A plausible bug: a thread that already owns the mutex is not recognised.
LoadNoOwnerCheck(t) ==
    /\ pc[t] = "load"
    /\ IF call[t] \in {"trylock", "destroy"} THEN Goto(t, "try", word)
       ELSE IF word = Unlocked THEN Goto(t, "quick", word)
       ELSE Goto(t, LoopPoint(t, word), word)
    /\ UNCHANGED <<word, call, expired, depth>>

\* The first load of the word, and what the call decides from it: EDEADLK or
\* EAGAIN, one level deeper, the single attempt of trylock, the quick attempt
\* of the two lock functions, or their loop.
Load(t) ==
    /\ pc[t] = "load"
    /\ \/ /\ word.owner = t
          /\ IF IncrementRefused
             THEN Fail(t)
             ELSE Goto(t, "inc", word) /\ UNCHANGED depth
       \/ /\ word.owner # t
          /\ Goto(t, IF call[t] \in {"trylock", "destroy"} THEN "try"
                     ELSE IF word = Unlocked THEN "quick"
                     ELSE LoopPoint(t, word), word)
          /\ UNCHANGED depth
    /\ UNCHANGED <<word, call, expired>>

\* _recursive_increment: a compare-and-exchange that fails when a waiter has
\* changed the state bits since the load, and is then repeated.
Increment(t) ==
    /\ pc[t] = "inc"
    /\ \/ /\ word = mvalue[t]
          /\ word' = [word EXCEPT !.counter = @ + 1]
          /\ Succeed(t)
       \/ /\ word # mvalue[t]
          /\ Goto(t, "increload", mvalue[t])
          /\ UNCHANGED <<word, depth>>
    /\ UNCHANGED <<call, expired>>

IncrementReload(t) ==
    /\ pc[t] = "increload"
    /\ Goto(t, "inc", word)
    /\ UNCHANGED <<word, call, expired, depth>>

\* trylock's only attempt.
Try(t) ==
    /\ pc[t] = "try"
    /\ \/ word = Unlocked /\ word' = LockedBy(t, 1) /\ Succeed(t)
       \/ word # Unlocked /\ UNCHANGED word /\ Fail(t)
    /\ UNCHANGED <<call, expired>>

\* The optimistic attempt of lock and lock_timeout_np: state 1.
Quick(t) ==
    /\ pc[t] = "quick"
    /\ \/ word = Unlocked /\ word' = LockedBy(t, 1) /\ Succeed(t)
       \/ word # Unlocked /\ Goto(t, "reload", mvalue[t]) /\ UNCHANGED <<word, depth>>
    /\ UNCHANGED <<call, expired>>

\* The word is loaded again, at the end of the loop's body or before continue.
Reload(t) ==
    /\ pc[t] = "reload"
    /\ Goto(t, LoopPoint(t, word), word)
    /\ UNCHANGED <<word, call, expired, depth>>

\* A plausible bug: the loop takes the mutex in state 1, like the quick attempt.
AcquireUncontended(t) ==
    /\ pc[t] = "acq"
    /\ \/ word = Unlocked /\ word' = LockedBy(t, 1) /\ Succeed(t)
       \/ /\ word # Unlocked
          /\ Goto(t, IF call[t] = "timed" THEN "acqcheck" ELSE "reload", mvalue[t])
          /\ UNCHANGED <<word, depth>>
    /\ UNCHANGED <<call, expired>>

\* In the loop the mutex is taken in state 2; if that fails, lock_timeout_np
\* reads the clock before it tries again.
Acquire(t) ==
    /\ pc[t] = "acq"
    /\ \/ word = Unlocked /\ word' = LockedBy(t, 2) /\ Succeed(t)
       \/ /\ word # Unlocked
          /\ Goto(t, IF call[t] = "timed" THEN "acqcheck" ELSE "reload", mvalue[t])
          /\ UNCHANGED <<word, depth>>
    /\ UNCHANGED <<call, expired>>

AcquireCheckTime(t) ==
    /\ pc[t] = "acqcheck"
    /\ \/ expired[t] /\ Fail(t)
       \/ ~expired[t] /\ Goto(t, "reload", mvalue[t]) /\ UNCHANGED depth
    /\ UNCHANGED <<word, call, expired>>

\* A plausible bug: the contention mark is a plain store of the stale copy.
FlipStore(t) ==
    /\ pc[t] = "flip"
    /\ word' = Flipped(mvalue[t])
    /\ Goto(t, IF call[t] = "timed" THEN "check" ELSE "wait", word')
    /\ UNCHANGED <<call, expired, depth>>

\* The mutex is locked in state 1: mark it contended, if it has not changed.
Flip(t) ==
    /\ pc[t] = "flip"
    /\ \/ /\ word = mvalue[t]
          /\ word' = Flipped(word)
          /\ Goto(t, IF call[t] = "timed" THEN "check" ELSE "wait", word')
       \/ /\ word # mvalue[t]
          /\ Goto(t, IF call[t] = "timed" THEN "flipreload" ELSE "reload", mvalue[t])
          /\ UNCHANGED word
    /\ UNCHANGED <<call, expired, depth>>

FlipReload(t) ==
    /\ pc[t] = "flipreload"
    /\ Goto(t, "check", word)
    /\ UNCHANGED <<word, call, expired, depth>>

\* lock_timeout_np reads the clock: EBUSY, or wait if mvalue says contended,
\* or round the loop again.
CheckTime(t) ==
    /\ pc[t] = "check"
    /\ \/ expired[t] /\ Fail(t)
       \/ /\ ~expired[t]
          /\ Goto(t, IF mvalue[t].state = 2 THEN "wait" ELSE LoopPoint(t, mvalue[t]), mvalue[t])
          /\ UNCHANGED depth
    /\ UNCHANGED <<word, call, expired>>

\* FUTEX_WAIT on the whole word: the kernel compares and queues atomically.
FutexWait(t) ==
    /\ pc[t] = "wait"
    /\ Goto(t, IF word = mvalue[t] THEN "asleep" ELSE "reload", mvalue[t])
    /\ UNCHANGED <<word, call, expired, depth>>

\* The wait ends without a wake: a signal, or the timeout of a timed lock.
\* __futex_wait_ex then returns -ETIMEDOUT, which is not the ETIMEDOUT the
\* code compares it with, so both go on to the reload.
Interrupted(t) ==
    /\ pc[t] = "asleep"
    /\ Goto(t, "reload", mvalue[t])
    /\ UNCHANGED <<word, call, expired, depth>>

WaitTimeout(t) ==
    /\ pc[t] = "asleep"
    /\ call[t] = "timed" /\ expired[t]
    /\ Goto(t, "reload", mvalue[t])
    /\ UNCHANGED <<word, call, expired, depth>>

-----------------------------------------------------------------------------
(* pthread_mutex_unlock: any thread may call it. *)

EnterUnlock(t) ==
    /\ mtype \in {1, 2}
    /\ pc[t] = "idle"
    /\ word # Dead
    /\ \A u \in Threads : ~InDestroy(u)
    /\ Goto(t, "uload", Unlocked)
    /\ UNCHANGED <<word, call, expired, depth>>

\* EPERM for a thread that is not the owner; a nested unlock only counts down.
UnlockLoad(t) ==
    /\ pc[t] = "uload"
    /\ \/ word.owner # t /\ Fail(t)
       \/ /\ word.owner = t
          /\ Goto(t, IF word.counter > 0 THEN "udec" ELSE "uswap", word)
          /\ UNCHANGED depth
    /\ UNCHANGED <<word, call, expired>>

UnlockDec(t) ==
    /\ pc[t] = "udec"
    /\ \/ /\ word = mvalue[t]
          /\ word' = [word EXCEPT !.counter = @ - 1]
          /\ depth' = [depth EXCEPT ![t] = @ - 1]
          /\ Goto(t, "idle", Unlocked)
       \/ /\ word # mvalue[t]
          /\ Goto(t, "udecreload", mvalue[t])
          /\ UNCHANGED <<word, depth>>
    /\ UNCHANGED <<call, expired>>

UnlockDecReload(t) ==
    /\ pc[t] = "udecreload"
    /\ Goto(t, "udec", word)
    /\ UNCHANGED <<word, call, expired, depth>>

\* A plausible bug: whether to wake is decided from the copy loaded earlier.
UnlockSwapStale(t) ==
    /\ pc[t] = "uswap"
    /\ word' = Unlocked
    /\ depth' = [depth EXCEPT ![t] = @ - 1]
    /\ Goto(t, IF mvalue[t].state = 2 THEN "uwake" ELSE "idle", Unlocked)
    /\ UNCHANGED <<call, expired>>

\* The last unlock: the swap returns the state to decide about the wake.
UnlockSwap(t) ==
    /\ pc[t] = "uswap"
    /\ word' = Unlocked
    /\ depth' = [depth EXCEPT ![t] = @ - 1]
    /\ Goto(t, IF word.state = 2 THEN "uwake" ELSE "idle", Unlocked)
    /\ UNCHANGED <<call, expired>>

\* FUTEX_WAKE of one thread: any sleeper, if there is one.
FutexWake(t) ==
    /\ pc[t] = "uwake"
    /\ \/ \E s \in Threads :
            /\ pc[s] = "asleep"
            /\ pc' = [pc EXCEPT ![t] = "idle", ![s] = "reload"]
       \/ /\ \A s \in Threads : pc[s] # "asleep"
          /\ pc' = [pc EXCEPT ![t] = "idle"]
    /\ UNCHANGED <<word, mvalue, call, expired, depth>>

-----------------------------------------------------------------------------
(* The end of pthread_mutex_destroy, and pthread_mutex_init. *)

DestroyStore(t) ==
    /\ Destroying(t)
    /\ word' = Dead
    /\ Goto(t, "idle", Unlocked)
    /\ UNCHANGED <<call, expired, depth>>

\* A destroyed mutex is initialised again, with attributes of any type; who
\* thought that it held the old one holds nothing.
MutexInit(t) ==
    /\ pc[t] = "idle"
    /\ word = Dead
    /\ asked' \in Types
    /\ \E bits \in 0 .. 15 : mtype' = bits /\ NewMutex(asked', bits)
    /\ word' = Unlocked
    /\ depth' = [u \in Threads |-> 0]
    /\ UNCHANGED <<pc, mvalue, call, expired>>

-----------------------------------------------------------------------------
\* The steps of a thread inside the library, which the scheduler will run.
LockStep(t) ==
    \/ Load(t) \/ Increment(t) \/ IncrementReload(t) \/ Try(t) \/ Quick(t)
    \/ Reload(t) \/ Acquire(t) \/ AcquireCheckTime(t) \/ Flip(t) \/ FlipReload(t)
    \/ CheckTime(t) \/ FutexWait(t) \/ DestroyStore(t)

UnlockStep(t) ==
    \/ UnlockLoad(t) \/ UnlockDec(t) \/ UnlockDecReload(t) \/ UnlockSwap(t)
    \/ FutexWake(t)

\* What callers choose to do, and what the kernel and the clock do.
Next ==
    \E t \in Threads :
        \/ /\ \/ LockStep(t) \/ UnlockStep(t)
              \/ Enter(t) \/ EnterUnlock(t)
              \/ Expire(t) \/ WaitTimeout(t) \/ Interrupted(t)
           /\ UNCHANGED kindVars
        \/ MutexInit(t)

Spec == Init /\ [][Next]_vars

\* A runnable thread runs, and a timeout that has been set fires.
Fairness ==
    \A t \in Threads :
        /\ WF_vars((LockStep(t) \/ UnlockStep(t)) /\ UNCHANGED kindVars)
        /\ WF_vars(Expire(t) /\ UNCHANGED kindVars)
        /\ WF_vars(WaitTimeout(t) /\ UNCHANGED kindVars)

FairSpec == Spec /\ Fairness

-----------------------------------------------------------------------------
(* Properties. *)

\* Every variable has its type.
TypeOK ==
    /\ asked \in Types /\ mtype \in 0 .. 2
    /\ word \in Words
    /\ pc \in [Threads -> Points]
    /\ mvalue \in [Threads -> Words]
    /\ call \in [Threads -> AllCalls]
    /\ expired \in [Threads -> BOOLEAN]
    /\ depth \in [Threads -> Nat]

\* The word agrees with what the callers were told: the owner field is the
\* one thread with more locks than unlocks, the counter is its extra locks,
\* and a thread that was refused (EDEADLK, EAGAIN, EBUSY, EPERM) has nothing.
\* So at most one thread holds the mutex, and only its last unlock frees it.
WordMatchesCallers ==
    word # Dead =>
        \A t \in Threads :
            IF word.owner = t
            THEN depth[t] + (IF Destroying(t) THEN 1 ELSE 0) = word.counter + 1
            ELSE depth[t] = 0 /\ ~Destroying(t)

\* No thread waits for a mutex that it owns itself: the ownership test is
\* made once, on a copy, before the loop, and stays right while it loops.
NeverWaitsForItself ==
    \A t \in Threads : pc[t] \in LoopPoints \cup {"asleep"} => word.owner # t /\ depth[t] = 0

\* "We put the state to 2 since we _know_ there is contention when we are in
\* this loop": while a thread sleeps in lock, the word makes the last unlock
\* wake somebody, or a thread that will wake a sleeper or mark the word again
\* is on its way.
SleepersAreRemembered ==
    (\E s \in Threads : pc[s] = "asleep" /\ call[s] = "lock") =>
        \/ word.state = 2
        \/ \E t \in Threads : pc[t] \in {"uwake"} \cup LoopPoints

\* "This ensures all waiters will be unlocked": no thread is left asleep in
\* lock on a free mutex when everybody else is outside the library, where
\* nothing but a new caller or a signal can ever wake it.
AllWaitersWillBeUnlocked ==
    ~ /\ word = Unlocked
      /\ \E s \in Threads : pc[s] = "asleep" /\ call[s] = "lock"
      /\ \A t \in Threads : pc[t] = "idle" \/ (pc[t] = "asleep" /\ call[t] = "lock")

\* The mutex has the type its creator asked for: what settype stored reaches
\* the word through every setpshared and pthread_mutex_init, and stays there.
TypeAsAsked == mtype = asked

\* "use trylock to ensure that the mutex value is valid and is not already
\* locked": a mutex that pthread_mutex_destroy has marked is held by nobody,
\* except that the trylock lets the owner of a recursive mutex destroy it.
DestroyedNotLocked ==
    word = Dead => \A t \in Threads :
        asked = PTHREAD_MUTEX_ERRORCHECK \/ call[t] # "destroy" => depth[t] = 0

\* The promise of AbstractMutex: nested locks and refused calls are invisible.
Abs == INSTANCE AbstractMutex WITH
    holding <- {t \in Threads : depth[t] > 0 \/ Destroying(t)},
    blocked <- {t \in Threads : call[t] = "lock" /\ pc[t] \in LockPoints /\ depth[t] = 0},
    trying  <- {t \in Threads : call[t] # "lock" /\ pc[t] \in LockPoints /\ depth[t] = 0},
    alive   <- word # Dead

\* Every step is a step of the abstract mutex or invisible, and a free mutex
\* with requests is taken: without timed locks, no wake-up is lost.
ImplementsAbstractMutex == Abs!Spec
=============================================================================
