---------------------------- MODULE NormalMutex ----------------------------
(***************************************************************************)
(* A mutex of type PTHREAD_MUTEX_NORMAL of libp4hread/bionic/pthread.c.    *)
(*                                                                         *)
(* One action is one access to the mutex word (a compare-and-exchange, a   *)
(* swap, a decrement, a store), one futex system call or one reading of    *)
(* the clock, because those are the points where another thread can run.   *)
(* The word holds the lock state only: a normal mutex leaves its owner,    *)
(* type and counter bits at zero, and its shared bit is constant and only  *)
(* selects the futex opcode.                                               *)
(***************************************************************************)
EXTENDS Integers

CONSTANTS Threads,  \* the threads that use the mutex
          Calls     \* the locking functions they call

\* The three locking functions: lock, trylock and lock_timeout_np.
AllCalls == {"lock", "trylock", "timed"}

ASSUME CallsAssumption == Calls \subseteq AllCalls

VARIABLES
    value,    \* mutex->value
    pc,       \* pc[t]: what t does next inside the library, or "idle" / "held"
    call,     \* call[t]: the locking function t is in, or was in last
    expired   \* expired[t]: the absolute time of t's timed lock has passed

vars == <<value, pc, call, expired>>

Unlocked   == 0    \* MUTEX_STATE_UNLOCKED
Uncontended == 1   \* MUTEX_STATE_LOCKED_UNCONTENDED
Contended  == 2    \* MUTEX_STATE_LOCKED_CONTENDED
Dead       == 3    \* stands for 0xdead10cc

\* Program points of a locking function (by the access they are about to
\* make), of unlock and of destroy.  "asleep" is a thread on the futex queue.
LockPoints    == {"cas", "swap", "check", "wait", "asleep"}
UnlockPoints  == {"dec", "store", "wake"}
DestroyPoints == {"destroy_cas", "destroy_store"}
Points == {"idle", "held"} \cup LockPoints \cup UnlockPoints \cup DestroyPoints

\* t's last locking call has succeeded and its release has not taken effect.
Holds(t) == pc[t] \in {"held", "dec", "store", "destroy_store"}

Goto(t, p) == pc' = [pc EXCEPT ![t] = p]

\* __bionic_cmpxchg(old, new, &mutex->value) by t, which goes on at ok or fail.
Cmpxchg(t, old, new, ok, fail) ==
    \/ value = old /\ value' = new /\ Goto(t, ok)
    \/ value # old /\ UNCHANGED value /\ Goto(t, fail)

Init ==
    /\ value = Unlocked
    /\ pc = [t \in Threads |-> "idle"]
    /\ call = [t \in Threads |-> "lock"]
    /\ expired = [t \in Threads |-> FALSE]

-----------------------------------------------------------------------------
(* The locking functions. *)

\* A call starts.  Callers use a live mutex only, and nobody starts to use it
\* while another thread destroys it (both are undefined behaviour in POSIX).
\* lock_timeout_np computes its absolute expiration time here.
Enter(t) ==
    /\ pc[t] = "idle"
    /\ value # Dead
    /\ \A u \in Threads : pc[u] \notin DestroyPoints
    /\ \E c \in Calls : call' = [call EXCEPT ![t] = c]
    /\ expired' = [expired EXCEPT ![t] = FALSE]
    /\ Goto(t, "cas")
    /\ UNCHANGED value

\* The clock passes the expiration time of a timed lock.
Expire(t) ==
    /\ call[t] = "timed" /\ pc[t] \in LockPoints
    /\ ~expired[t]
    /\ expired' = [expired EXCEPT ![t] = TRUE]
    /\ UNCHANGED <<value, pc, call>>

\* The fast path: 0 -> 1, and for trylock the whole attempt (EBUSY otherwise).
FastPath(t) ==
    /\ pc[t] = "cas"
    /\ Cmpxchg(t, Unlocked, Uncontended, "held",
               IF call[t] = "trylock" THEN "idle" ELSE "swap")
    /\ UNCHANGED <<call, expired>>

\* Plausible bugs of the swap: it marks the word "uncontended" when it takes
\* the free mutex, as the fast path does; it takes anything but a 2 for free.
ForgetfulSwap(t) ==
    /\ pc[t] = "swap"
    /\ value' = IF value = Unlocked THEN Uncontended ELSE Contended
    /\ Goto(t, IF value = Unlocked THEN "held"
               ELSE IF call[t] = "timed" THEN "check" ELSE "wait")
    /\ UNCHANGED <<call, expired>>

GreedySwap(t) ==
    /\ pc[t] = "swap"
    /\ value' = Contended
    /\ Goto(t, IF value # Contended THEN "held"
               ELSE IF call[t] = "timed" THEN "check" ELSE "wait")
    /\ UNCHANGED <<call, expired>>

\* The slow path: put 2 in the word; whoever gets 0 back owns the mutex.
Swap(t) ==
    /\ pc[t] = "swap"
    /\ value' = Contended
    /\ Goto(t, IF value = Unlocked THEN "held"
               ELSE IF call[t] = "timed" THEN "check" ELSE "wait")
    /\ UNCHANGED <<call, expired>>

\* A plausible bug: the clock is not looked at again inside the loop.
NoDeadline(t) ==
    /\ pc[t] = "check"
    /\ Goto(t, "wait")
    /\ UNCHANGED <<value, call, expired>>

\* lock_timeout_np reads the clock and gives up with EBUSY, or waits.  The
\* word keeps the 2 this call has put there.
CheckTime(t) ==
    /\ pc[t] = "check"
    /\ Goto(t, IF expired[t] THEN "idle" ELSE "wait")
    /\ UNCHANGED <<value, call, expired>>

\* FUTEX_WAIT: the kernel compares the word with 2 and queues the thread in
\* one atomic step, or returns at once.
FutexWait(t) ==
    /\ pc[t] = "wait"
    /\ Goto(t, IF value = Contended THEN "asleep" ELSE "swap")
    /\ UNCHANGED <<value, call, expired>>

\* The wait ends without a wake: a signal, or the timeout of a timed lock.
\* Both return to the swap; the result of __futex_wait_ex is not used.
Interrupted(t) ==
    /\ pc[t] = "asleep"
    /\ Goto(t, "swap")
    /\ UNCHANGED <<value, call, expired>>

WaitTimeout(t) ==
    /\ pc[t] = "asleep"
    /\ call[t] = "timed" /\ expired[t]
    /\ Goto(t, "swap")
    /\ UNCHANGED <<value, call, expired>>

-----------------------------------------------------------------------------
(* pthread_mutex_unlock. *)

\* Only a thread that holds a normal mutex unlocks it: the caller's duty.
EnterUnlock(t) ==
    /\ pc[t] = "held"
    /\ Goto(t, "dec")
    /\ UNCHANGED <<value, call, expired>>

\* Plausible bugs of the decrement: it releases a contended mutex at once,
\* though the store is still to come; it assumes that the state is always 2.
EarlyRelease(t) ==
    /\ pc[t] = "dec"
    /\ value' = Unlocked
    /\ Goto(t, IF value = Uncontended THEN "idle" ELSE "store")
    /\ UNCHANGED <<call, expired>>

DoubleDec(t) ==
    /\ pc[t] = "dec"
    /\ value' = value - 2
    /\ Goto(t, IF value = Uncontended THEN "idle" ELSE "store")
    /\ UNCHANGED <<call, expired>>

\* 1 -> 0 releases the mutex; 2 -> 1 does not.
AtomicDec(t) ==
    /\ pc[t] = "dec"
    /\ value' = value - 1
    /\ Goto(t, IF value = Uncontended THEN "idle" ELSE "store")
    /\ UNCHANGED <<call, expired>>

\* The plain store that releases a contended mutex.  It may overwrite a 2
\* that another thread has swapped in since the decrement.
StoreUnlocked(t) ==
    /\ pc[t] = "store"
    /\ value' = Unlocked
    /\ Goto(t, "wake")
    /\ UNCHANGED <<call, expired>>

\* Plausible bugs of the last step of unlock: no wake; the store once more.
NoWake(t) ==
    /\ pc[t] = "wake"
    /\ Goto(t, "idle")
    /\ UNCHANGED <<value, call, expired>>

LateStore(t) ==
    /\ pc[t] = "wake"
    /\ value' = Unlocked
    /\ Goto(t, "idle")
    /\ UNCHANGED <<call, expired>>

\* FUTEX_WAKE of one thread: the kernel picks any sleeper, if there is one.
FutexWake(t) ==
    /\ pc[t] = "wake"
    /\ \/ \E s \in Threads :
            /\ pc[s] = "asleep"
            /\ pc' = [pc EXCEPT ![t] = "idle", ![s] = "swap"]
       \/ /\ \A s \in Threads : pc[s] # "asleep"
          /\ Goto(t, "idle")
    /\ UNCHANGED <<value, call, expired>>

-----------------------------------------------------------------------------
(* pthread_mutex_destroy and pthread_mutex_init. *)

\* The caller destroys the mutex when no thread is inside a locking function.
\* Another thread may hold it (EBUSY), or still be inside unlock.
EnterDestroy(t) ==
    /\ pc[t] = "idle"
    /\ value # Dead
    /\ \A u \in Threads : pc[u] \notin LockPoints \cup DestroyPoints
    /\ Goto(t, "destroy_cas")
    /\ UNCHANGED <<value, call, expired>>

\* The trylock that guards the destruction.
DestroyTrylock(t) ==
    /\ pc[t] = "destroy_cas"
    /\ Cmpxchg(t, Unlocked, Uncontended, "destroy_store", "idle")
    /\ UNCHANGED <<call, expired>>

DestroyStore(t) ==
    /\ pc[t] = "destroy_store"
    /\ value' = Dead
    /\ Goto(t, "idle")
    /\ UNCHANGED <<call, expired>>

\* pthread_mutex_init on a destroyed mutex, by a caller that is alone with it
\* except for threads that have not returned from unlock yet.
MutexInit(t) ==
    /\ pc[t] = "idle"
    /\ value = Dead
    /\ value' = Unlocked
    /\ UNCHANGED <<pc, call, expired>>

-----------------------------------------------------------------------------
\* The steps of a thread inside the library, which the scheduler will run.
Step(t) ==
    \/ FastPath(t) \/ Swap(t) \/ CheckTime(t) \/ FutexWait(t)
    \/ AtomicDec(t) \/ StoreUnlocked(t) \/ FutexWake(t)
    \/ DestroyTrylock(t) \/ DestroyStore(t)

\* What callers choose to do, and what the kernel and the clock do.
Next ==
    \E t \in Threads :
        \/ Step(t)
        \/ Enter(t) \/ EnterUnlock(t) \/ EnterDestroy(t) \/ MutexInit(t)
        \/ Expire(t) \/ WaitTimeout(t) \/ Interrupted(t)

Spec == Init /\ [][Next]_vars

\* A runnable thread runs, and a timeout that has been set fires.  Nothing
\* makes a caller lock, unlock or destroy, and no signal has to arrive.
Fairness ==
    \A t \in Threads : WF_vars(Step(t)) /\ WF_vars(Expire(t)) /\ WF_vars(WaitTimeout(t))

FairSpec == Spec /\ Fairness

-----------------------------------------------------------------------------
(* Properties. *)

\* Every variable has its type.
TypeOK ==
    /\ value \in {Unlocked, Uncontended, Contended, Dead}
    /\ pc \in [Threads -> Points]
    /\ call \in [Threads -> AllCalls]
    /\ expired \in [Threads -> BOOLEAN]

\* At most one thread holds the mutex, whichever function it came through.
MutualExclusion == \A t, u \in Threads : Holds(t) /\ Holds(u) => t = u

\* The word says "locked" exactly when a thread holds the mutex: an unlock
\* never leaves a mutex that looks free but is held, nor the opposite.
WordTellsHolder == value \in {Uncontended, Contended} <=> \E t \in Threads : Holds(t)

\* "nobody is orphaned on the wait queue": while a thread sleeps, the word
\* makes the next unlock wake somebody, or a thread that will wake a sleeper
\* or put the 2 back is already on its way.
NobodyOrphaned ==
    (\E s \in Threads : pc[s] = "asleep") =>
        \/ value = Contended
        \/ \E t \in Threads : pc[t] \in {"store", "wake", "swap"}

\* A destroyed mutex is in nobody's hands: threads are outside the library, or
\* about to make the last system call of an unlock, which writes nothing.
DeadIsQuiet == value = Dead => \A t \in Threads : pc[t] \in {"idle", "wake"}

\* While a thread is inside destroy, no other is, and none is locking.
DestroyIsAlone ==
    \A t, u \in Threads :
        pc[t] \in DestroyPoints => t = u \/ pc[u] \notin LockPoints \cup DestroyPoints

\* Only lock_timeout_np reads the clock, so only it gives up there.
OnlyTimedChecks == \A t \in Threads : pc[t] = "check" => call[t] = "timed"

\* The inductive invariant of the proofs: the safety invariants above hold
\* together, and need the facts about destroy and the clock.
IInv ==
    /\ TypeOK
    /\ MutualExclusion
    /\ WordTellsHolder
    /\ NobodyOrphaned
    /\ DeadIsQuiet
    /\ DestroyIsAlone
    /\ OnlyTimedChecks

\* A destroyed mutex is not in use, and only init changes its word: the last
\* write of an unlock is the one that releases the mutex, so the thread that
\* gets it next may destroy it at once.
DestroyedIsFinal ==
    [][value = Dead => value' = Dead \/ \E t \in Threads : MutexInit(t)]_vars

\* lock_timeout_np returns: with success or, once its time has passed, EBUSY.
TimedLockReturns ==
    \A t \in Threads :
        (call[t] = "timed" /\ pc[t] \in LockPoints) ~> (pc[t] \notin LockPoints)

\* The promise of AbstractMutex, with the holder, the requests and the
\* destroyed state read off the word and the program points.
Abs == INSTANCE AbstractMutex WITH
    holding  <- {t \in Threads : Holds(t)},
    blocked  <- {t \in Threads : call[t] = "lock" /\ pc[t] \in LockPoints},
    trying   <- {t \in Threads : \/ call[t] # "lock" /\ pc[t] \in LockPoints
                                 \/ pc[t] = "destroy_cas"},
    alive    <- value # Dead

\* Every step of the mutex is a step of the abstract one or invisible, and a
\* free mutex with requests is taken: no wake-up is lost.
ImplementsAbstractMutex == Abs!Spec
============================================================================
