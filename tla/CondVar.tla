------------------------------ MODULE CondVar ------------------------------
(***************************************************************************)
(* The condition variables of libp4hread/bionic/pthread.c, in the use they *)
(* are made for: consumers wait, with or without a time limit, for items   *)
(* that producers make and announce with signal or broadcast, before or    *)
(* after they unlock the mutex.                                            *)
(*                                                                         *)
(* The mutex is the abstract one (AbstractMutex, which NormalMutex and     *)
(* OwnedMutex implement): lock takes it when it is free.  The word of the  *)
(* condition variable is its counter, modulo Modulus (2^31 in the code: 32 *)
(* bits less the constant shared flag).                                    *)
(***************************************************************************)
EXTENDS Integers, FiniteSets

CONSTANTS Consumers, Producers,   \* disjoint sets of threads
          Nobody,                 \* the holder of a free mutex
          Modulus,                \* number of values of the counter
          MaxItems                \* bound: items made and not yet taken

Threads == Consumers \cup Producers

ASSUME CondAssumption ==
    /\ Consumers \cap Producers = {} /\ IsFiniteSet(Threads)
    /\ Nobody \notin Threads
    /\ Modulus \in Nat /\ Modulus > 1
    /\ MaxItems \in Nat

VARIABLES
    holder,   \* who holds the mutex
    items,    \* the shared state the mutex protects
    value,    \* the counter in cond->value
    pc,       \* pc[t]: where t is
    old,      \* old[t]: the counter t has read (oldvalue of wait, oldval of pulse); 0 outside
    all,      \* all[p]: p announces with broadcast
    lag       \* lag[c]: pulses between c's read of the counter and its sleep (history)

vars == <<holder, items, value, pc, old, all, lag>>

\* A consumer has read the counter and is not asleep yet.
Window == {"unlock", "fwait"}
\* ... or has gone to sleep on it.
Waiting == Window \cup {"asleep"}

ConsumerPoints == {"out", "in", "read", "relock"} \cup Waiting
ProducerPoints == {"out", "in", "load", "cas", "wake", "leave"}

Init ==
    /\ holder = Nobody /\ items = 0 /\ value = 0
    /\ pc = [t \in Threads |-> "out"]
    /\ old = [t \in Threads |-> 0]
    /\ all = [p \in Producers |-> FALSE]
    /\ lag = [c \in Consumers |-> 0]

Goto(t, p) == pc' = [pc EXCEPT ![t] = p]

-----------------------------------------------------------------------------
(* Consumers. *)

\* pthread_mutex_lock before the test, and again at the end of every wait.
LockToTest(c) ==
    /\ pc[c] \in {"out", "relock"}
    /\ holder = Nobody
    /\ holder' = c
    /\ Goto(c, "in")
    /\ old' = [old EXCEPT ![c] = 0]
    /\ lag' = [lag EXCEPT ![c] = 0]
    /\ UNCHANGED <<items, value, all>>

Take(c) ==
    /\ pc[c] = "in" /\ items > 0
    /\ items' = items - 1
    /\ holder' = Nobody
    /\ Goto(c, "out")
    /\ UNCHANGED <<value, old, all, lag>>

\* pthread_cond_wait, or one of the functions with a time limit.
CallWait(c) ==
    /\ pc[c] = "in" /\ items = 0
    /\ Goto(c, "read")
    /\ UNCHANGED <<holder, items, value, old, all, lag>>

\* The absolute time of a timed wait has passed already: ETIMEDOUT, the mutex
\* is kept, and the caller unlocks it and gives up.
ExpiredBefore(c) ==
    /\ pc[c] = "read"
    /\ holder' = Nobody
    /\ Goto(c, "out")
    /\ UNCHANGED <<items, value, old, all, lag>>

\* oldvalue = cond->value, while the mutex is still held.
ReadCounter(c) ==
    /\ pc[c] = "read"
    /\ old' = [old EXCEPT ![c] = value]
    /\ Goto(c, "unlock")
    /\ UNCHANGED <<holder, items, value, all, lag>>

UnlockToWait(c) ==
    /\ pc[c] = "unlock"
    /\ holder' = Nobody
    /\ Goto(c, "fwait")
    /\ UNCHANGED <<items, value, old, all, lag>>

\* Plausible bugs: the wait does not compare the counter (it was read anew
\* after the unlock, say); a wait that returns at once forgets the mutex.
BlindWait(c) ==
    /\ pc[c] = "fwait"
    /\ Goto(c, "asleep")
    /\ UNCHANGED <<holder, items, value, old, all, lag>>

WaitWithoutRelock(c) ==
    /\ pc[c] = "fwait"
    /\ Goto(c, IF value = old[c] THEN "asleep" ELSE "in")
    /\ UNCHANGED <<holder, items, value, old, all, lag>>

\* FUTEX_WAIT on the counter that was read.
FutexWait(c) ==
    /\ pc[c] = "fwait"
    /\ Goto(c, IF value = old[c] THEN "asleep" ELSE "relock")
    /\ UNCHANGED <<holder, items, value, old, all, lag>>

\* A signal ends the wait (0 is returned), or its time limit (ETIMEDOUT).
WaitEnds(c) ==
    /\ pc[c] = "asleep"
    /\ Goto(c, "relock")
    /\ UNCHANGED <<holder, items, value, old, all, lag>>

-----------------------------------------------------------------------------
(* Producers. *)

LockToMake(p) ==
    /\ pc[p] = "out"
    /\ items < MaxItems
    /\ holder = Nobody
    /\ holder' = p
    /\ items' = items + 1
    /\ \E b \in BOOLEAN : all' = [all EXCEPT ![p] = b]
    /\ Goto(p, "in")
    /\ UNCHANGED <<value, old, lag>>

\* The mutex is unlocked before the announcement, or after it.
UnlockFirst(p) ==
    /\ pc[p] = "in"
    /\ holder' = Nobody
    /\ Goto(p, "load")
    /\ UNCHANGED <<items, value, old, all, lag>>

AnnounceFirst(p) ==
    /\ pc[p] = "in"
    /\ Goto(p, "load")
    /\ UNCHANGED <<holder, items, value, old, all, lag>>

\* __pthread_cond_pulse: load, compare-and-exchange, wake.
LoadCounter(p) ==
    /\ pc[p] = "load"
    /\ old' = [old EXCEPT ![p] = value]
    /\ Goto(p, "cas")
    /\ UNCHANGED <<holder, items, value, all, lag>>

\* The wrap the code's comment describes is excluded: fewer than Modulus
\* pulses while a consumer is between its read of the counter and its sleep.
PulseAllowed == \A c \in Consumers : pc[c] \in Window => lag[c] < Modulus - 1

\* A plausible bug: the pulse leaves the counter as it is.
PulseNothing(p) ==
    /\ pc[p] = "cas"
    /\ Goto(p, "wake")
    /\ UNCHANGED <<holder, items, value, old, all, lag>>

PulseCounter(p) ==
    /\ pc[p] = "cas"
    /\ \/ /\ value = old[p] /\ PulseAllowed
          /\ value' = (value - 1) % Modulus
          /\ lag' = [c \in Consumers |-> IF pc[c] \in Window THEN lag[c] + 1 ELSE lag[c]]
          /\ Goto(p, "wake")
       \/ /\ value # old[p]
          /\ Goto(p, "load")
          /\ UNCHANGED <<value, lag>>
    /\ UNCHANGED <<holder, items, old, all>>

Sleepers == {c \in Consumers : pc[c] = "asleep"}

\* A plausible bug: no wake call.
NoWake(p) ==
    /\ pc[p] = "wake"
    /\ Goto(p, "leave")
    /\ UNCHANGED <<holder, items, value, old, all, lag>>

\* FUTEX_WAKE of one sleeper or of all of them.
FutexWake(p) ==
    /\ pc[p] = "wake"
    /\ \/ /\ all[p] \/ Sleepers = {}
          /\ pc' = [t \in Threads |-> IF t = p THEN "leave"
                                      ELSE IF t \in Sleepers THEN "relock" ELSE pc[t]]
       \/ /\ ~all[p]
          /\ \E c \in Sleepers : pc' = [pc EXCEPT ![p] = "leave", ![c] = "relock"]
    /\ UNCHANGED <<holder, items, value, old, all, lag>>

\* The call has returned; a producer that kept the mutex unlocks it.
Leave(p) ==
    /\ pc[p] = "leave"
    /\ holder' = IF holder = p THEN Nobody ELSE holder
    /\ Goto(p, "out")
    /\ old' = [old EXCEPT ![p] = 0]
    /\ all' = [all EXCEPT ![p] = FALSE]
    /\ UNCHANGED <<items, value, lag>>

-----------------------------------------------------------------------------
\* Steps that the scheduler runs once a thread is inside the library, or holds
\* the mutex: a consumer takes or waits, a producer announces.
ConsumerStep(c) ==
    Take(c) \/ CallWait(c) \/ ReadCounter(c) \/ UnlockToWait(c) \/ FutexWait(c)

ProducerStep(p) ==
    \/ UnlockFirst(p) \/ AnnounceFirst(p)
    \/ LoadCounter(p) \/ PulseCounter(p) \/ FutexWake(p) \/ Leave(p)

\* The mutex is free and some consumer at the end of its wait gets it.
ServeRelock == \E c \in Consumers : pc[c] = "relock" /\ LockToTest(c)

Next ==
    \/ \E c \in Consumers :
        \/ ConsumerStep(c)
        \/ LockToTest(c) \/ ExpiredBefore(c) \/ WaitEnds(c)
    \/ \E p \in Producers : LockToMake(p) \/ ProducerStep(p)

Spec == Init /\ [][Next]_vars

\* Threads inside the library run, and the mutex is served as AbstractMutex
\* promises: some thread gets it while it is free, no thread in particular.
\* Nobody has to start anything, and neither signals nor time limits have to
\* end a wait.
Fairness ==
    /\ \A c \in Consumers : WF_vars(ConsumerStep(c))
    /\ \A p \in Producers : WF_vars(ProducerStep(p))
    /\ WF_vars(ServeRelock)

FairSpec == Spec /\ Fairness

-----------------------------------------------------------------------------
(* Properties. *)

\* Every variable has its type.
TypeOK ==
    /\ holder \in Threads \cup {Nobody}
    /\ items \in 0 .. MaxItems
    /\ value \in 0 .. Modulus - 1
    /\ pc \in [Threads -> ConsumerPoints \cup ProducerPoints]
    /\ old \in [Threads -> 0 .. Modulus - 1]
    /\ all \in [Producers -> BOOLEAN]
    /\ lag \in [Consumers -> 0 .. Modulus - 1]

\* cond_wait returns with the mutex, and nobody touches the items without it.
WaitReturnsLocked ==
    \A t \in Threads :
        pc[t] = "in" \/ (t \in Consumers /\ pc[t] \in {"read", "unlock"}) => holder = t

\* No signal is missed: a consumer sleeps only if no pulse came between its
\* read of the counter, under the mutex, and its sleep.
NoPulseMissed == \A c \in Sleepers : lag[c] = 0

\* Items do not lie there while consumers sleep and nobody is about to wake
\* one: a sleeping consumer and an item mean that a producer will announce it
\* or that an awake consumer will come and look.
NobodySleepsOnItems ==
    items > 0 /\ Sleepers # {} =>
        \/ \E p \in Producers : pc[p] # "out"
        \/ \E c \in Consumers : pc[c] \notin {"asleep", "out"}

\* Items made for waiting consumers are taken, or the waiting is over.
ItemsAreTaken == (items > 0 /\ Sleepers # {}) ~> (items = 0 \/ Sleepers = {})
============================================================================
