--------------------------- MODULE AbstractMutex ---------------------------
(***************************************************************************)
(* What pthread_mutex_lock, _trylock, _lock_timeout_np and _unlock promise *)
(* to their callers, whatever the type of the mutex: at most one thread    *)
(* holds it, lock returns only with it, and a free mutex that threads want *)
(* does not stay free.  Futexes, the mutex word and its states    *)
(* are not visible here.                                                   *)
(***************************************************************************)
CONSTANT Threads

VARIABLES holding,    \* the threads that hold the mutex: at most one
          blocked,    \* the threads inside pthread_mutex_lock
          trying,     \* the threads inside a call that may return EBUSY
          alive       \* FALSE between pthread_mutex_destroy and the next init

vars == <<holding, blocked, trying, alive>>

Init == holding = {} /\ blocked = {} /\ trying = {} /\ alive = TRUE

\* A thread calls lock, or one of the functions that may give up.
Lock(t) ==
    /\ alive
    /\ t \notin holding \cup blocked \cup trying
    /\ blocked' = blocked \cup {t}
    /\ UNCHANGED <<holding, trying, alive>>

Try(t) ==
    /\ alive
    /\ t \notin holding \cup blocked \cup trying
    /\ trying' = trying \cup {t}
    /\ UNCHANGED <<holding, blocked, alive>>

\* The call takes the free mutex for its caller.
Acquire(t) ==
    /\ t \in blocked \cup trying
    /\ holding = {}
    /\ holding' = {t}
    /\ blocked' = blocked \ {t}
    /\ trying' = trying \ {t}
    /\ UNCHANGED alive

\* trylock, lock_timeout_np or destroy returns EBUSY; lock never does.
GiveUp(t) ==
    /\ t \in trying
    /\ trying' = trying \ {t}
    /\ UNCHANGED <<holding, blocked, alive>>

\* The holder's unlock takes effect.
Release(t) ==
    /\ t \in holding
    /\ holding' = holding \ {t}
    /\ UNCHANGED <<blocked, trying, alive>>

\* A destroy that has taken the mutex retires it; init makes it usable again.
Destroy(t) ==
    /\ t \in holding /\ blocked \cup trying = {}
    /\ holding' = {}
    /\ alive' = FALSE
    /\ UNCHANGED <<blocked, trying>>

Reinit ==
    /\ ~alive
    /\ alive' = TRUE
    /\ UNCHANGED <<holding, blocked, trying>>

Next ==
    \/ \E t \in Threads :
        \/ Lock(t) \/ Try(t) \/ Acquire(t) \/ GiveUp(t)
        \/ Release(t) \/ Destroy(t)
    \/ Reinit

\* The safety half of the promise, without the progress condition.
SafeSpec == Init /\ [][Next]_vars

\* While the mutex is free, some call that wants it takes it or gives up: the
\* mutex as a whole makes progress, a particular thread may starve.
Serve == holding = {} /\ \E t \in Threads : Acquire(t) \/ GiveUp(t)

Spec == SafeSpec /\ WF_vars(Serve)
============================================================================
