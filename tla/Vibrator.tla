------------------------------ MODULE Vibrator ------------------------------
(***************************************************************************)
(* vibrator.c: sendit and the session it keeps with the vibration service  *)
(* (immvibed) through libImmVibeJ.so.  One action is one call of the       *)
(* library, so that the service can die between any two of them.           *)
(*                                                                         *)
(* The library and the service are external: any call may fail, a call     *)
(* with a handle or a session that the service does not know does fail,    *)
(* closing a handle ends its effects, and ending the session closes all    *)
(* handles.  The callers of sendit do so one at a time and ignore the      *)
(* number it returns, which is left out (0 for a vibration that failed, -1 *)
(* for one that plays: the README says what about it is wrong).            *)
(***************************************************************************)
EXTENDS Integers

CONSTANT Handles    \* the device handles the service gives out

\* 0 and -1 are not handles: VIBE_IS_INVALID_DEVICE_HANDLE.
ASSUME HandlesAssumption == Handles \subseteq Int \ {0, -1}

VARIABLES
    loaded,              \* the symbols of the library are there
    immVibeInitialized, devHandle,
    pc,                  \* the library call sendit makes next, or "idle"
    on,                  \* timeout_ms of the last request is not 0
    session,             \* the service knows of a session (external)
    open,                \* its open handles (external)
    playing,             \* the handles with an effect that plays (external)
    fails,               \* requests failed since the last fault or success (history)
    stopped,             \* the last request was to stop, and was done (history)
    stale,               \* the service has died since devHandle was opened (history)
    leak                 \* ImmVibeTerminate has failed on this session (history)

driverVars  == <<loaded, immVibeInitialized, devHandle>>
serviceVars == <<session, open, playing>>
historyVars == <<stopped, stale, leak>>
vars == <<driverVars, pc, on, serviceVars, fails, historyVars>>

VIBE_INVALID_DEVICE_HANDLE_VALUE == -1
Valid(h) == h \notin {0, VIBE_INVALID_DEVICE_HANDLE_VALUE}

Init ==
    /\ loaded = FALSE /\ immVibeInitialized = FALSE
    /\ devHandle = VIBE_INVALID_DEVICE_HANDLE_VALUE
    /\ pc = "idle" /\ on = FALSE
    /\ session = FALSE /\ open = {} /\ playing = {}
    /\ fails = 0 /\ stopped = FALSE /\ stale = FALSE /\ leak = FALSE

-----------------------------------------------------------------------------
(* sendit. *)

\* sendit returns; ok tells whether it has done what it was asked for.
Return(ok) ==
    /\ pc' = "idle"
    /\ fails' = IF ok THEN 0 ELSE IF fails < 2 THEN fails + 1 ELSE 2
    /\ stopped' = (ok /\ ~on)

Goto(p) == pc' = p /\ UNCHANGED <<fails, stopped>>

\* The same two, when a call of the library has failed for no reason of ours:
\* from here the requests that fail are counted anew.
ReturnOnFault  == pc' = "idle" /\ fails' = 1 /\ stopped' = FALSE
GotoOnFault(p) == pc' = p /\ fails' = 0 /\ UNCHANGED stopped

\* vibrate_init goes through these in order and skips what it has.
InitPoint(l, i, h) ==
    IF ~l THEN "load" ELSE IF ~i THEN "initialize" ELSE IF ~Valid(h) THEN "open" ELSE "play"

\* vibrate_terminate starts with the handle, if there is one.
TerminatePoint(h) == IF Valid(h) THEN "close" ELSE "terminate"

Sendit(b) ==
    /\ pc = "idle"
    /\ on' = b /\ stopped' = FALSE
    /\ pc' = InitPoint(loaded, immVibeInitialized, devHandle)
    /\ UNCHANGED <<driverVars, serviceVars, fails, stale, leak>>

\* libImmVibeJ_init: all the symbols, or none.
Load ==
    /\ pc = "load"
    /\ \/ loaded' = TRUE /\ Goto(InitPoint(TRUE, immVibeInitialized, devHandle))
       \/ UNCHANGED loaded /\ ReturnOnFault
    /\ UNCHANGED <<serviceVars, immVibeInitialized, devHandle, on, stale, leak>>

Initialize ==
    /\ pc = "initialize"
    /\ \/ immVibeInitialized' = TRUE /\ session' = TRUE /\ Goto(InitPoint(TRUE, TRUE, devHandle))
       \/ UNCHANGED <<immVibeInitialized, session>> /\ ReturnOnFault
    /\ UNCHANGED <<loaded, devHandle, open, playing, on, stale, leak>>

Open ==
    /\ pc = "open"
    /\ \/ /\ session
          /\ \E h \in Handles \ open : devHandle' = h /\ open' = open \cup {h}
          /\ stale' = FALSE
          /\ Goto("play")
       \/ ~session /\ UNCHANGED <<devHandle, open, stale>> /\ Goto(TerminatePoint(devHandle))
       \/ UNCHANGED <<devHandle, open, stale>> /\ GotoOnFault(TerminatePoint(devHandle))
    /\ UNCHANGED <<loaded, immVibeInitialized, session, playing, on, leak>>

\* A plausible bug: a failed effect keeps the session.
PlayFailsAndKeeps ==
    /\ pc = "play" /\ on
    /\ \/ devHandle \in open /\ playing' = playing \cup {devHandle} /\ Return(TRUE)
       \/ devHandle \notin open /\ UNCHANGED playing /\ Return(FALSE)
       \/ UNCHANGED playing /\ ReturnOnFault
    /\ UNCHANGED <<driverVars, session, open, on, stale, leak>>

\* vibrate_on.
Play ==
    /\ pc = "play" /\ on
    /\ \/ devHandle \in open /\ playing' = playing \cup {devHandle} /\ Return(TRUE)
       \/ devHandle \notin open /\ UNCHANGED playing /\ Goto("close")
       \/ UNCHANGED playing /\ GotoOnFault("close")
    /\ UNCHANGED <<driverVars, session, open, on, stale, leak>>

\* A plausible bug: the failure of the stop is not noticed.
StopUnchecked ==
    /\ pc = "play" /\ ~on
    /\ playing' \in {playing, playing \ {devHandle}}
    /\ Return(TRUE)
    /\ UNCHANGED <<driverVars, session, open, on, stale, leak>>

\* vibrate_off.
Stop ==
    /\ pc = "play" /\ ~on
    /\ \/ devHandle \in open /\ playing' = playing \ {devHandle} /\ Return(TRUE)
       \/ devHandle \notin open /\ UNCHANGED playing /\ Goto("close")
       \/ UNCHANGED playing /\ GotoOnFault("close")
    /\ UNCHANGED <<driverVars, session, open, on, stale, leak>>

\* A plausible bug: the handle is kept.
CloseKeepsHandle ==
    /\ pc = "close"
    /\ open' = open \ {devHandle} /\ playing' = playing \ {devHandle} /\ Goto("terminate")
    /\ UNCHANGED <<driverVars, session, on, stale, leak>>

\* vibrate_terminate ignores what its two calls return.  It is reached with the
\* session marked as initialised only.
Close ==
    /\ pc = "close"
    /\ \/ open' = open \ {devHandle} /\ playing' = playing \ {devHandle} /\ Goto("terminate")
       \/ UNCHANGED <<open, playing>> /\ GotoOnFault("terminate")
    /\ devHandle' = VIBE_INVALID_DEVICE_HANDLE_VALUE /\ stale' = FALSE
    /\ UNCHANGED <<loaded, immVibeInitialized, session, on, leak>>

Terminate ==
    /\ pc = "terminate"
    /\ immVibeInitialized' = FALSE
    /\ \/ session' = FALSE /\ open' = {} /\ playing' = {} /\ leak' = FALSE /\ Return(FALSE)
       \/ UNCHANGED <<session, open, playing>> /\ leak' = session /\ ReturnOnFault
    /\ UNCHANGED <<loaded, devHandle, on, stale>>

-----------------------------------------------------------------------------
(* The service and the process. *)

EffectEnds ==
    /\ \E h \in playing : playing' = playing \ {h}
    /\ UNCHANGED <<driverVars, pc, on, session, open, fails, historyVars>>

\* immvibed dies, and init starts it again: it knows nothing any more.
ServiceDies ==
    /\ session' = FALSE /\ open' = {} /\ playing' = {}
    /\ stale' = Valid(devHandle)
    /\ leak' = FALSE /\ fails' = 0
    /\ UNCHANGED <<driverVars, pc, on, stopped>>

\* The process that calls sendit dies; the service drops its session.
ProcessDies ==
    /\ loaded' = FALSE /\ immVibeInitialized' = FALSE
    /\ devHandle' = VIBE_INVALID_DEVICE_HANDLE_VALUE
    /\ pc' = "idle" /\ on' = FALSE
    /\ session' = FALSE /\ open' = {} /\ playing' = {}
    /\ fails' = 0 /\ stopped' = FALSE /\ stale' = FALSE /\ leak' = FALSE

Next ==
    \/ \E b \in BOOLEAN : Sendit(b)
    \/ Load \/ Initialize \/ Open \/ Play \/ Stop \/ Close \/ Terminate
    \/ EffectEnds \/ ServiceDies \/ ProcessDies

Spec == Init /\ [][Next]_vars

-----------------------------------------------------------------------------
(* Properties. *)

\* Every variable has its type, and effects play on open handles only.
TypeOK ==
    /\ loaded \in BOOLEAN /\ immVibeInitialized \in BOOLEAN
    /\ devHandle \in Handles \cup {VIBE_INVALID_DEVICE_HANDLE_VALUE}
    /\ pc \in {"idle", "load", "initialize", "open", "play", "close", "terminate"}
    /\ on \in BOOLEAN /\ session \in BOOLEAN
    /\ playing \subseteq open /\ open \subseteq Handles
    /\ fails \in 0 .. 2 /\ stopped \in BOOLEAN /\ stale \in BOOLEAN /\ leak \in BOOLEAN

\* Driver and service agree on handles and sessions, whatever failed.  No call
\* is made with a handle that sendit has closed or that went with a session it
\* has ended (only the death of the service makes one stale), and between
\* requests the service has nothing open that sendit has forgotten (only a
\* failed ImmVibeTerminate, which is not retried, leaves something behind).
SessionIsOurs ==
    /\ Valid(devHandle) => loaded /\ immVibeInitialized /\ (devHandle \in open \/ stale)
    /\ pc \in {"play", "close"} => Valid(devHandle)
    /\ pc = "idle" /\ ~leak => open \subseteq {devHandle} /\ (session => immVibeInitialized)

\* A failure costs one request: after the last one, or after a death of the
\* service, at most one more request fails, since the session is begun anew.
AtMostOneMoreFails == fails <= 1

\* A request to stop that was done has stopped every effect, those started
\* with earlier handles too (unless a session was left behind).
OffMeansOff == pc = "idle" /\ stopped /\ ~leak => playing = {}
=============================================================================
