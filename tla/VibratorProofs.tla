--------------------------- MODULE VibratorProofs ---------------------------
(***************************************************************************)
(* Proofs about Vibrator, for every set of device handles.                 *)
(***************************************************************************)
EXTENDS Vibrator, TLAPS

(***************************************************************************)
(* What the properties need besides themselves.                            *)
(***************************************************************************)

\* A call of the library is made when the calls before it have succeeded.
CallsInOrder ==
    /\ immVibeInitialized => loaded
    /\ pc = "load" => ~loaded
    /\ pc = "initialize" => loaded /\ ~immVibeInitialized
    /\ pc \in {"open", "terminate"} => immVibeInitialized /\ ~Valid(devHandle)
    /\ pc \in {"play", "close"} => immVibeInitialized /\ Valid(devHandle)

\* Handles belong to a session of the service, and it is only between a failed
\* close and the end of the session that sendit has lost one.
HandlesAreOurs ==
    /\ ~session => open = {}
    /\ stale => Valid(devHandle)
    /\ Valid(devHandle) => immVibeInitialized /\ (devHandle \in open \/ stale)
    /\ ~leak /\ pc # "terminate" => open \subseteq {devHandle}
    /\ ~leak /\ session => immVibeInitialized

\* After a failed request everything that sendit believes in is there, so that
\* only a new fault makes the next one fail.
FailureRepaired ==
    fails # 0 =>
        /\ fails = 1
        /\ pc \notin {"close", "terminate"}
        /\ ~stale
        /\ immVibeInitialized => session

\* The type invariant in two parts: truth values, and the rest.
TruthsOK ==
    /\ loaded \in BOOLEAN /\ immVibeInitialized \in BOOLEAN
    /\ on \in BOOLEAN /\ session \in BOOLEAN
    /\ stopped \in BOOLEAN /\ stale \in BOOLEAN /\ leak \in BOOLEAN

OthersOK ==
    /\ devHandle \in Handles \cup {VIBE_INVALID_DEVICE_HANDLE_VALUE}
    /\ pc \in {"idle", "load", "initialize", "open", "play", "close", "terminate"}
    /\ playing \subseteq open /\ open \subseteq Handles
    /\ fails \in 0 .. 2

\* The inductive invariant.
IInv ==
    /\ TypeOK
    /\ CallsInOrder
    /\ HandlesAreOurs
    /\ FailureRepaired
    /\ OffMeansOff

USE DEF VIBE_INVALID_DEVICE_HANDLE_VALUE, Valid, driverVars, serviceVars, historyVars

LEMMA TypeParts == TypeOK <=> TruthsOK /\ OthersOK
BY DEF TypeOK, TruthsOK, OthersOK

LEMMA TypePartsNext == TypeOK' <=> TruthsOK' /\ OthersOK'
BY DEF TypeOK, TruthsOK, OthersOK

LEMMA InitEstablishes == Init => IInv
<1> SUFFICES ASSUME Init PROVE IInv
    OBVIOUS
<1> USE DEF Init
<1>1. TruthsOK  BY Zenon DEF TruthsOK
<1>2. OthersOK  BY DEF OthersOK
<1>3. CallsInOrder  BY DEF CallsInOrder
<1>4. HandlesAreOurs  BY DEF HandlesAreOurs
<1>5. FailureRepaired /\ OffMeansOff  BY DEF FailureRepaired, OffMeansOff
<1> QED BY <1>1, <1>2, <1>3, <1>4, <1>5, TypeParts DEF IInv

LEMMA RequestPreserves ==
    ASSUME IInv, \E b \in BOOLEAN : Sendit(b)
    PROVE  IInv'
<1> USE HandlesAssumption DEF IInv, Sendit, InitPoint
<1>1. TruthsOK'         BY TypeParts, Zenon DEF TruthsOK
<1>2. OthersOK'         BY TypeParts DEF OthersOK
<1>3. CallsInOrder'     BY TypeParts DEF TruthsOK, OthersOK, CallsInOrder, HandlesAreOurs
<1>4. HandlesAreOurs'   BY DEF HandlesAreOurs
<1>5. FailureRepaired'  BY DEF FailureRepaired
<1>6. OffMeansOff'      BY DEF OffMeansOff
<1> QED BY <1>1, <1>2, <1>3, <1>4, <1>5, <1>6, TypePartsNext

LEMMA LoadPreserves == ASSUME IInv, Load PROVE IInv'
<1> USE HandlesAssumption, TypeParts DEF IInv, Load, Goto, InitPoint, ReturnOnFault
<1>1. TruthsOK'         BY Zenon DEF TruthsOK
<1>2. OthersOK'         BY DEF TruthsOK, OthersOK
<1>3. CallsInOrder'     BY DEF TruthsOK, OthersOK, CallsInOrder, HandlesAreOurs
<1>4. HandlesAreOurs'   BY DEF TruthsOK, OthersOK, CallsInOrder, HandlesAreOurs
<1>5. FailureRepaired'  BY DEF TruthsOK, OthersOK, CallsInOrder, HandlesAreOurs, FailureRepaired
<1>6. OffMeansOff'      BY DEF TruthsOK, OthersOK, OffMeansOff, HandlesAreOurs
<1> QED BY <1>1, <1>2, <1>3, <1>4, <1>5, <1>6, TypePartsNext

LEMMA InitializePreserves == ASSUME IInv, Initialize PROVE IInv'
<1> USE HandlesAssumption, TypeParts DEF IInv, Initialize, Goto, InitPoint, ReturnOnFault
<1>1. TruthsOK'         BY Zenon DEF TruthsOK
<1>2. OthersOK'         BY DEF TruthsOK, OthersOK
<1>3. CallsInOrder'     BY DEF TruthsOK, OthersOK, CallsInOrder, HandlesAreOurs
<1>4. HandlesAreOurs'   BY DEF TruthsOK, OthersOK, CallsInOrder, HandlesAreOurs
<1>5. FailureRepaired'  BY DEF TruthsOK, OthersOK, CallsInOrder, HandlesAreOurs, FailureRepaired
<1>6. OffMeansOff'      BY DEF TruthsOK, OthersOK, OffMeansOff, HandlesAreOurs
<1> QED BY <1>1, <1>2, <1>3, <1>4, <1>5, <1>6, TypePartsNext

LEMMA OpenPreserves == ASSUME IInv, Open PROVE IInv'
<1> USE HandlesAssumption, TypeParts DEF IInv, Open, Goto, GotoOnFault, TerminatePoint
<1>1. TruthsOK'         BY Zenon DEF TruthsOK
<1>2. OthersOK'         BY DEF TruthsOK, OthersOK
<1>3. CallsInOrder'     BY DEF TruthsOK, OthersOK, CallsInOrder, HandlesAreOurs
<1>4. HandlesAreOurs'   BY DEF TruthsOK, OthersOK, CallsInOrder, HandlesAreOurs
<1>5. FailureRepaired'  BY DEF TruthsOK, OthersOK, CallsInOrder, HandlesAreOurs, FailureRepaired
<1>6. OffMeansOff'      BY DEF TruthsOK, OthersOK, OffMeansOff, HandlesAreOurs
<1> QED BY <1>1, <1>2, <1>3, <1>4, <1>5, <1>6, TypePartsNext

LEMMA PlayPreserves == ASSUME IInv, Play PROVE IInv'
<1> USE HandlesAssumption, TypeParts DEF IInv, Play, Goto, GotoOnFault, Return
<1>1. TruthsOK'         BY Zenon DEF TruthsOK
<1>2. OthersOK'         BY DEF TruthsOK, OthersOK
<1>3. CallsInOrder'     BY DEF TruthsOK, OthersOK, CallsInOrder, HandlesAreOurs
<1>4. HandlesAreOurs'   BY DEF TruthsOK, OthersOK, CallsInOrder, HandlesAreOurs
<1>5. FailureRepaired'  BY DEF TruthsOK, OthersOK, CallsInOrder, HandlesAreOurs, FailureRepaired
<1>6. OffMeansOff'      BY DEF TruthsOK, OthersOK, OffMeansOff, HandlesAreOurs
<1> QED BY <1>1, <1>2, <1>3, <1>4, <1>5, <1>6, TypePartsNext

LEMMA StopPreserves == ASSUME IInv, Stop PROVE IInv'
<1> USE HandlesAssumption, TypeParts DEF IInv, Stop, Goto, GotoOnFault, Return
<1>1. TruthsOK'         BY Zenon DEF TruthsOK
<1>2. OthersOK'         BY DEF TruthsOK, OthersOK
<1>3. CallsInOrder'     BY DEF TruthsOK, OthersOK, CallsInOrder, HandlesAreOurs
<1>4. HandlesAreOurs'   BY DEF TruthsOK, OthersOK, CallsInOrder, HandlesAreOurs
<1>5. FailureRepaired'  BY DEF TruthsOK, OthersOK, CallsInOrder, HandlesAreOurs, FailureRepaired
<1>6. OffMeansOff'      BY DEF TruthsOK, OthersOK, OffMeansOff, HandlesAreOurs
<1> QED BY <1>1, <1>2, <1>3, <1>4, <1>5, <1>6, TypePartsNext

LEMMA ClosePreserves == ASSUME IInv, Close PROVE IInv'
<1> USE HandlesAssumption, TypeParts DEF IInv, Close, Goto, GotoOnFault
<1>1. TruthsOK'         BY Zenon DEF TruthsOK
<1>2. OthersOK'         BY DEF TruthsOK, OthersOK
<1>3. CallsInOrder'     BY DEF TruthsOK, OthersOK, CallsInOrder, HandlesAreOurs
<1>4. HandlesAreOurs'   BY DEF TruthsOK, OthersOK, CallsInOrder, HandlesAreOurs
<1>5. FailureRepaired'  BY DEF TruthsOK, OthersOK, CallsInOrder, HandlesAreOurs, FailureRepaired
<1>6. OffMeansOff'      BY DEF TruthsOK, OthersOK, OffMeansOff, HandlesAreOurs
<1> QED BY <1>1, <1>2, <1>3, <1>4, <1>5, <1>6, TypePartsNext

LEMMA TerminatePreserves == ASSUME IInv, Terminate PROVE IInv'
<1> USE HandlesAssumption, TypeParts DEF IInv, Terminate, Return, ReturnOnFault
<1>1. TruthsOK'         BY Zenon DEF TruthsOK
<1>2. OthersOK'         BY DEF TruthsOK, OthersOK
<1>3. CallsInOrder'     BY DEF TruthsOK, OthersOK, CallsInOrder, HandlesAreOurs
<1>4. HandlesAreOurs'   BY DEF TruthsOK, OthersOK, CallsInOrder, HandlesAreOurs
<1>5. FailureRepaired'  BY DEF TruthsOK, OthersOK, CallsInOrder, HandlesAreOurs, FailureRepaired
<1>6. OffMeansOff'      BY DEF TruthsOK, OthersOK, OffMeansOff, HandlesAreOurs
<1> QED BY <1>1, <1>2, <1>3, <1>4, <1>5, <1>6, TypePartsNext

LEMMA EffectEndsPreserves == ASSUME IInv, EffectEnds PROVE IInv'
<1> USE HandlesAssumption, TypeParts DEF IInv, EffectEnds
<1>1. TruthsOK'         BY Zenon DEF TruthsOK
<1>2. OthersOK'         BY DEF TruthsOK, OthersOK
<1>3. CallsInOrder'     BY DEF TruthsOK, OthersOK, CallsInOrder, HandlesAreOurs
<1>4. HandlesAreOurs'   BY DEF TruthsOK, OthersOK, CallsInOrder, HandlesAreOurs
<1>5. FailureRepaired'  BY DEF TruthsOK, OthersOK, CallsInOrder, HandlesAreOurs, FailureRepaired
<1>6. OffMeansOff'      BY DEF TruthsOK, OthersOK, OffMeansOff, HandlesAreOurs
<1> QED BY <1>1, <1>2, <1>3, <1>4, <1>5, <1>6, TypePartsNext

LEMMA ServiceDiesPreserves == ASSUME IInv, ServiceDies PROVE IInv'
<1> USE HandlesAssumption, TypeParts DEF IInv, ServiceDies
<1>1. TruthsOK'         BY Zenon DEF TruthsOK
<1>2. OthersOK'         BY DEF TruthsOK, OthersOK
<1>3. CallsInOrder'     BY DEF TruthsOK, OthersOK, CallsInOrder, HandlesAreOurs
<1>4. HandlesAreOurs'   BY DEF TruthsOK, OthersOK, CallsInOrder, HandlesAreOurs
<1>5. FailureRepaired'  BY DEF TruthsOK, OthersOK, CallsInOrder, HandlesAreOurs, FailureRepaired
<1>6. OffMeansOff'      BY DEF TruthsOK, OthersOK, OffMeansOff, HandlesAreOurs
<1> QED BY <1>1, <1>2, <1>3, <1>4, <1>5, <1>6, TypePartsNext

LEMMA ProcessDiesPreserves == ASSUME IInv, ProcessDies PROVE IInv'
<1> USE HandlesAssumption, TypeParts DEF IInv, ProcessDies
<1>1. TruthsOK'         BY Zenon DEF TruthsOK
<1>2. OthersOK'         BY DEF TruthsOK, OthersOK
<1>3. CallsInOrder'     BY DEF TruthsOK, OthersOK, CallsInOrder, HandlesAreOurs
<1>4. HandlesAreOurs'   BY DEF TruthsOK, OthersOK, CallsInOrder, HandlesAreOurs
<1>5. FailureRepaired'  BY DEF TruthsOK, OthersOK, CallsInOrder, HandlesAreOurs, FailureRepaired
<1>6. OffMeansOff'      BY DEF TruthsOK, OthersOK, OffMeansOff, HandlesAreOurs
<1> QED BY <1>1, <1>2, <1>3, <1>4, <1>5, <1>6, TypePartsNext
LEMMA NextPreserves == IInv /\ [Next]_vars => IInv'
<1> SUFFICES ASSUME IInv, [Next]_vars PROVE IInv'
    OBVIOUS
<1>1. CASE UNCHANGED vars
    BY <1>1 DEF vars, IInv, TypeOK, CallsInOrder, HandlesAreOurs, FailureRepaired, OffMeansOff
<1>2. CASE Next
    BY <1>2, RequestPreserves, LoadPreserves, InitializePreserves, OpenPreserves,
       PlayPreserves, StopPreserves, ClosePreserves, TerminatePreserves,
       EffectEndsPreserves, ServiceDiesPreserves, ProcessDiesPreserves DEF Next
<1> QED BY <1>1, <1>2

-----------------------------------------------------------------------------
\* The inductive invariant holds of every reachable state.
THEOREM Invariance == Spec => []IInv
BY InitEstablishes, NextPreserves, PTL DEF Spec

\* Every variable keeps its type: devHandle is -1 or a handle of the service,
\* and effects play on open handles only.
THEOREM TypeCorrect == Spec => []TypeOK
<1>1. IInv => TypeOK  BY DEF IInv
<1> QED BY <1>1, Invariance, PTL

\* vibrate_init and vibrate_terminate keep the driver and the service agreed on
\* the session and its handles, for any number of handles and of failed calls.
THEOREM OurSession == Spec => []SessionIsOurs
<1>1. IInv => SessionIsOurs
    BY TypeParts DEF IInv, TruthsOK, OthersOK, CallsInOrder, HandlesAreOurs, SessionIsOurs
<1> QED BY <1>1, Invariance, PTL

\* sendit begins the session anew after a failure, so one request pays for it.
THEOREM RecoversAtOnce == Spec => []AtMostOneMoreFails
<1>1. IInv => AtMostOneMoreFails
    BY TypeParts DEF IInv, OthersOK, FailureRepaired, AtMostOneMoreFails
<1> QED BY <1>1, Invariance, PTL

\* sendit(0) leaves no effect of this or an earlier handle playing.
THEOREM OffIsOff == Spec => []OffMeansOff
<1>1. IInv => OffMeansOff  BY DEF IInv
<1> QED BY <1>1, Invariance, PTL
=============================================================================
