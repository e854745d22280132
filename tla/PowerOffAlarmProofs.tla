------------------------ MODULE PowerOffAlarmProofs ------------------------
(***************************************************************************)
(* Proofs about PowerOffAlarm, for clocks of any resolution, any alarms    *)
(* and any lead.  Spec's fairness is not needed for what is proved here.   *)
(***************************************************************************)
EXTENDS PowerOffAlarm, TLAPS

(***************************************************************************)
(* What the properties need besides themselves.                            *)
(***************************************************************************)

\* RegisterMatchesAlarm in every mode: only between load_bootinfo, which clears
\* the register, and the AlarmManager, which sets it, may it be empty.
RegisterFits ==
    fault \cap {"reg", "cut"} = {} => reg = Armed(alarm) \/ (mode = "starting" /\ reg = 0)

\* What the thread has read is the register's time for the user's alarm.
ThreadKnowsAlarm ==
    pc \notin {"none", "readalarm"} /\ fault \cap {"reg", "cut", "empty"} = {} =>
        alarm # 0 /\ alm = PreAlarm(alarm)

\* When the thread has decided to restart the phone, the time it has read was
\* ErrSecs away at most, and it has been late ticks ago.
DecidedInTime == pc = "reboot" => clock < (alm + ErrSecs + 1) * Sec + late

\* The inductive invariant.
IInv == TypeOK /\ RegisterFits /\ ThreadKnowsAlarm /\ DecidedInTime

\* TypeOK in two parts: the Boolean variables, which the SMT solver does not
\* reason about, and the others.
TruthsOK == byRtc \in BOOLEAN /\ alarmBoot \in BOOLEAN

NumbersOK ==
    /\ clock \in 0 .. MaxTime /\ skew \in 0 .. Sec - 1 /\ late \in 0 .. Slack
    /\ mode \in {"off", "charger", "boot", "starting", "android"}
    /\ alarm \in Alarms \cup {0} /\ reg \in 0 .. MaxSecs
    /\ pc \in {"none", "readalarm", "readrtc", "arm", "wait", "check", "reboot"}
    /\ alm \in 0 .. MaxSecs /\ rb \in 0 .. MaxSecs /\ due \in Nat
    /\ pc # "none" => mode = "charger"
    /\ fault \subseteq Faults

LEMMA TypeParts == TypeOK <=> NumbersOK /\ TruthsOK
BY Zenon DEF TypeOK, NumbersOK, TruthsOK

LEMMA TypePartsNext == TypeOK' <=> NumbersOK' /\ TruthsOK'
BY Zenon DEF TypeOK, NumbersOK, TruthsOK

USE AlarmAssumption
USE DEF Faults, timeVars, deviceVars, threadVars

-----------------------------------------------------------------------------
(* Arithmetic of the clock and of the register. *)

LEMMA RtcOfClock ==
    ASSUME NEW n \in 0 .. MaxTime
    PROVE  /\ n \div Sec \in 0 .. MaxSecs
           /\ (n \div Sec) * Sec <= n /\ n < (n \div Sec + 1) * Sec
<1>1. n \div Sec \in Nat /\ (n \div Sec) * Sec <= n /\ n < (n \div Sec + 1) * Sec
      OBVIOUS
<1>2. MaxTime < (MaxTime \div Sec + 1) * Sec /\ MaxTime \div Sec \in Nat
      OBVIOUS
<1>3. n \div Sec <= MaxTime \div Sec
    <2>1. (n \div Sec) * Sec < (MaxTime \div Sec + 1) * Sec  BY <1>1, <1>2
    <2> QED BY <1>1, <1>2, <2>1
<1> QED BY <1>1, <1>3 DEF MaxSecs

\* A tick moves the RTC by one second at most.
LEMMA RtcStep ==
    ASSUME NEW n \in Nat
    PROVE  (n + 1) \div Sec \in {n \div Sec, n \div Sec + 1}
OBVIOUS

LEMMA PreAlarmInRange ==
    ASSUME NEW a \in Alarms
    PROVE  PreAlarm(a) \in 0 .. MaxSecs /\ PreAlarm(a) <= a
<1>1. MaxSecs \in Nat  BY DEF MaxSecs
<1> QED BY <1>1 DEF PreAlarm

LEMMA ArmedInRange ==
    ASSUME NumbersOK
    PROVE  \A a \in Alarms \cup {0} : Armed(a) \in 0 .. MaxSecs
<1>1. MaxSecs \in Nat  BY DEF MaxSecs
<1> QED BY <1>1, PreAlarmInRange DEF Armed

-----------------------------------------------------------------------------
LEMMA InitEstablishes == Init => IInv
<1> SUFFICES ASSUME Init PROVE IInv
    OBVIOUS
<1>1. MaxSecs \in Nat  BY DEF MaxSecs
<1>2. NumbersOK  BY <1>1 DEF Init, NumbersOK
<1>3. TruthsOK  BY Zenon DEF Init, TruthsOK
<1>4. RegisterFits /\ ThreadKnowsAlarm /\ DecidedInTime
      BY DEF Init, RegisterFits, ThreadKnowsAlarm, DecidedInTime, Armed
<1> QED BY <1>2, <1>3, <1>4, TypeParts DEF IInv

\* A step leaves the Boolean variables Boolean.
LEMMA TruthsPreserved == TruthsOK /\ [Next]_vars => TruthsOK'
<1> SUFFICES ASSUME TruthsOK, [Next]_vars PROVE TruthsOK'
    OBVIOUS
<1> USE DEF TruthsOK
<1>1. CASE UNCHANGED vars  BY <1>1, Zenon DEF vars, deviceVars
<1>2. CASE SetAlarm  BY <1>2, Zenon DEF SetAlarm
<1>3. CASE ClearAlarm \/ Ring \/ Started  BY <1>3, Zenon DEF ClearAlarm, Ring, Started
<1>4. CASE LoadBootinfo  BY <1>4, Zenon DEF LoadBootinfo
<1>5. CASE Thread
      BY <1>5, Zenon DEF Thread, ReadAlarm, ReadRtc, Arm, Wake, CheckExpired, Reboot, Exit, ThreadStep
<1>6. CASE ThreadFails  BY <1>6, Zenon DEF ThreadFails, Exit, ThreadStep
<1>7. CASE PowerOff \/ PowerKey \/ PlugIn  BY <1>7, Zenon DEF PowerOff, PowerKey, PlugIn, Enter
<1>8. CASE Tick  BY <1>8, Zenon DEF Tick
<1> QED BY <1>1, <1>2, <1>3, <1>4, <1>5, <1>6, <1>7, <1>8, Zenon DEF Next

\* A write of a second the clock can show leaves the register one, done or not.
LEMMA WriteKeepsRange ==
    ASSUME NumbersOK, NEW r \in 0 .. MaxSecs, WakealarmWrite(r)
    PROVE  reg' \in 0 .. MaxSecs /\ fault' \subseteq Faults
<1>1. CASE reg' = r /\ fault' = fault \ {"reg", "cut"}  BY <1>1 DEF NumbersOK
<1>2. CASE UNCHANGED reg /\ fault' = fault \cup {"reg"}  BY <1>2 DEF NumbersOK
<1> QED BY <1>1, <1>2 DEF WakealarmWrite

LEMMA AndroidStepsPreserve ==
    ASSUME NumbersOK, RegisterFits, ThreadKnowsAlarm, DecidedInTime,
           SetAlarm \/ ClearAlarm \/ Ring \/ Started \/ LoadBootinfo
    PROVE  NumbersOK' /\ RegisterFits' /\ ThreadKnowsAlarm' /\ DecidedInTime'
<1> USE DEF NumbersOK
<1>1. pc = "none" /\ pc' = "none"
      BY DEF SetAlarm, ClearAlarm, Ring, Started, LoadBootinfo
<1>2. ThreadKnowsAlarm' /\ DecidedInTime'
      BY <1>1 DEF ThreadKnowsAlarm, DecidedInTime
<1>3. MaxSecs \in Nat /\ 0 \in 0 .. MaxSecs  BY DEF MaxSecs
<1>4. Rtc' = Rtc /\ Rtc \in Nat
    <2>1. clock' = clock  BY DEF SetAlarm, ClearAlarm, Ring, Started, LoadBootinfo
    <2> QED BY <2>1, RtcOfClock DEF Rtc
<1>5. CASE SetAlarm
    <2>1. PICK a \in Alarms : alarm' = a /\ WakealarmWrite(Armed(a))
          BY <1>5 DEF SetAlarm
    <2>2. Armed(a) \in 0 .. MaxSecs  BY ArmedInRange
    <2>3. NumbersOK'  BY <1>3, <1>5, <2>1, <2>2 DEF SetAlarm, WakealarmWrite
    <2>4. RegisterFits'
          BY <1>4, <2>1 DEF RegisterFits, WakealarmWrite, Armed
    <2> QED BY <1>2, <2>3, <2>4
<1>6. CASE ClearAlarm
    <2>1. NumbersOK'
        <3>1. reg' \in 0 .. MaxSecs /\ fault' \subseteq Faults
              BY <1>3, <1>6, WriteKeepsRange DEF ClearAlarm
        <3> QED BY <1>6, <3>1 DEF ClearAlarm
    <2>2. RegisterFits'  BY <1>6 DEF ClearAlarm, WakealarmWrite, RegisterFits, Armed
    <2> QED BY <1>2, <2>1, <2>2
<1>7. CASE Ring
    \* The register's time is not after the alarm's, so that it has passed.
    <2>1. Armed(alarm) = 0  BY <1>4, <1>7, PreAlarmInRange DEF Ring, Armed
    <2>2. NumbersOK'  BY <1>7 DEF Ring
    <2>3. RegisterFits'  BY <1>7, <2>1 DEF Ring, RegisterFits, Armed
    <2> QED BY <1>2, <2>2, <2>3
<1>8. CASE Started
    <2>1. Armed(alarm) \in 0 .. MaxSecs  BY ArmedInRange
    <2>2. NumbersOK'  BY <1>3, <1>8, <2>1 DEF Started, WakealarmWrite
    <2>3. Armed(alarm)' = Armed(alarm)  BY <1>4, <1>8 DEF Started, Armed
    <2>4. RegisterFits'
          BY <1>8, <2>3 DEF Started, RegisterFits, WakealarmWrite, Armed
    <2> QED BY <1>2, <2>2, <2>4
<1>9. CASE LoadBootinfo
    <2>1. NumbersOK'
        <3>1. CASE WakealarmWrite(0)
              BY <1>3, <1>9, <3>1, WriteKeepsRange DEF LoadBootinfo
        <3>2. CASE reg' \in {reg, 0} /\ fault' \in {fault, fault \cup {"io", "reg"}}
            <4>1. reg' \in 0 .. MaxSecs  BY <1>3, <3>2
            <4>2. fault' \subseteq Faults  BY <3>2
            <4> QED BY <1>9, <4>1, <4>2 DEF LoadBootinfo
        <3> QED BY <1>9, <3>1, <3>2 DEF LoadBootinfo
    <2>2. Armed(alarm)' = Armed(alarm)  BY <1>4, <1>9 DEF LoadBootinfo, Armed
    <2>3. RegisterFits'
          BY <1>9, <2>2 DEF LoadBootinfo, RegisterFits, WakealarmWrite
    <2> QED BY <1>2, <2>1, <2>3
<1> QED BY <1>5, <1>6, <1>7, <1>8, <1>9

\* The thread leaves the register alone; it learns the alarm by ReadAlarm.
LEMMA ThreadStepsPreserve ==
    ASSUME NumbersOK, RegisterFits, ThreadKnowsAlarm, DecidedInTime, Thread \/ ThreadFails
    PROVE  NumbersOK' /\ RegisterFits' /\ ThreadKnowsAlarm' /\ DecidedInTime'
<1> USE DEF NumbersOK, ThreadStep, Exit
<1>1. MaxSecs \in Nat  BY DEF MaxSecs
<1>2. Rtc' = Rtc /\ Rtc \in 0 .. MaxSecs
      BY RtcOfClock DEF Thread, ThreadFails, ReadAlarm, ReadRtc, Arm, Wake, CheckExpired, Reboot, Rtc
<1>3. mode = "charger" /\ (fault' \cap {"reg", "cut"} = fault \cap {"reg", "cut"}) /\ reg' = reg /\ alarm' = alarm
      BY DEF Thread, ThreadFails, ReadAlarm, ReadRtc, Arm, Wake, CheckExpired, Reboot
<1>4. RegisterFits'  BY <1>2, <1>3 DEF RegisterFits, Armed
<1>5. CASE ReadAlarm
    <2>1. NumbersOK'  BY <1>1, <1>5 DEF ReadAlarm
    <2>2. ThreadKnowsAlarm'
          BY <1>3, <1>5 DEF ReadAlarm, ThreadKnowsAlarm, RegisterFits, Armed, PreAlarm
    <2>3. DecidedInTime'  BY <1>5 DEF ReadAlarm, DecidedInTime
    <2> QED BY <1>4, <2>1, <2>2, <2>3
<1>6. CASE ReadRtc
    <2>1. NumbersOK'  BY <1>1, <1>2, <1>6 DEF ReadRtc
    <2>2. ThreadKnowsAlarm'  BY <1>6 DEF ReadRtc, ThreadKnowsAlarm, PreAlarm
    <2>3. DecidedInTime'  BY <1>6 DEF ReadRtc, DecidedInTime
    <2> QED BY <1>4, <2>1, <2>2, <2>3
<1>7. CASE Arm
    <2>1. Elapsed \div Sec + rb \in Nat  BY DEF Elapsed
    <2>2. due' \in Nat  BY <1>7, <2>1 DEF Arm
    <2>3. NumbersOK'  BY <1>7, <2>2 DEF Arm
    <2>4. ThreadKnowsAlarm' /\ DecidedInTime'
          BY <1>7 DEF Arm, ThreadKnowsAlarm, DecidedInTime, PreAlarm
    <2> QED BY <1>4, <2>3, <2>4
<1>8. CASE Wake
    <2>1. NumbersOK'  BY <1>8 DEF Wake
    <2>2. ThreadKnowsAlarm' /\ DecidedInTime'
          BY <1>8 DEF Wake, ThreadKnowsAlarm, DecidedInTime, PreAlarm
    <2> QED BY <1>4, <2>1, <2>2
<1>9. CASE CheckExpired
    <2>1. NumbersOK'
        <3>1. fault' \subseteq Faults /\ pc' \in {"wait", "reboot"}  BY <1>9 DEF CheckExpired
        <3> QED BY <1>3, <1>9, <3>1 DEF CheckExpired
    <2>2. ThreadKnowsAlarm'  BY <1>9 DEF CheckExpired, ThreadKnowsAlarm, PreAlarm
    <2>3. DecidedInTime'
        <3>1. SUFFICES ASSUME pc' = "reboot" PROVE clock < (alm + ErrSecs + 1) * Sec
              BY <1>9 DEF CheckExpired, DecidedInTime
        <3>2. Rtc <= alm + ErrSecs  BY <1>2, <1>9, <3>1 DEF CheckExpired
        <3>3. clock < (Rtc + 1) * Sec  BY RtcOfClock DEF Rtc
        <3>4. (Rtc + 1) * Sec <= (alm + ErrSecs + 1) * Sec  BY <1>2, <3>2
        <3>5. (Rtc + 1) * Sec \in Int /\ (alm + ErrSecs + 1) * Sec \in Int  BY <1>2
        <3> QED BY <3>3, <3>4, <3>5
    <2> QED BY <1>4, <2>1, <2>2, <2>3
<1>10. CASE Reboot \/ ThreadFails
    <2>1. NumbersOK'
        <3>1. fault' \subseteq Faults  BY <1>10 DEF Reboot, ThreadFails
        <3> QED BY <1>1, <1>10, <3>1 DEF Reboot, ThreadFails
    <2>2. ThreadKnowsAlarm' /\ DecidedInTime'
          BY <1>10 DEF Reboot, ThreadFails, ThreadKnowsAlarm, DecidedInTime
    <2> QED BY <1>4, <2>1, <2>2
<1> QED BY <1>5, <1>6, <1>7, <1>8, <1>9, <1>10 DEF Thread

LEMMA UserStepsPreserve ==
    ASSUME NumbersOK, RegisterFits, ThreadKnowsAlarm, DecidedInTime,
           PowerOff \/ PowerKey \/ PlugIn
    PROVE  NumbersOK' /\ RegisterFits' /\ ThreadKnowsAlarm' /\ DecidedInTime'
<1> USE DEF NumbersOK, Enter, PowerOff, PowerKey, PlugIn
<1>1. NumbersOK'
    <2>1. MaxSecs \in Nat  BY DEF MaxSecs
    <2>2. fault' \subseteq Faults  OBVIOUS
    <2> QED BY <2>1, <2>2
<1>2. RegisterFits'  BY DEF RegisterFits, Armed, Rtc
<1>3. ThreadKnowsAlarm' /\ DecidedInTime'  BY DEF ThreadKnowsAlarm, DecidedInTime
<1> QED BY <1>1, <1>2, <1>3

\* When its time comes the register is emptied, and from then on an alarm with
\* that time would not be taken.
LEMMA TickPreserves ==
    ASSUME NumbersOK, RegisterFits, ThreadKnowsAlarm, DecidedInTime, Tick
    PROVE  NumbersOK' /\ RegisterFits' /\ ThreadKnowsAlarm' /\ DecidedInTime'
<1> USE DEF NumbersOK
<1>1. Rtc' \in {Rtc, Rtc + 1} /\ Rtc' = clock' \div Sec /\ Rtc \in Nat
      BY RtcStep, RtcOfClock DEF Tick, Rtc
<1>2. MaxSecs \in Nat  BY DEF MaxSecs
<1>3. NumbersOK'  BY <1>2 DEF Tick, Runnable
<1>4. RegisterFits'
    <2>1. PreAlarm(alarm) \in Int /\ PreAlarm(alarm)' = PreAlarm(alarm)
          BY DEF Tick, PreAlarm
    <2> QED BY <1>1, <2>1 DEF Tick, RegisterFits, Armed
<1>5. ThreadKnowsAlarm'  BY DEF Tick, ThreadKnowsAlarm, PreAlarm
<1>6. DecidedInTime'
    <2>1. (alm + ErrSecs + 1) * Sec \in Int  OBVIOUS
    <2> QED BY <2>1 DEF Tick, Runnable, DecidedInTime
<1> QED BY <1>3, <1>4, <1>5, <1>6

LEMMA NextPreserves == IInv /\ [Next]_vars => IInv'
<1> SUFFICES ASSUME IInv, [Next]_vars PROVE IInv'
    OBVIOUS
<1>1. NumbersOK /\ TruthsOK  BY TypeParts DEF IInv
<1>2. TruthsOK'  BY <1>1, TruthsPreserved
<1>3. NumbersOK' /\ RegisterFits' /\ ThreadKnowsAlarm' /\ DecidedInTime'
    <2>1. CASE UNCHANGED vars
          BY <1>1, <2>1 DEF vars, IInv, NumbersOK, RegisterFits, ThreadKnowsAlarm, DecidedInTime,
                            Armed, PreAlarm, Rtc
    <2>2. CASE Next
          BY <1>1, <2>2, AndroidStepsPreserve, ThreadStepsPreserve, UserStepsPreserve, TickPreserves
          DEF IInv, Next
    <2> QED BY <2>1, <2>2
<1> QED BY <1>2, <1>3, TypePartsNext DEF IInv

-----------------------------------------------------------------------------
\* The inductive invariant holds of every reachable state.
THEOREM Invariance == Spec => []IInv
BY InitEstablishes, NextPreserves, PTL DEF Spec

\* Every variable keeps its type: what AlarmManager, init and healthd write and
\* compute are seconds that the clock can show.
THEOREM TypeCorrect == Spec => []TypeOK
<1>1. IInv => TypeOK  BY DEF IInv
<1> QED BY <1>1, Invariance, PTL

\* AlarmManager and load_bootinfo keep the wake-up register in step with the
\* alarm: off or charging, the phone has the time of the user's alarm or none,
\* unless a write failed or a start was cut off between the two.
THEOREM RegisterKept == Spec => []RegisterMatchesAlarm
<1>1. IInv => RegisterMatchesAlarm
      BY DEF IInv, RegisterFits, RegisterMatchesAlarm
<1> QED BY <1>1, Invariance, PTL

\* The phone starts by itself only for an alarm, and before it, if the lead is
\* longer than the tolerance of alarm_is_alm_expired and the delay of the thread
\* together (300 seconds and 2 in the code).
THEOREM StartsInTime ==
    ASSUME \A a \in Alarms : MinPre <= a - Lead,
           (ErrSecs + 1) * Sec + Slack <= Lead * Sec
    PROVE  Spec => StartsByItselfInTime
<1> DEFINE InTime ==
        mode # "boot" /\ mode' = "boot" /\ byRtc' /\ fault \cap {"reg", "cut", "empty"} = {}
            => alarm # 0 /\ Rtc < alarm
<1>1. IInv /\ [Next]_vars => [InTime]_vars
    <2> SUFFICES ASSUME IInv, Next, mode # "boot", mode' = "boot", byRtc',
                        fault \cap {"reg", "cut", "empty"} = {}
                 PROVE  alarm # 0 /\ Rtc < alarm
        OBVIOUS
    <2>1. NumbersOK  BY TypeParts DEF IInv
    <2>2. Rtc \in Nat  BY <2>1, RtcOfClock DEF NumbersOK, Rtc
    <2>3. Tick \/ Reboot
          BY DEF Next, SetAlarm, ClearAlarm, Ring, Started, LoadBootinfo, Thread, ThreadFails,
                 ReadAlarm, ReadRtc, Arm, Wake, CheckExpired, Exit, ThreadStep,
                 PowerOff, PowerKey, PlugIn, Enter
    \* A phone that is off is started by the register.
    <2>4. CASE Tick
        <3>1. reg # 0 /\ reg = Armed(alarm)
              BY <2>4 DEF Tick, IInv, RegisterFits
        <3>2. alarm \in Alarms /\ PreAlarm(alarm) > Rtc
              BY <2>1, <3>1 DEF NumbersOK, Armed
        <3> QED BY <2>2, <3>2, PreAlarmInRange
    \* A charging phone is restarted by the thread.
    <2>5. CASE Reboot
        <3>1. alarm \in Alarms /\ alm = alarm - Lead
              BY <2>1, <2>5 DEF Reboot, IInv, ThreadKnowsAlarm, NumbersOK, PreAlarm
        <3>2. clock < (alm + ErrSecs + 1) * Sec + Slack
              BY <2>1, <2>5 DEF Reboot, IInv, DecidedInTime, NumbersOK
        <3>3. (alm + ErrSecs + 1) * Sec + Slack = (ErrSecs + 1) * Sec + Slack + alm * Sec
              BY <2>1 DEF NumbersOK
        <3>4. (ErrSecs + 1) * Sec + Slack + alm * Sec <= Lead * Sec + alm * Sec
              BY <2>1 DEF NumbersOK
        <3>5. Lead * Sec + alm * Sec = alarm * Sec
              BY <2>1, <3>1 DEF NumbersOK
        <3>6. clock < alarm * Sec
              BY <2>1, <3>1, <3>2, <3>3, <3>4, <3>5 DEF NumbersOK
        <3> QED BY <2>1, <3>1, <3>6 DEF NumbersOK, Rtc
    <2> QED BY <2>3, <2>4, <2>5
<1> QED BY <1>1, Invariance, PTL DEF Spec, StartsByItselfInTime
============================================================================
