--------------------------- MODULE PowerOffAlarm ---------------------------
(***************************************************************************)
(* The power-off alarm: a phone that is off or only charging starts some   *)
(* time before the user's alarm.  Three programs share the RTC's wake-up   *)
(* register: the AlarmManager service (patch/frameworks/base/0002), which  *)
(* writes it, the thread of libhealthd/healthd-pisces.cpp, which restarts  *)
(* a charging phone, and init/init_pisces.c, which tells Android why it    *)
(* was started and clears it.                                              *)
(*                                                                         *)
(* Time is counted in ticks, Sec to a second.  The RTC shows whole seconds;*)
(* the clock of /dev/alarm runs at the same speed, but its seconds start   *)
(* skew ticks earlier.  The kernel is external: an alarm register whose    *)
(* time has come reads empty, a time that has passed disables it, and the  *)
(* wait on /dev/alarm returns once for an alarm that was set.  A charging  *)
(* phone does not load properties, so only a start of Android runs         *)
(* load_bootinfo.                                                          *)
(***************************************************************************)
EXTENDS Integers

CONSTANTS
    Sec,        \* ticks in a second
    MaxTime,    \* bound: the last tick
    Alarms,     \* the alarm times users choose, in seconds of the RTC
    Lead,       \* how many seconds before the alarm the phone starts: 300
    MinPre,     \* the earliest time that is written: 20
    ErrSecs,    \* ERR_SECS: 2
    Slack       \* how many ticks a runnable thread may have to wait

\* The last second of the RTC.
MaxSecs == MaxTime \div Sec

\* Alarms lie within the bound, and not in the first seconds of 1970.
ASSUME AlarmAssumption ==
    /\ Sec \in Nat \ {0} /\ MaxTime \in Nat /\ Slack \in Nat \ {0}
    /\ Lead \in Nat /\ MinPre \in Nat /\ ErrSecs \in Nat
    /\ Alarms \subseteq 1 .. MaxSecs
    /\ \A a \in Alarms : MinPre <= a

VARIABLES
    clock, skew, \* the tick, and the phase of the clock of /dev/alarm
    late,        \* for how many ticks the thread has been runnable
    mode,        \* "off", "charger", "boot" (init), "starting" or "android"
    alarm,       \* the alarm Android remembers, 0 for none
    reg,         \* the wake-up register: seconds, 0 for disabled
    byRtc,       \* /sys/bootinfo/powerup_reason is "rtc"
    alarmBoot,   \* ro.alarm_boot
    pc,          \* where the thread of the charger is, or "none"
    alm, rb,     \* its alm_secs and rb_secs, 0 outside
    due,         \* the alarm set in /dev/alarm, in its ticks; 0 for none
    fault        \* what went wrong (history): see Faults

timeVars   == <<clock, skew, late>>
deviceVars == <<mode, alarm, reg, byRtc, alarmBoot>>
threadVars == <<pc, alm, rb, due>>
vars == <<timeVars, deviceVars, threadVars, fault>>

\* "reg": a write of the register failed; "cut": a start was cut off after
\* load_bootinfo, which clears the register, and before Android set it again;
\* "io": a read or an ioctl failed; "empty": the thread has read an empty
\* register, or found its time past; "user": somebody ended the charging, or
\* switched off at the start for the alarm, after the register's time had come;
\* "hand": the register's time came while a start by hand had not reached
\* load_bootinfo.
Faults == {"reg", "cut", "io", "empty", "user", "hand"}

Rtc     == clock \div Sec
Elapsed == clock + skew

Init ==
    /\ clock = 0 /\ skew \in 0 .. Sec - 1 /\ late = 0
    /\ mode = "android" /\ alarm = 0 /\ reg = 0
    /\ byRtc = FALSE /\ alarmBoot = FALSE
    /\ pc = "none" /\ alm = 0 /\ rb = 0 /\ due = 0
    /\ fault = {}

-----------------------------------------------------------------------------
(* Android: the AlarmManager service. *)

\* A plausible bug: the phone is to start at the time of the alarm.
PreAlarmAtAlarm(a) == IF a <= MinPre THEN MinPre ELSE a

\* The time written for an alarm.
PreAlarm(a) == IF a - Lead <= MinPre THEN MinPre ELSE a - Lead

\* What the register makes of it.
Armed(a) == IF a # 0 /\ PreAlarm(a) > Rtc THEN PreAlarm(a) ELSE 0

\* rtc_wakealarm_write: the register takes the value, or keeps what it had.
WakealarmWrite(r) ==
    \/ reg' = r /\ fault' = fault \ {"reg", "cut"}
    \/ UNCHANGED reg /\ fault' = fault \cup {"reg"}

SetAlarm ==
    /\ mode = "android"
    /\ \E a \in Alarms : a > Rtc /\ alarm' = a /\ WakealarmWrite(Armed(a))
    /\ UNCHANGED <<timeVars, threadVars, mode, byRtc, alarmBoot>>

\* A plausible bug: the register is not cleared with the alarm.
ClearOnlyAlarm ==
    /\ mode = "android" /\ alarm # 0
    /\ alarm' = 0
    /\ UNCHANGED <<timeVars, threadVars, mode, reg, byRtc, alarmBoot, fault>>

ClearAlarm ==
    /\ mode = "android" /\ alarm # 0
    /\ alarm' = 0
    /\ WakealarmWrite(0)
    /\ UNCHANGED <<timeVars, threadVars, mode, byRtc, alarmBoot>>

\* The alarm rings; the register's time has come long before.
Ring ==
    /\ mode = "android" /\ alarm # 0 /\ Rtc >= alarm
    /\ alarm' = 0
    /\ UNCHANGED <<timeVars, threadVars, mode, reg, byRtc, alarmBoot, fault>>

\* Android has started, and sets the alarm it remembers again.
Started ==
    /\ mode = "starting"
    /\ mode' = "android"
    /\ IF alarm = 0 THEN UNCHANGED <<reg, fault>> ELSE WakealarmWrite(Armed(alarm))
    /\ UNCHANGED <<timeVars, threadVars, alarm, byRtc, alarmBoot>>

-----------------------------------------------------------------------------
(* init: load_bootinfo. *)

\* The reason says "rtc"; or it says something else, or cannot be read, and
\* the register decides (0 if it cannot be read) and is cleared.
LoadBootinfo ==
    /\ mode = "boot"
    /\ mode' = "starting" /\ byRtc' = FALSE
    /\ \/ byRtc /\ alarmBoot' = TRUE /\ UNCHANGED <<reg, fault>>
       \/ /\ ~byRtc /\ alarmBoot' = (reg # 0)
          /\ IF reg = 0 THEN UNCHANGED <<reg, fault>> ELSE WakealarmWrite(0)
       \/ alarmBoot' \in {reg # 0, FALSE} /\ reg' \in {reg, 0} /\ fault' = fault \cup {"io", "reg"}
    /\ UNCHANGED <<timeVars, threadVars, alarm>>

-----------------------------------------------------------------------------
(* healthd in charger mode: alarm_thread. *)

ThreadStep(p) ==
    /\ pc' = p /\ late' = 0
    /\ UNCHANGED <<clock, skew, alarm, reg, alarmBoot>>

\* The thread ends: nobody is left who would restart the phone.
Exit == ThreadStep("none") /\ alm' = 0 /\ rb' = 0 /\ due' = 0 /\ UNCHANGED <<mode, byRtc>>

\* A read, an open or an ioctl fails.
ThreadFails ==
    /\ pc \in {"readalarm", "readrtc", "arm", "wait"}
    /\ pc = "wait" => alm \in Rtc - ErrSecs .. Rtc + ErrSecs
    /\ fault' = fault \cup {"io"}
    /\ Exit

\* alarm_get_time(ALARM_TIME): the read of a disabled register returns no
\* bytes, which is not taken for an error, and the number is made from a
\* buffer that was never written.
ReadAlarm ==
    /\ pc = "readalarm"
    /\ \E n \in IF reg # 0 THEN {reg} ELSE 0 .. MaxSecs :
        IF n = 0 THEN Exit
        ELSE ThreadStep("readrtc") /\ alm' = n /\ UNCHANGED <<mode, byRtc, rb, due>>
    /\ fault' = IF reg = 0 THEN fault \cup {"empty"} ELSE fault

\* A plausible bug: a time that has passed is not noticed.
ReadRtcAnyTime ==
    /\ pc = "readrtc"
    /\ ThreadStep("arm") /\ rb' = alm - Rtc
    /\ UNCHANGED <<mode, byRtc, alm, due, fault>>

\* A plausible bug: the last second is not enough.
ReadRtcLastSecond ==
    /\ pc = "readrtc"
    /\ IF alm <= Rtc + 1 THEN Exit
       ELSE ThreadStep("arm") /\ rb' = alm - Rtc /\ UNCHANGED <<mode, byRtc, alm, due>>
    /\ fault' = IF alm <= Rtc + 1 THEN fault \cup {"empty"} ELSE fault

\* rb_secs = alm_secs - rtc_secs.
ReadRtc ==
    /\ pc = "readrtc"
    /\ IF alm <= Rtc THEN Exit
       ELSE ThreadStep("arm") /\ rb' = alm - Rtc /\ UNCHANGED <<mode, byRtc, alm, due>>
    /\ fault' = IF alm <= Rtc THEN fault \cup {"empty"} ELSE fault

\* alarm_set_reboot_time_and_wait: the elapsed time, cut to whole seconds.
Arm ==
    /\ pc = "arm"
    /\ due' = (Elapsed \div Sec + rb) * Sec
    /\ ThreadStep("wait")
    /\ UNCHANGED <<mode, byRtc, alm, rb, fault>>

\* ANDROID_ALARM_WAIT returns; interrupted waits (EINTR) start again at once.
Wake ==
    /\ pc = "wait" /\ due # 0 /\ Elapsed >= due
    /\ due' = 0
    /\ ThreadStep("check")
    /\ UNCHANGED <<mode, byRtc, alm, rb, fault>>

\* A plausible bug: no tolerance.
CheckExactly ==
    /\ pc = "check"
    /\ ThreadStep(IF alm = Rtc THEN "reboot" ELSE "wait")
    /\ UNCHANGED <<mode, byRtc, alm, rb, due, fault>>

\* alarm_is_alm_expired: no if the RTC cannot be read; then the thread waits
\* again, and no alarm is set any more.
CheckExpired ==
    /\ pc = "check"
    /\ \/ /\ ThreadStep(IF alm \in Rtc - ErrSecs .. Rtc + ErrSecs THEN "reboot" ELSE "wait")
          /\ UNCHANGED fault
       \/ ThreadStep("wait") /\ fault' = fault \cup {"io"}
    /\ UNCHANGED <<mode, byRtc, alm, rb, due>>

\* android_reboot with the reason "rtc".
Reboot ==
    /\ pc = "reboot"
    /\ mode' = "boot" /\ byRtc' = TRUE
    /\ ThreadStep("none") /\ alm' = 0 /\ rb' = 0 /\ due' = 0
    /\ fault' = fault \ {"io", "empty", "user"}

Thread == ReadAlarm \/ ReadRtc \/ Arm \/ Wake \/ CheckExpired \/ Reboot

-----------------------------------------------------------------------------
(* The user, the power and the clock. *)

\* The phone goes from one mode to another; a charging phone's thread dies.
Enter(m) ==
    /\ mode' = m /\ byRtc' = FALSE
    /\ pc' = "none" /\ alm' = 0 /\ rb' = 0 /\ due' = 0 /\ late' = 0
    /\ fault' = IF mode \in {"charger", "boot"}
                THEN (fault \ {"io", "empty"}) \cup {f \in {"user"} : reg = 0 /\ alarm # 0}
                ELSE IF mode = "starting" THEN fault \cup {"cut"}
                ELSE fault \ {"user", "hand"}
    /\ UNCHANGED <<clock, skew, alarm, reg, alarmBoot>>

PowerOff == mode # "off" /\ Enter("off")
PowerKey == mode \in {"off", "charger"} /\ Enter("boot")

\* The charger is plugged in: healthd starts, power_off_alarm_init makes the
\* thread (a failure is not noticed).
PlugIn ==
    /\ mode = "off"
    /\ mode' = "charger"
    /\ \/ pc' = "readalarm" /\ fault' = fault \ {"user"}
       \/ pc' = "none" /\ fault' = fault \cup {"io"}
    /\ UNCHANGED <<timeVars, alarm, reg, byRtc, alarmBoot, alm, rb, due>>

\* The thread has something to do.
Runnable == pc \notin {"none", "wait"} \/ (pc = "wait" /\ due # 0 /\ Elapsed >= due)

\* Time passes; the register's time comes, and a phone that is off starts.
Tick ==
    /\ clock < MaxTime
    /\ Runnable => late < Slack
    /\ clock' = clock + 1
    /\ late' = IF Runnable THEN late + 1 ELSE 0
    /\ LET fires == reg # 0 /\ clock' \div Sec = reg
           starts == fires /\ mode = "off"
       IN  /\ reg' = IF fires THEN 0 ELSE reg
           /\ mode' = IF starts THEN "boot" ELSE mode
           /\ byRtc' = IF starts THEN TRUE ELSE byRtc
           /\ fault' = IF fires /\ mode = "boot" THEN fault \cup {"hand"} ELSE fault
    /\ UNCHANGED <<skew, alarm, alarmBoot, threadVars>>

Next ==
    \/ SetAlarm \/ ClearAlarm \/ Ring \/ Started \/ LoadBootinfo
    \/ Thread \/ ThreadFails
    \/ PowerOff \/ PowerKey \/ PlugIn \/ Tick

\* The processes run and time passes; users need not do anything.
Spec ==
    /\ Init /\ [][Next]_vars
    /\ WF_vars(Thread) /\ WF_vars(LoadBootinfo) /\ WF_vars(Started) /\ WF_vars(Tick)

-----------------------------------------------------------------------------
(* Properties. *)

\* Every variable has its type; the thread exists in charger mode only.
TypeOK ==
    /\ clock \in 0 .. MaxTime /\ skew \in 0 .. Sec - 1 /\ late \in 0 .. Slack
    /\ mode \in {"off", "charger", "boot", "starting", "android"}
    /\ alarm \in Alarms \cup {0} /\ reg \in 0 .. MaxSecs
    /\ byRtc \in BOOLEAN /\ alarmBoot \in BOOLEAN
    /\ pc \in {"none", "readalarm", "readrtc", "arm", "wait", "check", "reboot"}
    /\ alm \in 0 .. MaxSecs /\ rb \in 0 .. MaxSecs /\ due \in Nat
    /\ pc # "none" => mode = "charger"
    /\ fault \subseteq Faults

\* While Android does not run, the register holds the time before the alarm
\* that Android remembers, and nothing when there is none: every start clears
\* it and sets it again, and an alarm that was cleared leaves nothing behind.
\* Only a failed write, and a start cut off between the two, are excepted.
RegisterMatchesAlarm ==
    mode \in {"off", "charger"} /\ fault \cap {"reg", "cut"} = {} => reg = Armed(alarm)

\* The phone starts by itself only for an alarm of the user, and before it
\* rings.  (Not if the thread has read an empty register: see ReadAlarm.)
StartsByItselfInTime ==
    [][mode # "boot" /\ mode' = "boot" /\ byRtc' /\ fault \cap {"reg", "cut", "empty"} = {}
        => alarm # 0 /\ Rtc < alarm]_vars

\* Android will run and know that it was started for an alarm (unless the
\* register's time came just after the power key).
RunsForAlarm == mode = "android" /\ (alarmBoot \/ "hand" \in fault)

\* A phone that is plugged in does not charge on through the alarm: if the
\* register's time is farther away than the thread's delay at its two reads,
\* the thread does not take it for past, and the phone is restarted (or the
\* user ends the charging).  Any closer, the time may come before the reads.
StoredTimeIsEnough ==
    (pc = "readalarm" /\ reg * Sec > clock + 2 * Slack /\ fault = {}) ~>
        mode # "charger" \/ "io" \in fault

\* "calculate the reboot time after which the phone will reboot": once the
\* thread has set its alarm, the phone will run for it, whether it is left
\* charging, unplugged or switched on.
AlarmIsHeeded ==
    (pc = "wait" /\ due # 0 /\ fault = {}) ~> RunsForAlarm \/ fault \ {"hand"} # {}
============================================================================
