# Verification of the Xiaomi Mi3 (pisces) device tree

This directory holds TLA+ models of the parts of the device tree that have
logic of their own, the TLC configurations that check them on small instances,
and TLAPS proofs of the most important properties for all instances.

    tlc -workers 2 -config NormalMutex.cfg MCNormalMutex     # a run
    tlapm NormalMutexProofs.tla                              # the proofs

## The system and its parts

| part | source | state | operations | what is hard |
|---|---|---|---|---|
| mutexes | `libp4hread/bionic/pthread.c` | one word per mutex: owner, type, shared, counter, state | lock, trylock, lock_timeout_np, unlock, destroy, init | lock-free word + futex, three mutex types, timeouts racing wake-ups |
| condition variables | same file | one counter per variable | wait, timed waits, signal, broadcast | the window between reading the counter, unlocking and sleeping |
| dual boot | `bin/dualboot.sh` | boot mark, directories of `/data`, properties | get, set, save, load, enabledualdata, disabledualdata | power loss at any command; finishing a half-done move |
| repartitioning | `recovery/sbin/repartition`, `recovery/sbin/auto-mkfs` | partition table, file system size | resize, loadsize | partitions are removed and made again around live data |
| lights | `liblights/lights.c` | three remembered colors, caches, sysfs files | five set_light functions | one LED shared by three lights, caches that outlive failed writes |
| vibrator | `vibrator.c` | library loaded, session, device handle | sendit | the service may die and any call may fail; sessions must be begun anew and not be forgotten |
| power-off alarm | `libhealthd/healthd-pisces.cpp`, `init/init_pisces.c`, `patch/frameworks/base/0002` | the RTC's wake-up register, `alm_secs`, the alarm of `/dev/alarm` | set and clear in Android, alarm thread, load_bootinfo | two clocks, a two-second window, a register that three programs write and that outlives them |
| layout upgrade | `bin/upgrade_layout.sh` | `.layout_version`, `/data/media` and `/data/media/0` | upgrade | power loss between marker and move; the dual boot script keeps its data in the same directory |
| mount helpers, hardware settings, UI, configuration | `bin/mount_ext4.sh`, `mkhw/`, `recovery/twres/`, `*.mk`, `patch/` | none of their own | | |

How they interact: condition variables and lights are built on the mutexes;
the recovery system runs `auto-mkfs` and `dualboot load` at every boot, and the
menu runs `dualboot save`, `enabledualdata`, `disabledualdata` and
`repartition resize`; `resize` ends with `dualboot load`. Android's init runs
`upgrade_layout.sh` at every start, on the directories that `dualboot` moves.
The wake-up register is written by Android, read by the charger's thread, and
read and cleared by init. The lights library is
linked with the platform's pthread, and uses its mutex only for exclusion.

What makes each part correct: a mutex excludes, never loses a wake-up and can
be destroyed by the thread that gets it next; a condition wait misses no
signal; after any power loss the data of the booted system is the live data and
nothing is lost or mixed; a resize never gives blocks of user data away; the
LED shows the light with the highest priority; an alarm brings a phone that is
off or charging up before it rings; the vibrator recovers from any failure. `PROJECT.json` lists every
hazard with its line and the properties that would catch it.

## Modules

| module | models | uses |
|---|---|---|
| `AbstractMutex` | what a mutex promises: holder, requests, alive or destroyed, and that a free mutex with a blocked request is taken | |
| `NormalMutex` | `PTHREAD_MUTEX_NORMAL` | implements `AbstractMutex` |
| `OwnedMutex` | `PTHREAD_MUTEX_RECURSIVE` and `_ERRORCHECK` | implements `AbstractMutex` |
| `CondVar` | condition variables with consumers and producers | `AbstractMutex`'s promise, as its `holder` |
| `DualData` | `dualboot.sh` | |
| `LayoutUpgrade` | `upgrade_layout.sh` and the start of Android | composes itself with `DualData` |
| `Repartition` | `repartition` and `auto-mkfs` | |
| `Lights` | `lights.c` | `AbstractMutex`'s promise, as its `turn` |
| `PowerOffAlarm` | the alarm thread, `load_bootinfo`, the register's writers | |
| `Vibrator` | `vibrator.c` | |
| `NormalMutexProofs`, `OwnedMutexProofs`, `CondVarProofs`, `DualDataProofs`, `RepartitionProofs`, `LightsProofs`, `PowerOffAlarmProofs`, `VibratorProofs` | theorems about the module in their name (`DualDataProofs`: also about `LayoutUpgrade`) | the library's theorems on finite sets and sequences |
| `MC*` | instances for TLC | |

Granularity. In the mutex and condition modules an action is one access to the
shared word, one futex call or one reading of the clock; `pc[t]` names the
access that comes next, and what the code computes between two accesses belongs
to the first. FUTEX_WAIT compares and queues in one step, FUTEX_WAKE takes any
sleeper; a sleeper may also be released by a signal at any time. Memory is
sequentially consistent: the code puts a full barrier on each side of a lock
operation. The word is split into its fields; type and shared bits are constant
in the life of a mutex. `OwnedMutex` gets its type (`mtype`) from an attribute
word that was prepared with `settype` and `setpshared` (`AttrsOfType`);
`asked` remembers what the caller wanted.

In `DualData` a command is a program (`SaveProgram`, `LoadProgram`, ...) of
shell commands; an action runs one rename, one mkdir or moves one directory
entry, and a power loss can come between any two. The write of the mark can fail
(`WriteMarkFails`), and so can every mount, the one of `/data` and the one each
`dualdata_open` begins with (`Dies`); the command dies then and the recovery goes
on. A user entry is a name with
the number of the batch that created it, which tells the data sets apart. In
`Repartition` an action is one `parted`, `resize2fs` or `mke2fs` call; these
programs are external and atomic here. `e2fsck -p` refuses a file system larger
than its partition. In `Lights` an action is one write to a sysfs file; a color
that differs in its alpha byte only may be written again, and the LED may have
been left on before the first process.

`LayoutUpgrade` extends `DualData`: its variables are what the user keeps in
`/data/media` (`media`) and `/data/media/0` (`media0`), and `upg`, the step of
the script. The storage is merged into the data partition, the case in which
both scripts see the same directory. `harm` (in `DualData`) remembers that a
command was interrupted (until one has run to its end with mark and property
agreeing), and then that Android ran on what it left.

`PowerOffAlarm` counts time in ticks, `Sec` to a second. The RTC shows whole
seconds, the clock of `/dev/alarm` runs with it but its seconds begin `skew`
ticks earlier; a runnable thread waits at most `Slack` ticks. `mode` is what the
phone does, `pc` where the charger's thread is, `fault` remembers what went
wrong (a failed read or write, a start cut off after `load_bootinfo`, a race with
the register's time). The kernel is external: a register whose time has come reads empty and
starts a phone that is off; `ANDROID_ALARM_WAIT` returns once for an alarm.

In `Vibrator` an action is one call of the vibration library, and the service
may die between any two; `session`, `open` and `playing` are what the service
knows, the other variables are those of the C file and history.

Callers are constrained only where the C library requires it: a normal mutex is
unlocked by its holder, a mutex is not used while it is being destroyed or
afterwards, and `destroy` starts when no thread is inside a locking function
(threads may still be inside `unlock`). Owned mutexes may be unlocked by anybody;
a thread that does not hold one is out of `unlock` when it is destroyed.
`NormalMutex` leaves out what a holder may do to itself: its own trylock, timed
lock or destroy of the mutex it holds (EBUSY, or a wait until its time is over).
A word of type 0 belongs to `NormalMutex`: `OwnedMutex` has no step for it.

## Runs

| run | instance | what it shows |
|---|---|---|
| `NormalMutex` | 3 threads, all functions | exclusion; word and holder agree; a sleeper is never forgotten, timed locks included; no write follows a destroy; a timed lock returns; `AbstractMutex` is implemented, liveness included |
| `OwnedMutex` | 3 threads, both types from attributes, all functions, counter up to 1 | the word agrees with what callers were told, up to the counter's limit; misuse is refused; the owner never waits for itself; a destroyed mutex is held by nobody, but for the owner of a recursive one who destroyed it; a mutex has the type that was asked for |
| `OwnedUntimed` | recursive, lock and trylock, fair | a sleeper is never forgotten; `AbstractMutex` is implemented, liveness included |
| `OwnedLostWake` | error-checking, lock and timed lock | **violation**: a timed lock that gives up swallows a wake-up |
| `CondVarFair` | 2 consumers, 2 producers, counter modulo 2 | a wait returns with the mutex; no pulse is missed; items made for sleepers are taken |
| `DualData` | `LayoutUpgrade` with `DualData`: 2 names, 2 batches, 1 file, all commands, failing writes of the mark and mounts, either system boots after a power loss | nothing is lost, duplicated or buried; if recovery boots first, the live data belongs to the system of the mark, `enable` works for that system, and data sets stay whole and apart; the upgrade moves the user's files and nothing else |
| `Repartition` | 9 units, reserve 2, storage at least 3, four ends allowed | no block of data is given away; the file system stays inside its partition |
| `RepartitionRetry` | the same | **violation**: a retry makes a partition smaller than the data |
| `Lights` | 3 LED colors, 2 brightness values | priority, off before on, the backlight chips agree |
| `PowerOffAlarm` | 10 seconds in half-second ticks, 2 alarm times, lead 4 s, tolerance 2 s, slack ½ s | the register follows the alarm over starts, power keys and chargers; the phone starts by itself only before an alarm; a charging phone is restarted if it was plugged in more than two of the thread's delays before the register's time; a thread that is never more than ½ s late per step brings Android up, and Android knows why |
| `PowerOffAlarmLate` | the same, slack 1 s | **violation**: a thread that is 3 s late waits for ever |
| `Vibrator` | 4 handles | driver and service agree on handles and sessions; one request recovers; off means off |

Why the bounds are enough to meet the interesting cases: three threads give a
holder, a sleeper and one that barges in; a counter limit of 1 is reached by
the second nested lock (the code's 2047 by the 2048th); a modulus of 2 makes
the condition counter wrap at once; two batches of user data are what two
systems need to be mixed up; the sizes of `Repartition` make shrinking,
growing, a cut-off by alignment and a merged partition all happen. `MaxItems`,
`MaxBatch`, `MaxCounter`, `Modulus`, `MaxTime` and the sets are the only bounds.
Ten seconds hold an alarm, its lead and the tolerance on both sides of it, with
room for a start, a second alarm and a second charge; two ticks to a second let
the two clocks change their second at different moments. Four handles survive
three failed terminations. In `DualData` a device has either the old layout or
data sealed by an older script (a bound of `Init`, to keep the run small).

Fairness. A thread that is inside the library and not asleep gets to run (weak
fairness of its steps: the kernel's scheduler), the clock moves on, and the
kernel ends a timed wait when its time has come. In `PowerOffAlarm` the alarm
thread, init and the start of Android run, and time passes until `MaxTime`;
users need not do anything. Nothing is assumed of callers:
nobody has to lock, unlock or signal, and no signal has to interrupt a sleep.
Liveness is therefore stated as in `AbstractMutex`: while the mutex is free and
a request is blocked, somebody takes it. No thread in particular is promised
the mutex; the code lets newcomers barge in.

### What the violations show

* `OwnedLostWake`. In `pthread_mutex_lock_timeout_np`, line 915, a woken waiter
  that loses the race for the mutex reads the clock before it marks the word as
  contended. If its time is over it returns EBUSY; the winner holds the mutex
  in state 1, its unlock wakes nobody, and another thread stays asleep on a free
  mutex. A normal mutex is not affected: there the swap writes 2 first, which
  `NobodyOrphaned` proves sufficient.
* `PowerOffAlarmLate`. The thread computes the time left from one reading of
  the RTC, sets the alarm some time later, wakes some time after it went off and
  reads the RTC again; all the delays add up. Beyond two seconds (or if that
  last read fails) `alarm_is_alm_expired` says no, the loop of line 156 waits
  again, and since the alarm has gone off nothing will end that wait: the phone
  charges on through the alarm. Accepting any time after `alm_secs - 2` would do.
* `RepartitionRetry`. With the data partition gone from the table the script
  takes 8 MiB for the minimal size, and makes the partition again with less than
  the data in its file system needs. `DataBlocksKept` shows that the data
  survives all the same: e2fsck stops the script before the storage partition
  is made, and a retry with a larger size repairs the partition.

### Limits the models make visible

* If Android is booted after an interrupted switch, before recovery has run
  `load`, it adds its own directories to a half-moved data set. Nothing is lost
  or buried then (`NoUserDataLost`, `NothingIsBuried`), but the data sets are
  mixed; and on a device that still has the old layout the upgrade can then
  sweep the sealed data into `media/0`, where no command finds it (`swept`).
* The menu sets the property `dualboot.system` (`portrait.xml`, line 3020) and
  then runs `save`. If the write of the boot mark fails, `save` dies and the
  property names a system that does not boot; `enabledualdata`, run next, takes
  it for the "current system" (`dualboot.sh`, lines 252 and 467) and makes the
  sealed directory of the wrong one: the live data passes for the other
  system's. `HintIsCurrentSystem` holds for everything but such a failure and
  commands that were interrupted. The directories themselves are in order
  again after the next `save` that succeeds or the `load` of the next recovery
  (`DataFollowsMark`): until mark and property agree, a failed write counts as an
  interrupted command.
* `dualboot set` does not change the property either, with the same result if
  its mount fails. `DataFollowsMark`, `HintIsCurrentSystem` and
  `DataSetsStayWhole` are about the recovery's own commands.
* What an older version of the script sealed is discarded when the directory of
  the present version exists (`dualdata_migrate_`); `NoUserDataLost` exempts it.
* A power loss in the `mv` of the layout upgrade is never repaired (`cut`):
  `media/0` is made first, the next start finds it, skips the `mv`, says "Done"
  and writes the version, and the rest stays in `/data/media`. And once
  `dualboot.sh` has put an (empty) version file on a device in the old layout,
  its files are never moved.
* The owner of a recursive mutex can destroy it while it holds it: the trylock
  in `pthread_mutex_destroy` ("to ensure that the mutex value is valid and is
  not already locked", line 971) counts it up instead of refusing.
  `DestroyedNotLocked` shows that nobody else can, and nobody an error-checking
  mutex.
* `load_bootinfo` clears the register at every start by hand, and only Android
  sets it again; switched off in between, the phone has an alarm and an empty
  register (`"cut"` in `fault`). `RegisterMatchesAlarm` shows that this and a
  failed write are the only ways to it.
* If a phone is plugged in so shortly before the register's time that it comes
  before the charger's thread has read the register and the RTC, the thread finds
  nothing, or a time that is past, and ends; the phone, which would have been
  started had it been off, charges on. The bound in `StoredTimeIsEnough` is
  exact: with the time two delays away the property is false.
* A register that reads empty is not noticed by `alarm_get_time`, which makes a
  number of a buffer that `read` has not written: the thread may also wait for a
  time nobody set (`"empty"`). If the charging is ended between the register's
  time and the restart, the phone stays off (`"user"`). `AlarmIsHeeded` starts
  when the thread has set its alarm.
* `sendit` returns 0 when the vibration failed and -1 when it plays
  (`VIBE_FAILED(vs) ? 0 : -1`, line 264); the function it replaces returns 0
  for success (`return (ret == nwr) ? 0 : -1;` in
  `patch/hardware/libhardware_legacy/0001`). Its callers do not look. A failed
  `ImmVibeTerminate` leaves its session's effects out of reach (`leak`).
* `repartition` takes a storage partition with only hidden files, or one that
  cannot be mounted, for empty (`"unseen"` in `Repartition`). What a storage
  holds does not change while the script runs: `UseStorage` waits for its end, so
  the window between the look at the partition and its removal is not exercised.
* `Repartition` has one beginning of the data partition. With the entry missing
  the script takes the end of partition 26 (line 249), from which it also counts
  the size of data and storage together; a table with a gap there is outside the
  model.
* `AutoMkfs` formats a storage partition without a file system. `auto-mkfs` does
  the same to cache, data and persist (lines 26-29); that it takes the data file
  system for missing, because `dumpe2fs` fails on it, is outside the model.
* `Repartition` assumes that a partition ends where parted's alignment allows,
  also before the first resize (`OnGrid`). Otherwise a resize to the same size
  could cut the file system; only shrinking uses the reserve.
* A light whose write failed is not written again with the same value, and
  a LED that is on when a process starts is not turned off (`bad` in `Lights`);
  `LedShowsWinner` and `PanelsAgree` show that the next different value repairs
  it, and that nothing else makes them wrong.
* The condition counter's wrap after exactly 2^31 pulses in the window, which
  the code's comment describes, is excluded by `PulseAllowed`; one
  pulse less is not, and `NoPulseMissed` holds there.

## Proofs

Each proof module defines the inductive invariant `IInv` of its specification:
the properties themselves and the named parts they need, which stand first in
the module with a comment each. `InitEstablishes` and `NextPreserves` (with a
lemma for each group of actions) make the theorem `Invariance`; the other theorems
follow from it. (`TypeOK` of `CondVar` and `Vibrator` is proved and not listed in
a run.) TLC has checked every `IInv` on the instance of the component's
run before it was proved.

`NormalMutexProofs`, for any set of threads: `TypeCorrect`, `Exclusion`,
`WordTells` (the word tells whether there is a holder), `NoOrphan`,
`DestroyFinal` and `RefinesAbstractMutex` (every step is a step of
`AbstractMutex` or a stutter). The safety properties are inductive only
together, and need three more facts: nobody touches a destroyed mutex except for
a last futex_wake (`DeadIsQuiet`), a thread inside destroy is alone
(`DestroyIsAlone`), and only timed locks read the clock (`OnlyTimedChecks`;
without it a plain lock could give up in the refinement). The assumption used is
that `Calls` are the known functions.

`OwnedMutexProofs`, for any set of threads, any counter limit and either type:
`TypeCorrect`, `WordTells`, `NoSelfWait`, `DestroyRefused` and `TypeKept`. The
argument is
in `OwnerKnowsItself`: a thread that has found itself the owner, or not the
owner, on an old copy of the word is still right when it acts on that, because
only the owner changes the owner field of a locked word and only it counts.
`TypeKept` rests on `NewMutexType`: an attribute word gives `init` the type that was
stored in it, whatever was stored before and however often the shared flag was
set. `DestroyRefused` needs that a thread inside destroy is alone
(`DestroyIsAlone`). `SleepersKept` is proved for callers without timed locks; with them it is
false (`OwnedLostWake`). `RefinesAbstractMutex` is proved where no recursive
mutex is destroyed: its owner can destroy it while it holds it (see above),
which no mutex of `AbstractMutex` allows.

`CondVarProofs`, for any finite sets of consumers and producers and any size of
the counter: `TypeCorrect`, `ReturnsLocked`, `EveryPulseSeen` and
`NoSleepOnItems`. `LagIsDistance` ties the counter a consumer has read to the
number of pulses since, modulo the counter's size; `ItemsCovered` counts the
threads that will pulse, wake or look again, and says that there are as many
as items whenever somebody sleeps or is about to. Finiteness is used for that
count only.

`DualDataProofs`, for any directory names, any number of batches, any files and
every subset of the commands, about `LayoutUpgrade` with `DualData` in it:
`TypeCorrect`, `NeverBuried` and `DataKept`. What a command has still to do is
described by the order of its steps alone (`InOrder`): it migrates what older
versions sealed before it packs or unpacks, and finishes the moves under way
before it renames or makes a sealed directory; this is closed under taking
steps, so it holds wherever a command is cut off and whatever the directories
looked like when it began. `NoUserDataLost` is split into `OnePlace` and
`SomePlace`, which each kind of shell command keeps (`RenameKeeps`, `MoveKeeps`,
`EmptyKeeps`, `DiscardKeeps`, `AddKeeps`). Assumed: the names of data directories differ from
`.layout_version` and from the model's mark for a missing directory, and
Android creates its directories at least once (the data a device comes with).

The same module proves `DataFollows`, `HintIsRight`, `SetsStayWhole` and `FilesOnly` from a
second invariant, `JInv` (theorem `PlacesInvariance`), which holds as long as
Android has not run on what an interrupted command left and `set` was not used,
which the menu's property does not follow (`Careful`). A failed write of the mark
is allowed: the invariant says where the data is in terms of the system the
running command works for (`which`), and ties that to the mark only while nothing
is interrupted. It is about the position in the programs:

* `EarlyPhase`: before its switch, a program finishes every move under way,
  migrates what older versions sealed, renames what is disabled and looks at the
  directories again, each before the first step that relies on it. `EarlyPop`
  shows that this survives every step taken, and the lemmas about the programs
  of `dualboot.sh` that it holds when one begins, whatever the directories
  look like then.
* `LatePhase`: within the switch, the number of steps left tells what is sealed
  and what is being moved. A command that is cut off there begins the next one
  in the early phase again.
* `Settled` and `PropTells`: when nothing was interrupted, and when the property
  that the recovery's menu reads is set, the directories are in order although no
  command is running.
* `Alone`: at most one system's data is half moved, at most one's is disabled
  and then nothing is sealed, and what an older version sealed excludes sealed
  data of the other system. Without it one of the first steps of a command
  could undo what another relies on.
* `SetsAreWhole`: the live data together with what is being moved out of it or into it
  is one set; every sealed, disabled or old directory is another.
* `Callers` and `NothingSwept`: which system runs what, and that the layout
  upgrade meets no sealed data.

TLC found `JInv` true in every state of the run `DualData`, and preserved by
every step from states of a smaller instance (one name, one file, one batch)
that satisfy it and `IInv`, reachable or not, with the rests of the commands'
programs and other short programs left to do.

`RepartitionProofs`, for every disk size, reserve and alignment grid:
`TypeCorrect`, `DataKept` and `Mountable`. The invariant connects
the plan with the disk: a file system about to be shrunk has a larger partition,
one that has been shrunk or need not be fits into the partition that will be
made (`PlanFits`), and the storage partition is made when the data file system
fills its own (`StorageComesLast`). `GridAssumption` is what the reserve is for:
alignment cuts off at most `Reserve`.

`LightsProofs`, for every set of colors: `TypeCorrect`, `LedRight`,
`PanelsRight` and `LedGoesOff`. `LedProgress` says which part of the longest
program (off, then on) is left and what the LED shows at that point; with it the
action property `OffBeforeOn` follows step by step.

`PowerOffAlarmProofs`, for any resolution of the clocks and any alarms within
the bound: `TypeCorrect`, `RegisterKept` (but for a failed write
of the register and a start that was cut off) and `StartsInTime`. The last one says
what the code's constants have to satisfy: the lead is longer than the tolerance
and the thread's delay together, and an alarm is not closer than the minimal
register time (hypotheses of the theorem; 300 s against 2 s in the code).
`DecidedInTime` carries the time of the decision to the restart.

`VibratorProofs`, for any set of handles: `TypeCorrect`, `OurSession`,
`RecoversAtOnce` and `OffIsOff`, from the order of the calls (`CallsInOrder`),
the ownership of handles (`HandlesAreOurs`) and the state after a failed request
(`FailureRepaired`).

Only model-checked:

* all liveness (`TimedLockReturns`, `ItemsAreTaken`, `StoredTimeIsEnough`, `AlarmIsHeeded`, the
  fairness part of `ImplementsAbstractMutex`), which is out of the prover's
  reach.

## Not modelled

The getters of attributes and the attributes of condition variables (they carry
the shared flag alone, which chooses between two kinds of the same futex call),
`pthread_once` (inside `#if 0`), the device nodes of `dualboot_hacknodes` and
`installpatch`, `repartition loadsize`, mount helpers (one mount command, chosen
by what is there), the recovery's pages, and configuration have no state of
their own to check. The Java settings read and write one file or property each;
`HighTouchSensitivity.isEnabled` throws where its comment promises false when
the file cannot be read. `libImmVibeJ.so`, the service behind it, the kernel's
futex, RTC and alarm drivers, `parted`, `resize2fs` and `e2fsck` are external
and modelled from how the code uses them.

## Plan

1. Done: all components with behaviour of their own are modelled and checked;
   every safety invariant and every safety action property of the passing runs is
   proved.
2. Left: the corrected variants of what the violation runs refute (a timed lock
   that leaves the word contended when it gives up, a resize that knows the size
   of a missing partition, a layout upgrade that makes its mark last) as theorems, if the code is corrected.
