------------------------------ MODULE DualData ------------------------------
(***************************************************************************)
(* bin/dualboot.sh: the boot mark and the "dual data" directories, with a  *)
(* power loss at any point, and with writes of the mark and mounts that    *)
(* fail.                                                                   *)
(*                                                                         *)
(* The directory /data is the live data of one system; the data of the     *)
(* other one is sealed in /data/media/system-N.  A command is a program of *)
(* shell commands that touch the file system; one action runs one of them  *)
(* (one rename, one mkdir, one entry of a mv), which is what a power loss  *)
(* leaves done or not done (the file system journals them in order).       *)
(*                                                                         *)
(* An entry of a directory is a top-level directory with user data, or the *)
(* file .layout_version.  The device nodes of dualboot_hacknodes and the   *)
(* bind mount live in memory and carry no state from one command to the    *)
(* next, so they are left out; so is the directory media, which never      *)
(* moves: mv cannot put it into its own subdirectory and mv_q ignores that.*)
(***************************************************************************)
EXTENDS Integers, Sequences

CONSTANTS
    Names,                  \* names of the top-level directories with user data
    MaxBatch,               \* bound: how often a system creates such directories
    Commands                \* the commands users run

ASSUME DualAssumption ==
    /\ MaxBatch \in Nat \ {0}
    /\ Commands \subseteq {"save", "enable", "disable", "get", "set"}
    /\ \A n \in Names : n \notin {".layout_version", "no directory"}

VARIABLES
    mark,     \* the boot mark in the misc partition: the system booted next
    fs,       \* fs[p]: the set of entries of directory p, or NoDir
    created,  \* the user data created so far (history)
    power,    \* "off", "recovery" or "android"
    which,    \* the property dualboot.system, set by load and by the user
    enabled,  \* DUALDATA_ENABLED of the running command
    dualprop, \* the property dualboot.dualdata
    todo,     \* what the running command still has to do
    harm      \* history: "interrupted" when a command was and no later one has
              \* completed for the system of the mark; "careless" once Android has
              \* run on what such a one left, or set was used, which the menu's
              \* property does not follow

vars == <<mark, fs, created, power, which, enabled, dualprop, todo, harm>>

Systems == {1, 2}
Other(i) == 3 - i

\* system-N, system-N.tmp and system-N.disabled under /data/media, and the
\* directories system0 and system1 that older versions kept in /data.
Live      == <<"live", 0>>
Sealed(i) == <<"sealed", i>>
Tmp(i)    == <<"tmp", i>>
Off(i)    == <<"disabled", i>>
Legacy(i) == <<"legacy", i>>
Dirs      == {Live} \cup {<<k, i>> : k \in {"sealed", "tmp", "disabled", "legacy"}, i \in Systems}

LayoutVersion == [name |-> ".layout_version", batch |-> 0]
Batch(b)      == {[name |-> n, batch |-> b] : n \in Names}
UserEntries   == UNION {Batch(b) : b \in 0 .. MaxBatch}
NoDir == {[name |-> "no directory", batch |-> 0]}

Exists(p) == fs[p] # NoDir

\* The device before its first dualboot command: one system with data, perhaps
\* in the layout before multi-user; after an update, perhaps the other one's
\* data where older versions sealed it.
Init ==
    /\ mark \in Systems
    /\ \E old, new, multiuser \in BOOLEAN :
        /\ old => multiuser
        /\ fs = [p \in Dirs |->
                  IF p = Live THEN Batch(1) \cup IF multiuser THEN {LayoutVersion} ELSE {}
                  ELSE IF p = Legacy(Other(mark)) /\ old THEN Batch(0)
                  ELSE IF p = Sealed(Other(mark)) /\ old /\ new THEN {LayoutVersion}
                  ELSE NoDir]
        /\ created = Batch(1) \cup IF old THEN Batch(0) ELSE {}
    /\ power = "off"
    /\ which = mark
    /\ enabled = FALSE /\ dualprop = FALSE
    /\ todo = <<>>
    /\ harm = "none"

-----------------------------------------------------------------------------
(* The programs of the commands. *)

Open == << <<"clean", 0>>, <<"finish", 1>>, <<"finish", 2>>,
           <<"migrate", 1>>, <<"migrate", 2>>, <<"flag", 0>> >>

\* recovery_save and do_set: the boot mark first, then the data.
SaveProgram(w) == << <<"mark", w>>, <<"mount", 0>> >> \o Open \o << <<"switch", w>>, <<"done", 0>> >>

\* A plausible bug: load reads the mark but leaves the data alone.
LoadWithoutSwitch(w) == << <<"mount", 0>> >> \o Open \o << <<"setprop", 0>>, <<"done", 0>> >>

\* recovery_load, run at every boot of the recovery system.
LoadProgram(w) ==
    << <<"mount", 0>> >> \o Open \o << <<"setprop", 0>>, <<"switch", w>>, <<"done", 0>> >>

\* recovery_enabledualdata with dualdata_enable, and recovery_disabledualdata
\* with dualdata_disable.  Both reopen twice.
EnableProgram(w) ==
    << <<"mount", 0>> >> \o Open \o << <<"undisable", 1>>, <<"undisable", 2>> >>
        \o Open \o << <<"create", w>> >>
        \o Open \o << <<"setprop", 0>>, <<"switch", w>>, <<"done", 0>> >>

DisableProgram ==
    << <<"mount", 0>> >> \o Open \o << <<"disable", 1>>, <<"disable", 2>> >>
        \o Open \o Open \o << <<"setprop", 0>> >>

\* A plausible bug: the live data may be left without a layout version.
SwitchWithoutVersion(u) == << <<"pack", Other(u)>>, <<"unpack", u>>, <<"drain", u>> >>

\* dualdata_switchtodata, when dual data is enabled.
SwitchProgram(u) ==
    << <<"pack", Other(u)>>, <<"unpack", u>>, <<"drain", u>>, <<"lv", Live>> >>

-----------------------------------------------------------------------------
(* Shell commands on directories. *)

\* One entry of "mv p/* p/.* q": a directory does not replace a non-empty one
\* (mv complains, mv_q ignores it and the others are moved), a file replaces a
\* file; the dot file comes last.
Movable(p, q) ==
    LET dirs == {e \in fs[p] : e # LayoutVersion /\ \A f \in fs[q] : f.name # e.name}
    IN  IF dirs # {} THEN dirs ELSE fs[p] \cap {LayoutVersion}

Move(p, q) ==
    \E e \in Movable(p, q) : fs' = [fs EXCEPT ![p] = @ \ {e}, ![q] = @ \cup {e}]

\* "mv p q" for a directory p.  When q exists, p ends up inside q, where no
\* command looks for it.
Rename(p, q) ==
    fs' = IF Exists(q) THEN [fs EXCEPT ![p] = NoDir]
                       ELSE [fs EXCEPT ![p] = NoDir, ![q] = fs[p]]

Rmdir(p) == fs' = IF fs[p] = {} THEN [fs EXCEPT ![p] = NoDir] ELSE fs

\* A plausible bug: the directory is removed whatever it still holds.
RmdirRecursive(p) == fs' = [fs EXCEPT ![p] = NoDir]

\* The end of unpacking: rmdir of the directory that should be empty now.
RmdirDrained(p) == Rmdir(p)

-----------------------------------------------------------------------------
(* The running command.  Each action is one kind of shell command. *)

At(op) == power # "off" /\ todo # <<>> /\ Head(todo)[1] = op
Arg    == Head(todo)[2]
Pop    == todo' = Tail(todo)

\* The running command does not come to its end.
Interrupted == harm' = IF harm = "none" THEN "interrupted" ELSE harm

\* A plausible bug: save does not look at the result of dualboot_write.
WriteMarkUnchecked ==
    /\ At("mark")
    /\ mark' \in {mark, Arg}
    /\ Pop
    /\ UNCHANGED <<fs, created, power, which, enabled, dualprop, harm>>

\* dualboot_write, with dd.
WriteMark ==
    /\ At("mark")
    /\ mark' = Arg
    /\ Pop
    /\ UNCHANGED <<fs, created, power, which, enabled, dualprop, harm>>

\* dd fails, before or after the byte that tells the systems apart, and the
\* command dies; the menu has set the property already.
WriteMarkFails ==
    /\ At("mark")
    /\ mark' \in {mark, Arg}
    /\ todo' = <<>>
    /\ Interrupted
    /\ UNCHANGED <<fs, created, power, which, enabled, dualprop>>

\* mount_ex of /data.
Mount ==
    /\ At("mount")
    /\ Pop
    /\ UNCHANGED <<mark, fs, created, power, which, enabled, dualprop, harm>>

\* A mount fails, the one of /data or the one at the beginning of every
\* dualdata_open, and the command dies.  (Android runs get alone, which has
\* done nothing then.)
Dies ==
    /\ At("mount") \/ At("clean")
    /\ todo' = <<>>
    /\ IF power = "android" THEN UNCHANGED harm ELSE Interrupted
    /\ UNCHANGED <<mark, fs, created, power, which, enabled, dualprop>>

\* dualdata_open: empty sealed directories are removed.
Clean ==
    /\ At("clean")
    /\ fs' = [p \in Dirs |-> IF fs[p] = {} /\ p[1] \in {"sealed", "legacy"} THEN NoDir ELSE fs[p]]
    /\ Pop
    /\ UNCHANGED <<mark, created, power, which, enabled, dualprop, harm>>

\* "finish previous partial move" of dualdata_open, and the same two commands
\* of the packing: entries go from /data to system-N.tmp, one at a time, then
\* the directory gets its final name.
FinishMove ==
    /\ At("finish")
    /\ Exists(Tmp(Arg)) /\ Movable(Live, Tmp(Arg)) # {}
    /\ Move(Live, Tmp(Arg))
    /\ UNCHANGED <<mark, created, power, which, enabled, dualprop, todo, harm>>

\* A plausible bug: the directory gets its final name before all has moved.
FinishRenameEarly ==
    /\ At("finish")
    /\ Exists(Tmp(Arg))
    /\ Rename(Tmp(Arg), Sealed(Arg))
    /\ Pop
    /\ UNCHANGED <<mark, created, power, which, enabled, dualprop, harm>>

FinishRename ==
    /\ At("finish")
    /\ Exists(Tmp(Arg)) /\ Movable(Live, Tmp(Arg)) = {}
    /\ Rename(Tmp(Arg), Sealed(Arg))
    /\ Pop
    /\ UNCHANGED <<mark, created, power, which, enabled, dualprop, harm>>

FinishNothing ==
    /\ At("finish")
    /\ ~Exists(Tmp(Arg))
    /\ Pop
    /\ UNCHANGED <<mark, fs, created, power, which, enabled, dualprop, harm>>

\* dualdata_migrate_: data sealed by an older version is renamed, or discarded
\* when the new directory is there already.
Migrate ==
    /\ At("migrate")
    /\ IF ~Exists(Legacy(Arg)) THEN UNCHANGED fs
       ELSE IF Exists(Sealed(Arg)) THEN fs' = [fs EXCEPT ![Legacy(Arg)] = NoDir]
       ELSE Rename(Legacy(Arg), Sealed(Arg))
    /\ Pop
    /\ UNCHANGED <<mark, created, power, which, enabled, dualprop, harm>>

\* The end of dualdata_open.
Flag ==
    /\ At("flag")
    /\ enabled' = \E i \in Systems : Exists(Sealed(i))
    /\ Pop
    /\ UNCHANGED <<mark, fs, created, power, which, dualprop, harm>>

SetProp ==
    /\ At("setprop")
    /\ dualprop' = enabled
    /\ Pop
    /\ UNCHANGED <<mark, fs, created, power, which, enabled, harm>>

\* dualdata_switchtodata starts: it does nothing when dual data is disabled.
Switch ==
    /\ At("switch")
    /\ todo' = (IF enabled THEN SwitchProgram(Arg) ELSE <<>>) \o Tail(todo)
    /\ UNCHANGED <<mark, fs, created, power, which, enabled, dualprop, harm>>

\* A plausible bug: the live data is packed whatever is sealed already.
PackAlways ==
    /\ At("pack")
    /\ fs' = [fs EXCEPT ![Tmp(Arg)] = IF Exists(Tmp(Arg)) THEN @ ELSE {}]
    /\ todo' = << <<"finish", Arg>> >> \o Tail(todo)
    /\ UNCHANGED <<mark, created, power, which, enabled, dualprop, harm>>

\* The live data is packed unless that system's data is sealed already: mkdir,
\* then the move and the rename of the finish step.
Pack ==
    /\ At("pack")
    /\ IF Exists(Sealed(Arg)) THEN Pop /\ UNCHANGED fs
       ELSE /\ fs' = [fs EXCEPT ![Tmp(Arg)] = IF Exists(Tmp(Arg)) THEN @ ELSE {}]
            /\ todo' = << <<"finish", Arg>> >> \o Tail(todo)
    /\ UNCHANGED <<mark, created, power, which, enabled, dualprop, harm>>

\* The sealed data is unpacked: renamed to .tmp, moved entry by entry, and the
\* directory removed if nothing is left in it.
Unpack ==
    /\ At("unpack")
    /\ IF Exists(Sealed(Arg)) /\ ~Exists(Tmp(Arg))
       THEN Rename(Sealed(Arg), Tmp(Arg)) ELSE UNCHANGED fs
    /\ Pop
    /\ UNCHANGED <<mark, created, power, which, enabled, dualprop, harm>>

DrainMove ==
    /\ At("drain")
    /\ Exists(Tmp(Arg)) /\ Movable(Tmp(Arg), Live) # {}
    /\ Move(Tmp(Arg), Live)
    /\ UNCHANGED <<mark, created, power, which, enabled, dualprop, todo, harm>>

DrainEnd ==
    /\ At("drain")
    /\ Exists(Tmp(Arg)) => Movable(Tmp(Arg), Live) = {}
    /\ IF Exists(Tmp(Arg)) THEN RmdirDrained(Tmp(Arg)) ELSE UNCHANGED fs
    /\ Pop
    /\ UNCHANGED <<mark, created, power, which, enabled, dualprop, harm>>

\* dualdata_create_layout_version_: a copy or an empty file, if there is none.
CreateLayoutVersion ==
    /\ At("lv")
    /\ fs' = [fs EXCEPT ![Arg] = @ \cup {LayoutVersion}]
    /\ Pop
    /\ UNCHANGED <<mark, created, power, which, enabled, dualprop, harm>>

\* rename_directory in dualdata_enable and dualdata_disable.
Undisable ==
    /\ At("undisable")
    /\ IF Exists(Off(Arg)) /\ ~Exists(Sealed(Arg))
       THEN Rename(Off(Arg), Sealed(Arg)) ELSE UNCHANGED fs
    /\ Pop
    /\ UNCHANGED <<mark, created, power, which, enabled, dualprop, harm>>

Disable ==
    /\ At("disable")
    /\ IF Exists(Sealed(Arg)) /\ ~Exists(Off(Arg))
       THEN Rename(Sealed(Arg), Off(Arg)) ELSE UNCHANGED fs
    /\ Pop
    /\ UNCHANGED <<mark, created, power, which, enabled, dualprop, harm>>

\* A plausible bug: the mkdir is missing.
CreateWithoutMkdir ==
    /\ At("create")
    /\ todo' = (IF enabled THEN <<>> ELSE << <<"lv", Sealed(Other(Arg))>> >>) \o Tail(todo)
    /\ UNCHANGED <<mark, fs, created, power, which, enabled, dualprop, harm>>

\* dualdata_enable with nothing sealed: the live data is taken for the current
\* system's and an empty directory for the other one is made.  The script's
\* guess from a single sealed directory is dead code: such a directory means
\* that dual data is enabled.
CreateSealed ==
    /\ At("create")
    /\ IF enabled THEN Pop /\ UNCHANGED fs
       ELSE /\ fs' = [fs EXCEPT ![Sealed(Other(Arg))] = IF @ = NoDir THEN {} ELSE @]
            /\ todo' = << <<"lv", Sealed(Other(Arg))>> >> \o Tail(todo)
    /\ UNCHANGED <<mark, created, power, which, enabled, dualprop, harm>>

\* The command has run to its end.  A failed write of the mark is made good
\* when mark and property agree again.
Done ==
    /\ At("done")
    /\ harm' = IF harm = "interrupted" /\ which = mark THEN "none" ELSE harm
    /\ Pop
    /\ UNCHANGED <<mark, fs, created, power, which, enabled, dualprop>>

-----------------------------------------------------------------------------
(* Users, power and the systems that boot. *)

Start(program) ==
    /\ todo = <<>>
    /\ todo' = program
    /\ UNCHANGED <<mark, fs, created, power, enabled, dualprop>>

\* The recovery menu: the property is set, then save runs; enable and disable
\* are offered according to the property dualboot.dualdata.
UserSave ==
    /\ power = "recovery" /\ "save" \in Commands
    /\ \E w \in Systems : Start(SaveProgram(w)) /\ which' = w
    /\ UNCHANGED harm

UserEnable ==
    /\ power = "recovery" /\ "enable" \in Commands /\ ~dualprop
    /\ Start(EnableProgram(which))
    /\ UNCHANGED <<which, harm>>

UserDisable ==
    /\ power = "recovery" /\ "disable" \in Commands /\ dualprop
    /\ Start(DisableProgram)
    /\ UNCHANGED <<which, harm>>

\* The command line, in either system.  get opens, and so finishes moves too.
UserGet ==
    /\ power # "off" /\ "get" \in Commands
    /\ Start(Open)
    /\ UNCHANGED <<which, harm>>

UserSet ==
    /\ power # "off" /\ "set" \in Commands
    /\ \E w \in Systems : Start(SaveProgram(w))
    /\ harm' = "careless"
    /\ UNCHANGED which

\* Power loss, or a reboot by the user.
PowerOff ==
    /\ power # "off"
    /\ power' = "off"
    /\ todo' = <<>>
    /\ IF todo = <<>> THEN UNCHANGED harm ELSE Interrupted
    /\ enabled' = FALSE
    /\ dualprop' = FALSE
    /\ UNCHANGED <<mark, fs, created, which>>

BootRecovery ==
    /\ power = "off"
    /\ power' = "recovery"
    /\ which' = mark
    /\ todo' = LoadProgram(mark)
    /\ UNCHANGED <<mark, fs, created, enabled, dualprop, harm>>

BootAndroid ==
    /\ power = "off"
    /\ power' = "android"
    /\ harm' = IF harm = "interrupted" THEN "careless" ELSE harm
    /\ UNCHANGED <<mark, fs, created, which, enabled, dualprop, todo>>

\* The running Android creates its top-level directories where they are missing.
AndroidWrites ==
    /\ power = "android"
    /\ \E b \in 1 .. MaxBatch :
        /\ \A e \in created : e.batch < b
        /\ \E e \in created : e.batch = b - 1
        /\ LET missing == {e \in Batch(b) : \A f \in fs[Live] : f.name # e.name}
           IN  /\ missing # {}
               /\ fs' = [fs EXCEPT ![Live] = @ \cup missing \cup {LayoutVersion}]
               /\ created' = created \cup missing
    /\ UNCHANGED <<mark, power, which, enabled, dualprop, todo, harm>>

Script ==
    \/ WriteMark \/ Mount \/ Clean \/ FinishMove \/ FinishRename \/ FinishNothing
    \/ Migrate \/ Flag \/ SetProp \/ Switch \/ Pack \/ Unpack \/ DrainMove \/ DrainEnd
    \/ CreateLayoutVersion \/ Undisable \/ Disable \/ CreateSealed \/ Done

\* What happens in a running system, and the start of the recovery system.
Running ==
    \/ Script \/ WriteMarkFails \/ Dies
    \/ UserSave \/ UserEnable \/ UserDisable \/ UserGet \/ UserSet
    \/ BootRecovery \/ AndroidWrites

Next == Running \/ PowerOff \/ BootAndroid

Spec == Init /\ [][Next]_vars

-----------------------------------------------------------------------------
(* Properties. *)

\* Every variable has its type; a directory that does not exist holds nothing.
TypeOK ==
    /\ mark \in Systems /\ which \in Systems
    /\ created \subseteq UserEntries
    /\ fs \in [Dirs -> {NoDir} \cup SUBSET (UserEntries \cup {LayoutVersion})]
    /\ Exists(Live)
    /\ power \in {"off", "recovery", "android"}
    /\ enabled \in BOOLEAN /\ dualprop \in BOOLEAN
    /\ harm \in {"none", "interrupted", "careless"}

\* A command has run to its end for the system of the mark and none has been
\* interrupted since, and neither did Android run on what an interrupted one
\* left, nor was set used.
AtRest == todo = <<>> /\ harm = "none"

\* No rename meets a directory of its target's name, which would bury the
\* data one level deeper: a system's data is either sealed or being moved, and
\* data of older versions is migrated before anything is packed.
NothingIsBuried ==
    \A i \in Systems :
        /\ ~(Exists(Sealed(i)) /\ Exists(Tmp(i)))
        /\ Exists(Legacy(i)) => \A j \in Systems : ~Exists(Tmp(j))

\* With dual data enabled, the data that is live belongs to the system that
\* boots next: the other system's data is sealed, its own is not, and nothing
\* is left half moved, though the mark is written before the data moves and
\* either may fail or be interrupted: the recovery system's load repairs that,
\* and so does a save that succeeds.
DataFollowsMark ==
    AtRest /\ (\E i \in Systems : Exists(Sealed(i))) =>
        /\ Exists(Sealed(Other(mark))) /\ ~Exists(Sealed(mark))
        /\ \A i \in Systems : ~Exists(Tmp(i))

\* "hint about current system id": enable makes the directory for the other
\* system's data by the property dualboot.system, which the menu, save and load
\* set at other moments than the mark; unless a write of the mark has failed or
\* a command was interrupted, it names the system that boots next.
HintIsCurrentSystem == At("create") /\ harm = "none" => Arg = mark

\* What a system wrote together stays together, and apart from what the other
\* one wrote, through any number of interrupted switches.
DataSetsStayWhole ==
    AtRest => \A p, q \in Dirs : \A e \in fs[p] \cap created, f \in fs[q] \cap created :
                e.batch = f.batch <=> p = q
=============================================================================
