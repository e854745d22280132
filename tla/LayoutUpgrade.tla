---------------------------- MODULE LayoutUpgrade ----------------------------
(***************************************************************************)
(* bin/upgrade_layout.sh, which init.pisces.rc runs at every start of      *)
(* Android, beside the dual data of bin/dualboot.sh: it moves everything   *)
(* in /data/media to /data/media/0 once, and knows from the presence of    *)
(* /data/.layout_version whether it has.  dualboot.sh keeps the other      *)
(* system's data in the same directory and moves .layout_version with it.  *)
(*                                                                         *)
(* The user's storage is a part of the data partition.  (Where it is a     *)
(* partition of its own, it is mounted over /data/media before the script  *)
(* runs, and hides the sealed data from it.)                               *)
(***************************************************************************)
EXTENDS DualData, FiniteSets

CONSTANT Files      \* what the user keeps in /data/media

VARIABLES
    media,   \* the files still in /data/media
    media0,  \* those in /data/media/0, or NoDir
    upg,     \* what the script does next, or "idle"
    swept,   \* what was in directories of dualboot.sh the script moved (history)
    cut      \* a power loss has interrupted its mv (history)

upgVars  == <<media, media0, upg, swept, cut>>
allVars  == <<vars, upgVars>>

\* A device in the old layout has no /data/.layout_version and no media/0.
UpgradeInit ==
    /\ Init
    /\ IF LayoutVersion \in fs[Live] THEN media = {} /\ media0 = Files
                                     ELSE media = Files /\ media0 = NoDir
    /\ upg = "idle" /\ swept = {} /\ cut = FALSE

UpgradeStep(from, to) ==
    /\ power = "android" /\ upg = from /\ upg' = to
    /\ UNCHANGED <<mark, created, power, which, enabled, dualprop, todo, harm, cut>>

\* A version file, even an empty one, means that nothing is to be done.
VersionKnown ==
    /\ LayoutVersion \in fs[Live]
    /\ UpgradeStep("version", "idle")
    /\ UNCHANGED <<fs, media, media0, swept>>

\* mkdir /data/media/0, unless it is there.
MakeMedia0 ==
    /\ LayoutVersion \notin fs[Live]
    /\ IF media0 = NoDir THEN UpgradeStep("version", "move") /\ media0' = {}
                         ELSE UpgradeStep("version", "write") /\ UNCHANGED media0
    /\ UNCHANGED <<fs, media, swept>>

\* The directories of dualboot.sh in /data/media.
MediaDirs == {p \in Dirs : p[1] \in {"sealed", "tmp", "disabled"} /\ Exists(p)}

\* mv of one entry of /data/media: a file, or a directory of dualboot.sh.
MoveFile ==
    /\ UpgradeStep("move", "move")
    /\ \E f \in media : media' = media \ {f} /\ media0' = media0 \cup {f}
    /\ UNCHANGED <<fs, swept>>

SweepDirectory ==
    /\ UpgradeStep("move", "move")
    /\ \E p \in MediaDirs : fs' = [fs EXCEPT ![p] = NoDir] /\ swept' = swept \cup fs[p]
    /\ UNCHANGED <<media, media0>>

MoveEnds ==
    /\ media = {} /\ MediaDirs = {}
    /\ UpgradeStep("move", "write")
    /\ UNCHANGED <<fs, media, media0, swept>>

WriteVersion ==
    /\ UpgradeStep("write", "idle")
    /\ fs' = [fs EXCEPT ![Live] = @ \cup {LayoutVersion}]
    /\ UNCHANGED <<media, media0, swept>>

Upgrade ==
    \/ VersionKnown \/ MakeMedia0 \/ MoveFile \/ SweepDirectory \/ MoveEnds \/ WriteVersion

\* init waits for the script before it starts anything else.
UpgradeNext ==
    \/ Upgrade
    \/ BootAndroid /\ upg' = "version" /\ UNCHANGED <<media, media0, swept, cut>>
    \/ PowerOff /\ upg' = "idle" /\ cut' = (cut \/ upg = "move") /\ UNCHANGED <<media, media0, swept>>
    \/ upg = "idle" /\ Running /\ UNCHANGED upgVars

UpgradeSpec == UpgradeInit /\ [][UpgradeNext]_allVars

-----------------------------------------------------------------------------
(* Properties. *)

\* User data is in one directory that a command looks at, never in two and
\* never in none, whatever was interrupted and whichever system booted then.
\* Only data sealed by older versions (batch 0) may be discarded, and what the
\* layout upgrade has swept into media/0 is out of reach: see UpgradeMovesFilesOnly.
NoUserDataLost ==
    \A e \in created :
        LET places == {p \in Dirs : e \in fs[p]}
        IN  \/ Cardinality(places) = 1
            \/ places = {} /\ (e.batch = 0 \/ e \in swept)

\* The upgrade moves the user's files, all of them, and nothing else.  Once
\* media/0 is there all files are in it when Android runs (but a power loss in
\* the mv is never repaired); and the sealed data of the other system is never
\* taken for files: a system that dualboot.sh has touched has a version file
\* when Android starts, unless it is started in the middle of a command.
UpgradeMovesFilesOnly ==
    /\ upg = "idle" /\ media0 # NoDir /\ ~cut => media = {}
    /\ harm # "careless" => swept = {}
=============================================================================
