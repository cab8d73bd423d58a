------------------------------ MODULE AppUpdate ------------------------------
(***************************************************************************)
(* How an update that was downloaded and verified replaces the program:    *)
(* nyaterm-updater install.rs and install/portable.rs.                     *)
(*                                                                         *)
(* Three installers, one per kind of installation.                         *)
(*   portable  (Windows): the helper moves every program file to a backup  *)
(*             directory, moves the new ones in, and undoes both when a    *)
(*             move fails;                                                 *)
(*   installed (Windows): the helper copies the directory, runs the        *)
(*             package's installer and swaps the copy back when it fails;  *)
(*   bundle    (macOS, Linux): a shell script moves the application away   *)
(*             and the new one in its place.                               *)
(* Any file operation may fail, and the helper may die between any two.    *)
(***************************************************************************)
EXTENDS Integers, FiniteSetsExt

CONSTANT Payload    \* number of files of the program

ASSUME PayloadAssumption == Payload \in Nat \ {0}

Files == 1 .. Payload            \* PortableLayout::files, in order
Executable == 1                  \* NyaTerm.exe is the first
Names == 1 .. Payload + 1        \* and one file older versions had, `removed'

Versions == {"none", "old", "new"}
Empty == [f \in Names |-> "none"]

\* A whole new version: every file of it, and nothing obsolete.
NewVersion == [f \in Names |-> IF f \in Files THEN "new" ELSE "none"]

VARIABLES
    kind,       \* which installer runs
    found,      \* the installation before the update
    target,     \* the installation
    backup,     \* what the backup holds
    saved,      \* the backup directory exists
    aside,      \* a failed installation moved out of the way
    pc,         \* what the helper does next
    at,         \* the file it is at
    moved,      \* `backed_up': files that are in the backup
    put,        \* `installed': files that are in place
    failed,     \* a step of the rollback failed
    recovery,   \* `recovery_required'
    started,    \* the program was started: told to clean up, or not
    work        \* the work directory, with the backup of the portable helper

files == <<target, backup, saved, aside>>
progress == <<at, moved, put, failed>>
vars == <<kind, found, files, pc, progress, recovery, started, work>>

Goto(step) == pc' = step

-----------------------------------------------------------------------------
(* portable: commit_portable_files_with.                                   *)

\* A Windows helper gives up before it touches the installation: the checks of
\* the paths or of the payload fail, waiting for the program to exit times out,
\* or the backup directory cannot be created.
Refuse ==
    /\ pc = "begin" /\ kind # "bundle"
    /\ Goto("error")
    /\ UNCHANGED <<kind, found, files, progress, recovery, started, work>>

BeginPortable ==
    /\ pc = "begin" /\ kind = "portable"
    /\ saved' = TRUE
    /\ at' = 1
    /\ Goto("backup")
    /\ UNCHANGED <<kind, found, target, backup, aside, moved, put, failed, recovery, started, work>>

\* A move of the transaction failed: the rollback starts.
Fail ==
    /\ pc \in {"backup", "install"}
    /\ Goto("remove")
    /\ UNCHANGED <<kind, found, files, progress, recovery, started, work>>

MoveToBackup ==
    /\ pc = "backup" /\ at \in Names
    /\ at' = at + 1
    /\ IF target[at] = "none"
       THEN UNCHANGED <<target, backup, moved>>
       ELSE /\ backup' = [backup EXCEPT ![at] = target[at]]
            /\ target' = [target EXCEPT ![at] = "none"]
            /\ moved' = moved \cup {at}
    /\ UNCHANGED <<kind, found, saved, aside, pc, put, failed, recovery, started, work>>

AllMoved ==
    /\ pc = "backup" /\ at \notin Names
    /\ at' = 1
    /\ Goto("install")
    /\ UNCHANGED <<kind, found, files, moved, put, failed, recovery, started, work>>

MoveNew ==
    /\ pc = "install" /\ at \in Files
    /\ at' = at + 1
    /\ target' = [target EXCEPT ![at] = "new"]
    /\ put' = put \cup {at}
    /\ UNCHANGED <<kind, found, backup, saved, aside, pc, moved, failed, recovery, started, work>>

AllPlaced == at \notin Files

Installed ==
    /\ pc = "install" /\ AllPlaced
    /\ Goto("discard")
    /\ UNCHANGED <<kind, found, files, progress, recovery, started, work>>

\* remove_dir_all of a backup that is not needed any more.  It may stop half way,
\* which only the installed helper reports.
Discard ==
    /\ pc = "discard"
    /\ \E kept \in SUBSET {f \in Names : backup[f] # "none"} :
          /\ backup' = [f \in Names |-> IF f \in kept THEN backup[f] ELSE "none"]
          /\ saved' \in IF kept = {} THEN BOOLEAN ELSE {TRUE}
    /\ Goto(IF kind = "installed" /\ saved' THEN "error" ELSE "start")
    /\ UNCHANGED <<kind, found, target, aside, progress, recovery, started, work>>

\* The rollback removes the new files in reverse order, then moves the old ones
\* back, in reverse order too.  A new file that cannot be removed is an error.
RemoveNew ==
    /\ pc = "remove" /\ put # {}
    /\ put' = put \ {Max(put)}
    /\ \/ target' = [target EXCEPT ![Max(put)] = "none"] /\ UNCHANGED failed
       \/ failed' = TRUE /\ UNCHANGED target
    /\ UNCHANGED <<kind, found, backup, saved, aside, pc, at, moved, recovery, started, work>>

AllRemoved ==
    /\ pc = "remove" /\ put = {}
    /\ Goto("restore")
    /\ UNCHANGED <<kind, found, files, progress, recovery, started, work>>

\* A move replaces a new file that could not be removed.
RestoreOld ==
    /\ pc = "restore" /\ moved # {}
    /\ moved' = moved \ {Max(moved)}
    /\ \/ /\ target' = [target EXCEPT ![Max(moved)] = backup[Max(moved)]]
          /\ backup' = [backup EXCEPT ![Max(moved)] = "none"]
          /\ UNCHANGED failed
       \/ failed' = TRUE /\ UNCHANGED <<target, backup>>
    /\ UNCHANGED <<kind, found, saved, aside, pc, at, put, recovery, started, work>>

\* Variant of RollbackFailed: a rollback counts as done.
RollbackIgnored == FALSE

RollbackFailed == failed

\* A backup is removed only when everything is back; else it stays, and the
\* error asks for recovery.
RolledBack ==
    /\ pc = "restore" /\ moved = {}
    /\ Goto("error")
    /\ IF RollbackFailed
       THEN recovery' = TRUE /\ UNCHANGED <<backup, saved>>
       ELSE \/ saved' = FALSE /\ backup' = Empty /\ UNCHANGED recovery
            \/ recovery' = TRUE /\ UNCHANGED <<backup, saved>>
    /\ UNCHANGED <<kind, found, target, aside, progress, started, work>>

-----------------------------------------------------------------------------
(* installed: run_windows_installed_helper.  The package's installer is a  *)
(* program of its own: when it succeeds the new version is there, when it  *)
(* fails anything may be.                                                  *)

\* copy_directory; what a failed copy has written is removed, if it can be.
CopyInstalled ==
    /\ pc = "begin" /\ kind = "installed"
    /\ saved' = TRUE
    /\ \E copied \in SUBSET Names :
          /\ backup' = [f \in Names |-> IF f \in copied THEN target[f] ELSE "none"]
          /\ Goto(IF copied = Names THEN "run" ELSE "error")
    /\ UNCHANGED <<kind, found, target, aside, progress, recovery, started, work>>

RunInstaller ==
    /\ pc = "run"
    /\ \/ target' = NewVersion /\ Goto("discard")
       \/ target' \in [Names -> Versions] /\ Goto("swap")
    /\ UNCHANGED <<kind, found, backup, saved, aside, progress, recovery, started, work>>

\* rollback_installed_directory: target aside, backup to target; when the second
\* move fails the failed directory is moved back, if it can be.
RollbackInstalled ==
    /\ pc = "swap"
    /\ Goto("error")
    /\ \/ UNCHANGED <<target, backup, saved, aside>>
       \/ target' = backup /\ backup' = Empty /\ saved' = FALSE /\ aside' \in {Empty, target}
       \/ target' = Empty /\ aside' = target /\ UNCHANGED <<backup, saved>>
    /\ UNCHANGED <<kind, found, progress, recovery, started, work>>

-----------------------------------------------------------------------------
(* bundle: the script of launch_installer.                                 *)

MoveBundleAway ==
    /\ pc = "begin" /\ kind = "bundle"
    /\ \/ backup' = target /\ saved' = TRUE /\ target' = Empty /\ Goto("place")
       \/ UNCHANGED <<target, backup, saved>> /\ Goto("end")
    /\ UNCHANGED <<kind, found, aside, progress, recovery, started, work>>

PlaceBundle ==
    /\ pc = "place"
    /\ \/ target' = NewVersion /\ Goto("discard")
       \/ Goto("back") /\ UNCHANGED target
    /\ UNCHANGED <<kind, found, backup, saved, aside, progress, recovery, started, work>>

MoveBundleBack ==
    /\ pc = "back"
    /\ Goto("end")
    /\ \/ target' = backup /\ backup' = Empty /\ saved' = FALSE
       \/ UNCHANGED <<target, backup, saved>>
    /\ UNCHANGED <<kind, found, aside, progress, recovery, started, work>>

-----------------------------------------------------------------------------
(* run_update_helper_if_requested: what is started.                        *)

StartNew ==
    /\ pc = "start"
    /\ \/ started' = (IF kind = "bundle" THEN "plain" ELSE "cleaning") /\ Goto("end")
       \/ kind # "bundle" /\ Goto("error") /\ UNCHANGED started
    /\ UNCHANGED <<kind, found, files, progress, recovery, work>>

\* recovery_pending: a backup the helper did not finish with.
RecoveryPending == saved

\* Variant of MayStartOld: what the rollback reported is not looked at.
MayStart == target[Executable] # "none"

MayStartOld ==
    /\ target[Executable] # "none"
    /\ ~recovery
    /\ kind = "portable" => ~RecoveryPending

StartOld ==
    /\ pc = "error"
    /\ Goto("end")
    /\ \/ MayStartOld /\ started' = (IF kind = "portable" THEN "plain" ELSE "cleaning")
       \/ UNCHANGED started
    /\ UNCHANGED <<kind, found, files, progress, recovery, work>>

\* cleanup_update_work_dir in the program that was started.
CleanWorkDirectory ==
    /\ started = "cleaning" /\ work
    /\ kind = "portable" => ~RecoveryPending
    /\ work' = FALSE
    /\ UNCHANGED <<kind, found, files, pc, progress, recovery, started>>

\* The helper is killed, or the machine stops.
Crash ==
    /\ pc \notin {"end", "dead"}
    /\ Goto("dead")
    /\ UNCHANGED <<kind, found, files, progress, recovery, started, work>>

-----------------------------------------------------------------------------
\* The helper runs for an installation with an executable and a marker; files a
\* newer version brings may be missing.
Init ==
    /\ kind \in {"portable", "installed", "bundle"}
    /\ found \in {t \in [Names -> {"none", "old"}] :
                     t[Executable] = "old" /\ t[Payload] = "old"}
    /\ target = found
    /\ backup = Empty /\ saved = FALSE /\ aside = Empty
    /\ pc = "begin" /\ at = 1 /\ moved = {} /\ put = {}
    /\ failed = FALSE /\ recovery = FALSE /\ started = "no" /\ work = TRUE

Portable ==
    \/ Refuse \/ BeginPortable \/ MoveToBackup \/ AllMoved \/ MoveNew \/ Installed
    \/ Discard \/ Fail \/ RemoveNew \/ AllRemoved \/ RestoreOld \/ RolledBack

Next ==
    \/ Portable
    \/ CopyInstalled \/ RunInstaller \/ RollbackInstalled
    \/ MoveBundleAway \/ PlaceBundle \/ MoveBundleBack
    \/ StartNew \/ StartOld \/ CleanWorkDirectory
    \/ Crash

Spec == Init /\ [][Next]_vars

-----------------------------------------------------------------------------
(* Properties.                                                             *)

TypeOK ==
    /\ kind \in {"portable", "installed", "bundle"}
    /\ found \in [Names -> {"none", "old"}]
    /\ target \in [Names -> Versions] /\ backup \in [Names -> Versions]
    /\ aside \in [Names -> Versions]
    /\ saved \in BOOLEAN /\ failed \in BOOLEAN /\ recovery \in BOOLEAN
    /\ started \in {"no", "plain", "cleaning"}
    /\ work \in BOOLEAN
    /\ pc \in {"begin", "backup", "install", "discard", "remove", "restore", "run", "swap",
              "place", "back", "start", "error", "end", "dead"}
    /\ at \in 1 .. Payload + 2
    /\ moved \subseteq Names /\ put \subseteq Files

\* No file of the old version is lost before the new version is whole, whichever
\* move, removal or rollback step failed and wherever the helper died: it is in
\* the installation or in the backup (commit_portable_files_with, the installed
\* helper, the script of launch_installer).
OldFilesKept ==
    \/ target = NewVersion
    \/ \A f \in Names : found[f] \in {"none", target[f], backup[f]}

\* The helper starts a whole version: the old one as it was, or the new one.  Only
\* the installed helper may start what a failed installer and a failed rollback
\* left, and then the copy of the old directory is still there
\* (run_update_helper_if_requested).
StartsWhole ==
    started # "no" =>
        \/ target \in {found, NewVersion}
        \/ kind = "installed" /\ backup = found
=============================================================================
