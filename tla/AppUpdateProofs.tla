--------------------------- MODULE AppUpdateProofs ---------------------------
(***************************************************************************)
(* Theorems about AppUpdate, for a program of any number of files.         *)
(***************************************************************************)
EXTENDS AppUpdate, WellFoundedInduction, TLAPS

\* What the backup of a file is worth: it is in the transaction's list, or there
\* was none.
Secured(f) == f \in moved \/ found[f] = "none"

Transaction == {"backup", "install", "remove", "restore"}

\* The portable transaction.  What it moved is in the backup, a new file is put
\* only in the place of one that was, and as long as the rollback has not failed
\* every file it does not list is as it was found.
Listed ==
    pc \in Transaction =>
        /\ kind = "portable"
        /\ \A f \in moved : backup[f] = found[f]
        /\ \A f \in put : Secured(f)
        /\ \A f \in Names : found[f] \in {"none", target[f], backup[f]}
        /\ ~failed => \A f \in Names \ (moved \cup put) : target[f] = found[f]

\* How far the two loops have come.
Forward ==
    /\ pc = "backup" => /\ put = {} /\ ~failed
                        /\ \A f \in Names : f < at => Secured(f) /\ target[f] = "none"
                        /\ \A f \in Names : f >= at => f \notin moved
    /\ pc = "install" => /\ ~failed
                         /\ \A f \in Names : Secured(f)
                         /\ \A f \in Names :
                               target[f] = IF f \in Files /\ f < at THEN "new" ELSE "none"
                         /\ put = {f \in Files : f < at}

\* What the other steps rely on.
Stages ==
    /\ pc = "begin" => /\ target = found /\ moved = {} /\ put = {}
                       /\ ~failed /\ ~recovery
    /\ pc = "restore" => put = {}
    /\ pc \in {"discard", "start"} => target = NewVersion
    /\ pc = "run" => target = found
    /\ pc \in {"run", "swap"} => kind = "installed" /\ backup = found
    /\ pc \in {"place", "back"} => backup = found

\* What may be started after an error, and that nothing was started earlier.
Whole == target \in {found, NewVersion} \/ (kind = "installed" /\ backup = found)
Outcome ==
    /\ pc = "error" /\ ~recovery => Whole
    /\ started # "no" => pc = "end" /\ Whole

UpdateInv == TypeOK /\ OldFilesKept /\ Listed /\ Forward /\ Stages /\ Outcome

-----------------------------------------------------------------------------
\* The last file of a list is one of the list: Max picks a member of any set of
\* files that is not empty.
LEMMA MaxIsMember ==
    ASSUME NEW S \in SUBSET Names, S # {}
    PROVE  Max(S) \in S
  <1> DEFINE last == Payload + 1
             T == {n \in Nat : \E f \in S : n = last - f}
  <1>1. S \subseteq 1 .. last /\ last \in Nat
    BY PayloadAssumption DEF Names
  <1>2. T \subseteq Nat /\ T # {}
    <2>1. PICK f \in S : TRUE
      OBVIOUS
    <2>2. last - f \in T
      BY <1>1, <2>1
    <2> QED BY <2>2
  <1>3. PICK n \in T : \A m \in T : <<m, n>> \notin OpToRel(<, Nat)
    BY <1>2, NatLessThanWellFounded, WFMin
  <1>4. \A m \in T : ~(m < n)
    BY <1>2, <1>3 DEF OpToRel
  <1>5. PICK f \in S : n = last - f
    BY <1>3
  <1>6. \A g \in S : f >= g
    BY <1>1, <1>4, <1>5
  <1> QED BY <1>5, <1>6 DEF Max

-----------------------------------------------------------------------------
\* The initial installation satisfies the invariant.
LEMMA UpdateInit == Init => UpdateInv
  <1> SUFFICES ASSUME Init PROVE UpdateInv
    OBVIOUS
  <1>1. TypeOK
    <2>1. found \in [Names -> {"none", "old"}] /\ target \in [Names -> Versions]
      BY DEF Init, Versions
    <2>2. Empty \in [Names -> Versions] /\ 1 \in 1 .. Payload + 2
      BY PayloadAssumption DEF Empty, Versions
    <2> QED BY <2>1, <2>2 DEF Init, TypeOK
  <1>2. OldFilesKept
    BY DEF Init, OldFilesKept
  <1>3. Listed /\ Forward /\ Stages /\ Outcome
    BY DEF Init, Listed, Transaction, Forward, Stages, Outcome
  <1> QED BY <1>1, <1>2, <1>3 DEF UpdateInv

\* The forward steps of the portable transaction.
LEMMA ForwardKeeps ==
    ASSUME UpdateInv,
           Refuse \/ BeginPortable \/ Fail \/ MoveToBackup \/ AllMoved \/ MoveNew \/ Installed
    PROVE  UpdateInv'
  <1> USE PayloadAssumption DEF UpdateInv, TypeOK, OldFilesKept, Listed, Secured, Transaction,
          Forward, Stages, Outcome, Whole, Goto, files, progress
  <1>1. CASE Refuse
    BY <1>1 DEF Refuse
  <1>2. CASE BeginPortable
    BY <1>2 DEF BeginPortable, Names, Files
  <1>3. CASE Fail
    BY <1>3 DEF Fail
  <1>4. CASE MoveToBackup
    <2>1. at \in Names /\ at' = at + 1 /\ pc' = "backup" /\ at \notin moved /\ put' = {}
          /\ target[at] = found[at]
      BY <1>4 DEF MoveToBackup, Names
    <2>2. \A f \in Names : /\ f # at => /\ target'[f] = target[f] /\ backup'[f] = backup[f]
                                       /\ f \in moved' <=> f \in moved
                          /\ target'[at] = "none"
                          /\ found[at] # "none" => at \in moved' /\ backup'[at] = found[at]
      BY <1>4, <2>1 DEF MoveToBackup
    <2>3. TypeOK'
      <3>1. target' \in [Names -> Versions] /\ backup' \in [Names -> Versions]
        BY <1>4, <2>1 DEF MoveToBackup, Versions
      <3>2. at' \in 1 .. Payload + 2
        BY <2>1 DEF Names
      <3>3. moved' \subseteq Names
        BY <1>4, <2>1, ZenonT(40) DEF MoveToBackup
      <3> QED BY <1>4, <2>1, <3>1, <3>2, <3>3 DEF MoveToBackup
    <2>4. \A f \in Names : /\ f < at' => f < at \/ f = at
                          /\ f >= at' => f >= at /\ f # at
      BY <2>1 DEF Names
    <2>5. Listed' /\ Forward'
      BY <1>4, <2>1, <2>2, <2>3, <2>4 DEF MoveToBackup
    <2>6. OldFilesKept'
      BY <2>1, <2>5
    <2> QED BY <1>4, <2>1, <2>3, <2>5, <2>6 DEF MoveToBackup
  <1>5. CASE AllMoved
    <2>1. at = Payload + 2 /\ at' = 1 /\ pc' = "install"
      BY <1>5 DEF AllMoved, Names
    <2>2. \A f \in Names : f < at /\ f >= at'
      BY <2>1 DEF Names
    <2>3. put' = {f \in Files : f < at'}
      <3>1. put' = {}
        BY <1>5 DEF AllMoved
      <3>2. \A f \in Files : ~(f < at')
        BY <2>1 DEF Files
      <3> QED BY <3>1, <3>2
    <2>4. Forward'
      BY <1>5, <2>1, <2>2, <2>3 DEF AllMoved, Files, Names
    <2>5. TypeOK'
      BY <1>5, <2>1 DEF AllMoved
    <2> QED BY <1>5, <2>4, <2>5 DEF AllMoved
  <1>6. CASE MoveNew
    BY <1>6 DEF MoveNew, Names, Files, Versions
  <1>7. CASE Installed
    BY <1>7 DEF Installed, AllPlaced, NewVersion, Names, Files
  <1> QED BY <1>1, <1>2, <1>3, <1>4, <1>5, <1>6, <1>7

\* The rollback of the portable transaction.
LEMMA RollbackKeeps ==
    ASSUME UpdateInv, RemoveNew \/ AllRemoved \/ RestoreOld \/ RolledBack
    PROVE  UpdateInv'
  <1> USE PayloadAssumption DEF UpdateInv, TypeOK, OldFilesKept, Listed, Secured, Transaction,
          Forward, Stages, Outcome, Whole, Goto, files, progress
  <1>1. CASE RemoveNew
    <2> DEFINE m == Max(put)
    <2>1. m \in put /\ m \in Names
      <3>1. put \in SUBSET Names /\ put # {}
        BY <1>1 DEF RemoveNew, Names, Files
      <3> QED BY <3>1, MaxIsMember
    <2>2. \A f \in Names : /\ f # m => target'[f] = target[f]
                          /\ ~failed' => target'[m] = "none"
      BY <1>1, <2>1 DEF RemoveNew
    <2>3. TypeOK'
      BY <1>1, <2>1, ZenonT(40) DEF RemoveNew, Versions
    <2>4. target' = target \/ target' = [target EXCEPT ![m] = "none"]
      BY <1>1 DEF RemoveNew
    <2>5. pc = "remove" /\ pc' = "remove" /\ put' = put \ {m} /\ (~failed' => ~failed)
          /\ UNCHANGED <<kind, found, backup, moved, recovery, started>>
      BY <1>1 DEF RemoveNew
    <2> HIDE DEF m
    <2>6. Listed'
      <3>1. \A f \in put' : Secured(f)'
        BY <2>5
      <3>2. \A f \in Names : found'[f] \in {"none", target'[f], backup'[f]}
        BY <2>1, <2>4, <2>5
      <3>3. ~failed' => \A f \in Names \ (moved' \cup put') : target'[f] = found'[f]
        <4>1. SUFFICES ASSUME ~failed', NEW f \in Names \ (moved' \cup put')
                       PROVE  target'[f] = found'[f]
          OBVIOUS
        <4>2. CASE f = m
          BY <2>1, <2>2, <2>5, <4>1, <4>2
        <4>3. CASE f # m
          <5>1. f \in Names \ (moved \cup put) /\ ~failed
            BY <2>5, <4>1, <4>3
          <5>2. target[f] = found[f]
            BY <2>5, <5>1
          <5>3. target'[f] = target[f]
            BY <2>1, <2>4, <4>3
          <5> QED BY <2>5, <5>2, <5>3
        <4> QED BY <4>2, <4>3
      <3> QED BY <2>5, <3>1, <3>2, <3>3
    <2>7. OldFilesKept'
      BY <2>5, <2>6
    <2> QED BY <2>3, <2>5, <2>6, <2>7
  <1>2. CASE AllRemoved
    BY <1>2 DEF AllRemoved
  <1>3. CASE RestoreOld
    <2> DEFINE m == Max(moved)
    <2>1. m \in moved /\ m \in Names
      BY <1>3, MaxIsMember DEF RestoreOld
    <2>2. pc = "restore" /\ pc' = "restore" /\ moved' = moved \ {m} /\ (~failed' => ~failed)
          /\ UNCHANGED <<kind, found, put, recovery, started>>
      BY <1>3 DEF RestoreOld
    <2>3. \/ failed' /\ UNCHANGED <<target, backup>>
          \/ /\ target' = [target EXCEPT ![m] = found[m]]
             /\ backup' = [backup EXCEPT ![m] = "none"]
      BY <1>3, <2>1 DEF RestoreOld
    <2>4. TypeOK'
      <3>1. target' \in [Names -> Versions] /\ backup' \in [Names -> Versions]
        BY <2>1, <2>3 DEF Versions
      <3> QED BY <1>3, <2>2, <3>1 DEF RestoreOld
    <2> HIDE DEF m
    <2>5. Listed'
      BY <2>1, <2>2, <2>3, <2>4
    <2>6. OldFilesKept'
      BY <2>2, <2>5
    <2> QED BY <2>2, <2>4, <2>5, <2>6
  <1>4. CASE RolledBack
    <2>1. ~failed => target = found
      BY <1>4 DEF RolledBack
    <2> QED BY <1>4, <2>1, ZenonT(40) DEF RolledBack, RollbackFailed, Empty, Versions
  <1> QED BY <1>1, <1>2, <1>3, <1>4

\* The installed helper, the script of a bundle, and the end of a portable commit.
LEMMA WholesaleKeeps ==
    ASSUME UpdateInv,
           \/ Discard \/ CopyInstalled \/ RunInstaller \/ RollbackInstalled
           \/ MoveBundleAway \/ PlaceBundle \/ MoveBundleBack
    PROVE  UpdateInv'
  <1> USE DEF UpdateInv, TypeOK, OldFilesKept, Listed, Transaction, Forward, Stages, Outcome,
          Whole, Goto, progress
  <1>1. CASE Discard
    <2>1. backup' \in [Names -> Versions] /\ saved' \in BOOLEAN
      BY <1>1, ZenonT(40) DEF Discard, Versions
    <2> QED BY <1>1, <2>1 DEF Discard
  <1>2. CASE CopyInstalled
    <2>1. backup' \in [Names -> Versions]
      BY <1>2 DEF CopyInstalled, Versions
    <2>2. pc' = "run" => backup' = found
      BY <1>2 DEF CopyInstalled
    <2> QED BY <1>2, <2>1, <2>2 DEF CopyInstalled
  <1>3. CASE RunInstaller
    <2>1. NewVersion \in [Names -> Versions]
      BY DEF NewVersion, Versions
    <2> QED BY <1>3, <2>1 DEF RunInstaller
  <1>4. CASE RollbackInstalled
    <2>1. Empty \in [Names -> Versions]
      BY DEF Empty, Versions
    <2> QED BY <1>4, <2>1 DEF RollbackInstalled
  <1>5. CASE MoveBundleAway
    <2>1. Empty \in [Names -> Versions]
      BY DEF Empty, Versions
    <2> QED BY <1>5, <2>1 DEF MoveBundleAway
  <1>6. CASE PlaceBundle
    <2>1. NewVersion \in [Names -> Versions]
      BY DEF NewVersion, Versions
    <2> QED BY <1>6, <2>1 DEF PlaceBundle
  <1>7. CASE MoveBundleBack
    <2>1. Empty \in [Names -> Versions]
      BY DEF Empty, Versions
    <2> QED BY <1>7, <2>1 DEF MoveBundleBack
  <1> QED BY <1>1, <1>2, <1>3, <1>4, <1>5, <1>6, <1>7

\* What is started, and the end of the helper.
LEMMA StartKeeps ==
    ASSUME UpdateInv,
           StartNew \/ StartOld \/ CleanWorkDirectory \/ Crash \/ UNCHANGED vars
    PROVE  UpdateInv'
  <1> USE DEF UpdateInv, TypeOK, OldFilesKept, Listed, Secured, Transaction, Forward, Stages,
          Outcome, Whole, Goto, files, progress
  <1>1. CASE StartNew
    BY <1>1 DEF StartNew
  <1>2. CASE StartOld
    BY <1>2 DEF StartOld, MayStartOld
  <1>3. CASE CleanWorkDirectory
    BY <1>3 DEF CleanWorkDirectory
  <1>4. CASE Crash
    BY <1>4 DEF Crash
  <1>5. CASE UNCHANGED vars
    BY <1>5 DEF vars
  <1> QED BY <1>1, <1>2, <1>3, <1>4, <1>5

\* Every step of the helper keeps the invariant, a failure or a death in any of them.
LEMMA UpdateStep == UpdateInv /\ [Next]_vars => UpdateInv'
  BY ForwardKeeps, RollbackKeeps, WholesaleKeeps, StartKeeps DEF Next, Portable

\* A program of any number of files: no file of the old version is lost before the
\* new version is whole, wherever the helper failed or died, the rollback included.
THEOREM OldVersionKept == Spec => []OldFilesKept
  <1>1. UpdateInv => OldFilesKept
    BY DEF UpdateInv
  <1> QED BY <1>1, UpdateInit, UpdateStep, PTL DEF Spec

\* What the helper starts is the old version as it was or the whole new one, or
\* the copy of the old one is kept (run_update_helper_if_requested).
THEOREM StartedVersionWhole == Spec => []StartsWhole
  <1>1. UpdateInv => StartsWhole
    BY DEF UpdateInv, Outcome, Whole, StartsWhole
  <1> QED BY <1>1, UpdateInit, UpdateStep, PTL DEF Spec

\* The state of the helper has its types in every step.
THEOREM UpdateTypeCorrect == Spec => []TypeOK
  <1>1. UpdateInv => TypeOK
    BY DEF UpdateInv
  <1> QED BY <1>1, UpdateInit, UpdateStep, PTL DEF Spec
=============================================================================
