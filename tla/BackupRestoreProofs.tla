------------------------ MODULE BackupRestoreProofs ------------------------
(***************************************************************************)
(* Backup, restore and upgrade for any number of repositories, pushes,     *)
(* backups and faults: the database from before an upgrade is kept, backup *)
(* and restore implement AtomicCopy, a backup that succeeded can be        *)
(* restored, and the database is the last file that a restore writes.      *)
(***************************************************************************)
EXTENDS BackupRestore, FiniteSetTheorems, FunctionTheorems, TLAPS

-----------------------------------------------------------------------------
(***************************************************************************)
(* Upgrades                                                                *)
(***************************************************************************)

\* What is served has the version of the executable; only the new one migrates.
OwnVersion ==
  /\ server = "serving" => db.version = binary
  /\ server = "migrating" => binary = SchemaVersion /\ db.version < SchemaVersion

\* A repository is created and pushed to by a server that serves.
GateServed == gate[1] \in {"push", "create"} => server = "serving"

\* The old executable saves nothing.
SavedByNew == saved[OldVersion] # Nothing => binary = SchemaVersion

\* The shape of the record of the backup, and what is on its way.
Phased ==
  /\ backup = [phase |-> backup.phase, copy |-> backup.copy, files |-> backup.files, digest |-> backup.digest]
  /\ restore = [phase |-> restore.phase, file |-> restore.file, next |-> restore.next, digest |-> restore.digest]

\* Directories: a row has one, and so has a repository that is being created; what
\* the refs of one reach is there.
TreeHeld ==
  /\ \A r \in db.rows : tree[r] \in Trees
  /\ \A r \in Repos : tree[r] \in Trees => tree[r].refs <= tree[r].objects
  /\ \A r \in Repos : gate = <<"push", r>> => r \in db.rows
  /\ \A r \in Repos : gate = <<"create", r>> => tree[r] \in Trees /\ r \notin db.rows

BaseInv == TypeOK /\ Phased /\ TreeHeld /\ OwnVersion
UpgradeInv == BaseInv /\ GateServed /\ SavedByNew /\ UpgradeKeepsOld
UpgradePart == OwnVersion /\ GateServed /\ SavedByNew /\ UpgradeKeepsOld

\* The database row after each of the updates that steps make to it.
LEMMA DatabaseUpdate ==
  ASSUME db \in Databases
  PROVE  /\ \A v \in OldVersion..SchemaVersion :
              /\ [db EXCEPT !.version = v] \in Databases
              /\ [db EXCEPT !.version = v].version = v /\ [db EXCEPT !.version = v].rows = db.rows
         /\ \A r \in Repos :
              /\ [db EXCEPT !.rows = db.rows \cup {r}] \in Databases
              /\ [db EXCEPT !.rows = db.rows \cup {r}].version = db.version
              /\ [db EXCEPT !.rows = db.rows \cup {r}].rows = db.rows \cup {r}
         /\ db.notes < MaxNotes =>
              /\ [db EXCEPT !.notes = db.notes + 1] \in Databases
              /\ [db EXCEPT !.notes = db.notes + 1].version = db.version
              /\ [db EXCEPT !.notes = db.notes + 1].rows = db.rows
  BY BoundAssumption DEF Databases

\* Each transaction of migrate_with_hook raises the version and ends at the newest.
LEMMA VersionUpdate ==
  ASSUME NEW v \in OldVersion..SchemaVersion, v < SchemaVersion
  PROVE  NextVersion(v) \in OldVersion..SchemaVersion /\ NextVersion(v) > v
  BY DEF NextVersion, OldVersion, SchemaVersion

\* A fault is counted.
LEMMA FaultUpdate ==
  ASSUME TypeOK, Fault
  PROVE  faults' \in 0..MaxFaults /\ 0..faults \subseteq 0..faults' /\ \A c \in 0..faults : c + 1 \in 0..faults'
<1>1. MaxFaults \in Nat /\ faults \in 0..MaxFaults /\ faults < MaxFaults /\ faults' = faults + 1
  BY BoundAssumption DEF TypeOK, Fault
<1>2. faults' \in 0..MaxFaults
  BY <1>1
<1>3. \A c \in 0..faults : c \in 0..faults' /\ c + 1 \in 0..faults'
  BY <1>1
<1> QED
  BY <1>2, <1>3

\* The directory of a repository after each of the updates that steps make to it.
LEMMA TreeUpdate ==
  ASSUME tree \in [Repos -> Trees \cup {Nothing}], NEW r \in Repos, NEW row \in Trees \cup {Nothing},
         tree' = [tree EXCEPT ![r] = row]
  PROVE  /\ tree' \in [Repos -> Trees \cup {Nothing}]
         /\ tree'[r] = row /\ \A s \in Repos \ {r} : tree'[s] = tree[s]
  OBVIOUS

LEMMA TreeRow ==
  ASSUME NEW row \in Trees
  PROVE  /\ [row EXCEPT !.objects = row.objects + 1] \in Trees
         /\ [row EXCEPT !.objects = row.objects + 1].objects = row.objects + 1
         /\ [row EXCEPT !.objects = row.objects + 1].refs = row.refs
         /\ [row EXCEPT !.refs = row.objects] \in Trees
         /\ [row EXCEPT !.refs = row.objects].objects = row.objects
         /\ [row EXCEPT !.refs = row.objects].refs = row.objects
         /\ row.objects \in Nat /\ row.refs \in Nat
  BY DEF Trees

\* The gate says one thing at a time.
LEMMA GateSays ==
  /\ <<"free">>[1] = "free" /\ <<"backup">>[1] = "backup"
  /\ \A r : /\ <<"push", r>>[1] = "push" /\ <<"create", r>>[1] = "create"
            /\ <<"push", r>> # <<"free">> /\ <<"create", r>> # <<"free">>
            /\ <<"push", r>> # <<"backup">> /\ <<"create", r>> # <<"backup">>
  /\ \A r, s : /\ <<"push", r>> # <<"create", s>>
               /\ <<"push", r>> = <<"push", s>> => r = s
               /\ <<"create", r>> = <<"create", s>> => r = s
  /\ <<"free">> # <<"backup">>
  OBVIOUS

\* What the server does keeps the types and the directories.
LEMMA ServingBase ==
  ASSUME BaseInv, Serving
  PROVE  TypeOK' /\ Phased' /\ TreeHeld'
<1>0. TypeOK /\ Phased /\ TreeHeld /\ OwnVersion /\ NothingAssumption /\ Trees = [objects : Nat, refs : Nat] /\ db.rows \in SUBSET Repos
  BY NothingAssumption DEF BaseInv, TypeOK, Trees, Databases
<1>1. CASE Start \/ Stop \/ Upgrade
  BY <1>0, <1>1 DEF Start, Stop, Upgrade, TreeHeld, TypeOK, Phased
<1>2. CASE Migrate
  <2>1. NextVersion(db.version) \in OldVersion..SchemaVersion
    BY <1>0, <1>2, VersionUpdate DEF Migrate, OwnVersion, Databases, TypeOK
  <2>2. db' \in Databases /\ server' \in {"serving", "migrating"} /\ db'.rows = db.rows
    BY <1>0, <1>2, <2>1, DatabaseUpdate DEF Migrate, TypeOK
  <2> QED
    BY <1>0, <1>2, <2>2 DEF Migrate, TreeHeld, TypeOK, Phased
<1>4. CASE Kill
  <2>1. TypeOK' /\ Phased'
    BY <1>0, <1>4, FaultUpdate DEF Kill, NoBackup, TypeOK, Phased
  <2>2. TreeHeld'
    BY <1>0, <1>4, GateSays DEF Kill, TreeHeld
  <2> QED
    BY <2>1, <2>2
<1>5. ASSUME NEW r \in Repos, CreateDirectory(r) PROVE TypeOK' /\ Phased' /\ TreeHeld'
  <2>1. PICK row \in Trees : row = [objects |-> 0, refs |-> 0]
    BY <1>0
  <2>2. tree' = [tree EXCEPT ![r] = row]
    BY <1>5, <2>1 DEF CreateDirectory
  <2>3. /\ tree' \in [Repos -> Trees \cup {Nothing}]
        /\ tree'[r] = row /\ \A s \in Repos \ {r} : tree'[s] = tree[s]
    BY <1>0, <2>2, TreeUpdate DEF TypeOK
  <2>4. r \notin db.rows
    BY <1>0, <1>5 DEF CreateDirectory, TreeHeld
  <2>5. TypeOK' /\ Phased'
    BY <1>0, <1>5, <2>3 DEF CreateDirectory, TypeOK, Phased
  <2>6. TreeHeld'
    <3>1. gate' = <<"create", r>> /\ UNCHANGED db /\ row.refs <= row.objects
      BY <1>5, <2>1 DEF CreateDirectory
    <3> QED
      BY <1>0, <2>3, <2>4, <3>1, GateSays DEF TreeHeld
  <2> QED
    BY <2>5, <2>6
<1>6. ASSUME NEW r \in Repos, CreateRow(r) PROVE TypeOK' /\ Phased' /\ TreeHeld'
  <2>1. db' \in Databases /\ db'.rows = db.rows \cup {r}
    BY <1>0, <1>6, DatabaseUpdate DEF CreateRow, TypeOK
  <2>2. TypeOK' /\ Phased'
    BY <1>0, <1>6, <2>1 DEF CreateRow, TypeOK, Phased
  <2>3. TreeHeld'
    BY <1>0, <1>6, <2>1, GateSays DEF CreateRow, TreeHeld
  <2> QED
    BY <2>2, <2>3
<1>7. ASSUME NEW r \in Repos, CreateRefused(r) PROVE TypeOK' /\ Phased' /\ TreeHeld'
  <2>1. /\ tree' \in [Repos -> Trees \cup {Nothing}]
        /\ tree'[r] = Nothing /\ \A s \in Repos \ {r} : tree'[s] = tree[s]
    BY <1>0, <1>7, TreeUpdate DEF CreateRefused, TypeOK
  <2>2. TypeOK' /\ Phased'
    BY <1>0, <1>7, <2>1 DEF CreateRefused, TypeOK, Phased
  <2>3. TreeHeld'
    BY <1>0, <1>7, <2>1, GateSays DEF CreateRefused, TreeHeld
  <2> QED
    BY <2>2, <2>3
<1>8. ASSUME NEW r \in Repos, PushObjects(r) \/ PushRefs(r) PROVE TypeOK' /\ Phased' /\ TreeHeld'
  <2>1. r \in db.rows /\ tree[r] \in Trees /\ tree[r].refs <= tree[r].objects
    BY <1>0, <1>8 DEF PushObjects, PushRefs, TreeHeld
  <2>2. PICK old \in Trees : old = tree[r]
    BY <2>1
  <2>a. old.refs \in Nat /\ old.objects \in Nat /\ old.refs <= old.objects + 1 /\ old.objects <= old.objects
    <3>1. old.refs \in Nat /\ old.objects \in Nat
      BY DEF Trees
    <3> QED
      BY <2>1, <2>2, <3>1
  <2>3. PICK row \in Trees : /\ tree' = [tree EXCEPT ![r] = row]
                             /\ row.refs <= row.objects
    <3>1. CASE PushObjects(r)
      <4>1. tree' = [tree EXCEPT ![r] = [old EXCEPT !.objects = old.objects + 1]]
        BY <2>2, <3>1 DEF PushObjects
      <4> QED
        BY <2>a, <4>1, TreeRow
    <3>2. CASE PushRefs(r)
      <4>1. tree' = [tree EXCEPT ![r] = [old EXCEPT !.refs = old.objects]]
        BY <2>2, <3>2 DEF PushRefs
      <4> QED
        BY <2>a, <4>1, TreeRow
    <3> QED
      BY <1>8, <3>1, <3>2
  <2>4. /\ tree' \in [Repos -> Trees \cup {Nothing}]
        /\ tree'[r] = row /\ \A s \in Repos \ {r} : tree'[s] = tree[s]
    BY <1>0, <2>3, TreeUpdate DEF TypeOK
  <2>5. gate' \in {<<"free">>, <<"push", r>>} /\ UNCHANGED <<db, binary, server, saved, config, backup, restore, faults>>
    BY <1>8 DEF PushObjects, PushRefs
  <2>6. TypeOK' /\ Phased'
    <3>1. gate' \in {<<"free">>, <<"backup">>} \cup ({"push", "create"} \X Repos)
      BY <2>5
    <3> QED
      BY <1>0, <2>4, <2>5, <3>1 DEF TypeOK, Phased
  <2>7. TreeHeld'
    BY <1>0, <2>1, <2>3, <2>4, <2>5, GateSays DEF TreeHeld
  <2> QED
    BY <2>6, <2>7
<1>9. CASE Note
  <2>1. db' \in Databases /\ db'.rows = db.rows
    BY <1>0, <1>9, DatabaseUpdate DEF Note, TypeOK
  <2> QED
    BY <1>0, <1>9, <2>1 DEF Note, TreeHeld, TypeOK, Phased
<1>10. CASE EditConfig
  BY ZenonT(40), <1>0, <1>10, FaultUpdate DEF EditConfig, TreeHeld, TypeOK, Phased
<1> QED
  BY <1>1, <1>2, <1>4, <1>5, <1>6, <1>7, <1>8, <1>9, <1>10 DEF Serving

\* Backups, the medium and restores leave the instance alone.
LEMMA OutsideBase ==
  ASSUME BaseInv, BackingUp \/ Medium \/ Restoring
  PROVE  UNCHANGED instance /\ TypeOK' /\ Phased' /\ TreeHeld'
<1>1. UNCHANGED instance
  BY DEF BackingUp, Medium, Restoring, BackupCopy, BackupCollect, BackupOutput, BackupAppend, BackupFinish,
         BackupFails, Damage, RemoveArchive, RestoreStart, RestoreOpen, RestoreCreate, RestoreWrite,
         RestoreExtracted, RestoreValidate, RestoreClean, RestoreKilled, NewTarget
<1>2. gate' \in {gate, <<"free">>, <<"backup">>}
  BY DEF BackingUp, Medium, Restoring, BackupCopy, BackupCollect, BackupOutput, BackupAppend, BackupFinish,
         BackupFails, BackupEnds, Damage, RemoveArchive, RestoreStart, RestoreOpen, RestoreCreate, RestoreWrite,
         RestoreExtracted, RestoreValidate, RestoreClean, RestoreKilled, NewTarget
<1>3. faults' = faults \/ Fault
  BY DEF BackingUp, Medium, Restoring, BackupCopy, BackupCollect, BackupOutput, BackupAppend, BackupFinish,
         BackupFails, Damage, RemoveArchive, RestoreStart, RestoreOpen, RestoreCreate, RestoreWrite,
         RestoreExtracted, RestoreValidate, RestoreClean, RestoreKilled, NewTarget
<1>4. /\ backup'.phase \in {"idle", "collect", "output", "append"}
      /\ backup' = [phase |-> backup'.phase, copy |-> backup'.copy, files |-> backup'.files, digest |-> backup'.digest]
  <2>1. CASE UNCHANGED backup
    BY <2>1 DEF BaseInv, TypeOK, Phased
  <2>2. CASE BackupCopy \/ BackupCollect \/ BackupAppend
    BY <2>2 DEF BackupCopy, BackupCollect, BackupAppend, NoBackup, BaseInv, Phased
  <2>3. CASE BackupOutput \/ BackupFinish \/ BackupFails
    BY <2>3 DEF BackupOutput, BackupFinish, BackupFails, BackupEnds, NoBackup, BaseInv, Phased
  <2> QED
    BY <2>1, <2>2, <2>3 DEF BackingUp, Medium, Restoring, Damage, RemoveArchive, RestoreStart, RestoreOpen,
         RestoreCreate, RestoreWrite, RestoreExtracted, RestoreValidate, RestoreClean, RestoreKilled, NewTarget
<1>5. /\ restore'.phase \in {"idle", "refused", "open", "extract", "write", "validate", "clean", "done", "failed",
                            "killed", "killed cleaning"}
      /\ restore' = [phase |-> restore'.phase, file |-> restore'.file, next |-> restore'.next,
                     digest |-> restore'.digest]
  <2>1. CASE UNCHANGED restore
    BY <2>1 DEF BaseInv, TypeOK, Phased
  <2>2. CASE RestoreStart \/ RestoreOpen \/ RestoreCreate
    BY <2>1, <2>2 DEF RestoreStart, RestoreOpen, RestoreCreate, NoRestore, BaseInv, Phased
  <2>3. CASE RestoreWrite \/ RestoreExtracted \/ RestoreValidate
    BY <2>3 DEF RestoreWrite, RestoreExtracted, RestoreValidate, NoRestore, BaseInv, Phased
  <2>4. CASE RestoreClean \/ NewTarget
    <3>1. UNCHANGED restore \/ restore' = [NoRestore EXCEPT !.phase = "failed"] \/ restore' = NoRestore
      BY <2>4 DEF RestoreClean, NewTarget
    <3>2. CASE restore' = [NoRestore EXCEPT !.phase = "failed"]
      BY <3>2 DEF NoRestore
    <3>3. CASE restore' = NoRestore
      BY <3>3 DEF NoRestore
    <3> QED
      BY <2>1, <3>1, <3>2, <3>3
  <2>5. CASE RestoreKilled
    <3>1. \E phase \in {"killed", "killed cleaning"} : restore' = [restore EXCEPT !.phase = phase]
      BY <2>5 DEF RestoreKilled
    <3> QED
      BY <3>1 DEF BaseInv, Phased
  <2> QED
    BY <2>1, <2>2, <2>3, <2>4, <2>5 DEF BackingUp, Medium, Restoring, Damage, RemoveArchive, BackupCopy, BackupCollect,
         BackupOutput, BackupAppend, BackupFinish, BackupFails
<1>6. faults' \in 0..MaxFaults /\ config' \in 0..faults'
  BY <1>1, <1>3, FaultUpdate DEF instance, BaseInv, TypeOK
<1>7. TypeOK' /\ Phased'
  BY <1>1, <1>2, <1>4, <1>5, <1>6 DEF BaseInv, TypeOK, Phased, instance
<1>8. TreeHeld'
  BY <1>1, <1>2, GateSays DEF BaseInv, TreeHeld, instance
<1> QED
  BY <1>1, <1>7, <1>8

\* Each step of the server, against the version and the copy that was put aside.
LEMMA ServingUpgrade ==
  ASSUME UpgradeInv, Serving, db' \in Databases
  PROVE  UpgradePart'
<1>0. /\ db.version \in OldVersion..SchemaVersion /\ OldVersion < SchemaVersion /\ OldVersion \in Nat
      /\ binary \in {OldVersion, SchemaVersion} /\ SchemaVersion \in Nat
      /\ saved \in [OldVersion..SchemaVersion -> Databases \cup {Nothing}]
      /\ db \in Databases
  <2>1. db \in Databases /\ saved \in [OldVersion..SchemaVersion -> Databases \cup {Nothing}]
        /\ binary \in {OldVersion, SchemaVersion}
    BY DEF UpgradeInv, BaseInv, TypeOK
  <2>2. db.version \in OldVersion..SchemaVersion
    BY <2>1 DEF Databases
  <2> QED
    BY <2>1, <2>2 DEF OldVersion, SchemaVersion
<1>1. CASE Start
  <2>1. CASE db.version = binary
    BY <1>1, <2>1 DEF Start, UpgradeInv, BaseInv, UpgradePart, OwnVersion, GateServed, SavedByNew, UpgradeKeepsOld
  <2>2. CASE db.version # binary
    <3>1. /\ binary = SchemaVersion /\ db.version < SchemaVersion /\ server' = "migrating"
          /\ saved' = [saved EXCEPT ![db.version] = db] /\ UNCHANGED <<binary, db, gate>>
          /\ server = "stopped"
      BY <1>0, <1>1, <2>2 DEF Start
    <3>2. saved'[OldVersion] = IF db.version = OldVersion THEN db ELSE saved[OldVersion]
      BY <1>0, <3>1
    <3> QED
      BY <1>0, <3>1, <3>2 DEF UpgradeInv, BaseInv, UpgradePart, OwnVersion, GateServed, SavedByNew, UpgradeKeepsOld
  <2> QED
    BY <2>1, <2>2
<1>2. CASE Migrate
  <2>1. PICK v \in OldVersion..SchemaVersion : v = NextVersion(db.version) /\ v > db.version
    BY <1>0, <1>2, VersionUpdate DEF Migrate, UpgradeInv, BaseInv, OwnVersion
  <2>2. db'.version = v /\ db'.rows = db.rows /\ UNCHANGED <<binary, saved, gate>>
    BY <1>0, <1>2, <2>1, DatabaseUpdate DEF Migrate
  <2>3. v > OldVersion /\ binary = SchemaVersion /\ server = "migrating"
    BY <1>0, <1>2, <2>1 DEF Migrate, UpgradeInv, BaseInv, OwnVersion
  <2>4. OwnVersion'
    BY <1>0, <1>2, <2>1, <2>2, <2>3 DEF Migrate, OwnVersion
  <2> QED
    BY <2>2, <2>3, <2>4 DEF UpgradeInv, BaseInv, UpgradePart, GateServed, SavedByNew, UpgradeKeepsOld
<1>3. CASE Stop \/ Upgrade \/ Kill
  <2>1. /\ server' = "stopped" /\ UNCHANGED <<db, saved>> /\ gate'[1] \notin {"push", "create"}
        /\ UNCHANGED binary \/ (binary = OldVersion /\ server = "stopped")
    BY <1>0, <1>3, GateSays DEF Stop, Upgrade, Kill, UpgradeInv, GateServed
  <2> QED
    BY <1>0, <1>3, <2>1 DEF Stop, Upgrade, Kill, UpgradeInv, BaseInv, UpgradePart, OwnVersion, GateServed, SavedByNew, UpgradeKeepsOld
<1>4. ASSUME NEW r \in Repos, CreateDirectory(r) \/ CreateRefused(r) \/ PushObjects(r) \/ PushRefs(r)
      PROVE  UpgradePart'
  <2>1. server = "serving" /\ UNCHANGED <<binary, server, db, saved>>
    BY <1>4, GateSays DEF CreateDirectory, CreateRefused, PushObjects, PushRefs, UpgradeInv, GateServed
  <2> QED
    BY <2>1 DEF UpgradeInv, BaseInv, UpgradePart, OwnVersion, GateServed, SavedByNew, UpgradeKeepsOld
<1>5. ASSUME db'.version = db.version, db.rows \subseteq db'.rows, server = "serving",
             UNCHANGED <<binary, server, saved>>
      PROVE  UpgradePart'
  BY <1>0, <1>5 DEF UpgradeInv, BaseInv, UpgradePart, OwnVersion, GateServed, SavedByNew, UpgradeKeepsOld
<1>6. ASSUME NEW r \in Repos, CreateRow(r) PROVE UpgradePart'
  <2>1. server = "serving" /\ UNCHANGED <<binary, server, saved>>
    BY <1>6, GateSays DEF CreateRow, UpgradeInv, GateServed
  <2>2. db'.version = db.version /\ db.rows \subseteq db'.rows
    BY <1>0, <1>6, DatabaseUpdate DEF CreateRow
  <2> QED
    BY <1>5, <2>1, <2>2
<1>7. CASE Note
  <2>1. server = "serving" /\ UNCHANGED <<binary, server, saved>>
    BY <1>7 DEF Note
  <2>2. db'.version = db.version /\ db.rows \subseteq db'.rows
    BY <1>0, <1>7, DatabaseUpdate DEF Note
  <2> QED
    BY <1>5, <2>1, <2>2
<1>8. CASE EditConfig
  BY <1>8 DEF EditConfig, UpgradeInv, BaseInv, UpgradePart, OwnVersion, GateServed, SavedByNew, UpgradeKeepsOld
<1> QED
  BY <1>1, <1>2, <1>3, <1>4, <1>6, <1>7, <1>8 DEF Serving

\* The types, the directories and the versions of every reachable state.
THEOREM UpgradeInvariant == Spec => []UpgradeInv
<1>1. Init => UpgradeInv
  <2> SUFFICES ASSUME Init PROVE UpgradeInv
    OBVIOUS
  <2>1. MaxNotes \in Nat /\ MaxFaults \in Nat /\ OldVersion \in OldVersion..SchemaVersion
        /\ SchemaVersion \in OldVersion..SchemaVersion
    BY BoundAssumption DEF OldVersion, SchemaVersion
  <2>2. db \in Databases /\ db.version = binary /\ db.rows = {}
    BY <2>1 DEF Init, Databases
  <2>3. TypeOK
    BY <2>1, <2>2 DEF Init, TypeOK, NoBackup, NoRestore
  <2>4. Phased
    BY DEF Init, Phased, NoBackup, NoRestore
  <2>5. TreeHeld
    BY <2>2, NothingAssumption, GateSays DEF Init, TreeHeld, Trees
  <2> QED
    BY <2>1, <2>2, <2>3, <2>4, <2>5, GateSays
       DEF Init, UpgradeInv, BaseInv, OwnVersion, GateServed, SavedByNew, UpgradeKeepsOld
<1>2. ASSUME UpgradeInv, [Next]_vars PROVE UpgradeInv'
  <2>0. BaseInv
    BY <1>2 DEF UpgradeInv
  <2>1. CASE Serving
    <3>1. TypeOK' /\ Phased' /\ TreeHeld'
      BY <2>0, <2>1, ServingBase
    <3>2. UpgradePart'
      BY <1>2, <2>1, <3>1, ServingUpgrade DEF TypeOK
    <3> QED
      BY <3>1, <3>2 DEF UpgradeInv, BaseInv, UpgradePart
  <2>2. CASE BackingUp \/ Medium \/ Restoring
    <3>1. UNCHANGED instance /\ TypeOK' /\ Phased' /\ TreeHeld'
      BY <2>0, <2>2, OutsideBase
    <3>2. gate' \in {gate, <<"free">>, <<"backup">>}
      BY <2>2 DEF BackingUp, Medium, Restoring, BackupCopy, BackupCollect, BackupOutput, BackupAppend,
         BackupFinish, BackupFails, BackupEnds, Damage, RemoveArchive, RestoreStart, RestoreOpen, RestoreCreate,
         RestoreWrite, RestoreExtracted, RestoreValidate, RestoreClean, RestoreKilled, NewTarget
    <3>3. UpgradePart'
      BY <1>2, <3>1, <3>2, GateSays
         DEF instance, UpgradeInv, BaseInv, UpgradePart, OwnVersion, GateServed, SavedByNew, UpgradeKeepsOld
    <3> QED
      BY <3>1, <3>3 DEF UpgradeInv, BaseInv, UpgradePart
  <2>3. CASE UNCHANGED vars
    <3>1. TypeOK' /\ Phased'
      BY <1>2, <2>3 DEF vars, instance, UpgradeInv, BaseInv, TypeOK, Phased
    <3>2. TreeHeld'
      BY <1>2, <2>3 DEF vars, instance, UpgradeInv, BaseInv, TreeHeld
    <3>3. UpgradePart'
      BY <1>2, <2>3 DEF vars, instance, UpgradeInv, BaseInv, UpgradePart, OwnVersion, GateServed, SavedByNew, UpgradeKeepsOld
    <3> QED
      BY <3>1, <3>2, <3>3 DEF UpgradeInv, BaseInv, UpgradePart
  <2> QED
    BY <1>2, <2>1, <2>2, <2>3 DEF Next
<1> QED
  BY <1>1, <1>2, PTL DEF Spec

\* Every variable of the model has its type.
THEOREM BackupTypeOK == Spec => []TypeOK
<1>1. UpgradeInv => TypeOK
  BY DEF UpgradeInv, BaseInv
<1> QED
  BY <1>1, UpgradeInvariant, PTL

\* However often an upgrade is interrupted between its transactions, killed and
\* started again: the copy that Store::open put aside under the old version is the
\* database from before, and nothing in it is lost.
THEOREM UpgradeTheorem == Spec => []UpgradeKeepsOld
<1>1. UpgradeInv => UpgradeKeepsOld
  BY DEF UpgradeInv
<1> QED
  BY <1>1, UpgradeInvariant, PTL

-----------------------------------------------------------------------------
(***************************************************************************)
(* Backup and restore implement AtomicCopy                                 *)
(***************************************************************************)

\* What a table of digests, or a directory, says of the instance.
PointOf(f) ==
  [rows |-> f[Database].rows, notes |-> f[Database].notes,
   trees |-> [r \in f[Database].rows |-> [objects |-> f[Objects(r)], refs |-> f[Refs(r)]]]]

\* Digests that are of one moment of the instance, of all its files.
Whole(f, moments) ==
  /\ \E ids \in SUBSET Repos : IsFiniteSet(ids) /\ DOMAIN f = Files(ids)
  /\ f[Database] \in Databases
  /\ \A r \in f[Database].rows : /\ Objects(r) \in DOMAIN f /\ Refs(r) \in DOMAIN f
                                 /\ Readable(f[Objects(r)], f[Refs(r)])
  /\ PointOf(f) \in moments

FinitePresent == IsFiniteSet(Present)

\* The whole of create_archive holds the gate, or the lock.
GateHeld == backup.phase # "idle" => gate = <<"backup">>

\* Until the files are hashed, the copy and the directories are of one moment.
CopyOf(d, trees) == [rows |-> d.rows, notes |-> d.notes, trees |-> [r \in d.rows |-> trees[r]]]
Copied ==
  backup.phase = "collect" =>
    /\ backup.copy \in Databases
    /\ \A r \in backup.copy.rows : tree[r] \in Trees
    /\ CopyOf(backup.copy, tree) \in points
Hashed == backup.phase \in {"output", "append"} => Whole(backup.digest, points)

\* The manifest of an archive, whatever became of its entries.
Stored(a, moments) ==
  /\ a = [digest |-> a.digest, entries |-> a.entries, success |-> a.success, edited |-> a.edited,
          damaged |-> a.damaged]
  /\ Whole(a.digest, moments)
Archived == (archive # Nothing => Stored(archive, points)) /\ (backup.phase = "append" => Stored(archive, points))
Manifest == restore.phase \in {"open", "extract", "write", "validate", "done"} => Whole(restore.digest, points)

\* extract_archive compares what it wrote with the manifest, file by file.
Checked ==
  /\ restore.phase = "open" => DOMAIN target = {} /\ restore.file = Nothing
  /\ restore.phase \in {"extract", "write", "validate", "done"} =>
       /\ DOMAIN target \subseteq DOMAIN restore.digest
       /\ \A p \in DOMAIN target : target[p] = restore.digest[p] \/ (restore.phase = "write" /\ p = Entry[1])
  /\ restore.phase \in {"validate", "done"} => DOMAIN target = DOMAIN restore.digest

CopyPart == FinitePresent /\ GateHeld /\ Copied /\ Hashed /\ Archived /\ Manifest /\ Checked
CopyInv == UpgradeInv /\ FinitePresent /\ GateHeld /\ Copied /\ Hashed /\ Archived /\ Manifest /\ Checked

\* The paths are different from each other.
LEMMA PathsDiffer ==
  /\ Config # Database
  /\ \A r : /\ Objects(r) # Config /\ Objects(r) # Database /\ Refs(r) # Config /\ Refs(r) # Database
            /\ Len(Objects(r)) = 3 /\ Objects(r)[2] = r /\ Objects(r)[3] = "objects"
            /\ Len(Refs(r)) = 3 /\ Refs(r)[2] = r /\ Refs(r)[3] = "refs"
  /\ Len(Config) = 1 /\ Len(Database) = 1
<1>1. Config # Database
  BY DEF Config, Database
<1>2. Len(Config) = 1 /\ Len(Database) = 1
  BY DEF Config, Database
<1>3. ASSUME NEW r
      PROVE  /\ Len(Objects(r)) = 3 /\ Objects(r)[2] = r /\ Objects(r)[3] = "objects"
             /\ Len(Refs(r)) = 3 /\ Refs(r)[2] = r /\ Refs(r)[3] = "refs"
  BY DEF Objects, Refs
<1>4. ASSUME NEW r
      PROVE  Objects(r) # Config /\ Objects(r) # Database /\ Refs(r) # Config /\ Refs(r) # Database
  BY <1>2, <1>3
<1> QED
  BY <1>1, <1>2, <1>3, <1>4

\* What is read from the source file of each path.
LEMMA ContentOf ==
  /\ Content(Config) = config
  /\ Content(Database) = backup.copy
  /\ \A r : Content(Objects(r)) = tree[r].objects /\ Content(Refs(r)) = tree[r].refs
<1>1. Content(Config) = config /\ Content(Database) = backup.copy
  BY PathsDiffer DEF Content
<1>2. \A r : Content(Objects(r)) = tree[r].objects
  BY PathsDiffer DEF Content
<1>3. \A r : Content(Refs(r)) = tree[r].refs
  BY PathsDiffer DEF Content
<1> QED
  BY <1>1, <1>2, <1>3

\* A manifest stays true of its moment.
LEMMA WholeStays ==
  ASSUME NEW f, NEW moments, NEW more, Whole(f, moments), moments \subseteq more
  PROVE  Whole(f, more)
  BY DEF Whole

LEMMA StoredStays ==
  ASSUME NEW a, NEW moments, NEW more, Stored(a, moments), moments \subseteq more
  PROVE  Stored(a, more)
  BY WholeStays DEF Stored

\* The directories of a copy stay as they are while the gate is held.
LEMMA CopyStays ==
  ASSUME Copied, UNCHANGED <<backup, points>>, backup.phase = "collect" => UNCHANGED tree
  PROVE  Copied'
  BY DEF Copied

\* The parts that the server does not touch.
LEMMA FilesStay ==
  ASSUME CopyInv, UNCHANGED <<archive, restore, target, points>>, backup' \in {backup, NoBackup}
  PROVE  Hashed' /\ Archived' /\ Manifest' /\ Checked'
<1>1. backup'.phase # "idle" => UNCHANGED backup
  BY DEF NoBackup
<1> QED
  BY <1>1 DEF CopyInv, Hashed, Archived, Manifest, Checked, Entry

\* What the server does.
LEMMA ServingCopy ==
  ASSUME CopyInv, Serving
  PROVE  CopyPart'
<1>0. UpgradeInv /\ tree \in [Repos -> Trees \cup {Nothing}]
  BY DEF CopyInv, UpgradeInv, BaseInv, TypeOK
<1>1. UNCHANGED <<archive, restore, target, points>> /\ backup' \in {backup, NoBackup}
  BY DEF Serving, Start, Migrate, Stop, Upgrade, Kill, CreateDirectory, CreateRow, CreateRefused, PushObjects,
         PushRefs, Note, EditConfig
<1>2. Hashed' /\ Archived' /\ Manifest' /\ Checked'
  BY <1>1, FilesStay
<1>3. FinitePresent'
  <2>1. UNCHANGED tree \/ \E r \in Repos : \E row : tree' = [tree EXCEPT ![r] = row]
    <3>1. ASSUME NEW r \in Repos, PushObjects(r) PROVE \E row : tree' = [tree EXCEPT ![r] = row]
      BY <3>1 DEF PushObjects
    <3>2. ASSUME NEW r \in Repos, PushRefs(r) PROVE \E row : tree' = [tree EXCEPT ![r] = row]
      BY <3>2 DEF PushRefs
    <3>3. ASSUME NEW r \in Repos, CreateDirectory(r) \/ CreateRefused(r)
          PROVE  \E row : tree' = [tree EXCEPT ![r] = row]
      BY <3>3 DEF CreateDirectory, CreateRefused
    <3>4. ASSUME NEW r \in Repos, CreateRow(r) PROVE UNCHANGED tree
      BY <3>4 DEF CreateRow
    <3>5. CASE Start \/ Migrate \/ Stop \/ Upgrade \/ Kill \/ Note \/ EditConfig
      BY <3>5 DEF Start, Migrate, Stop, Upgrade, Kill, Note, EditConfig
    <3> QED
      BY <3>1, <3>2, <3>3, <3>4, <3>5 DEF Serving
  <2>2. CASE UNCHANGED tree
    BY <2>2 DEF CopyInv, FinitePresent, Present
  <2>3. ASSUME NEW r \in Repos, NEW row, tree' = [tree EXCEPT ![r] = row] PROVE FinitePresent'
    <3>1. Present' \subseteq Present \cup {r}
      BY <1>0, <2>3 DEF Present
    <3>2. IsFiniteSet(Present \cup {r})
      BY FS_AddElement DEF CopyInv, FinitePresent
    <3> QED
      BY <3>1, <3>2, FS_Subset DEF FinitePresent
  <2> QED
    BY <2>1, <2>2, <2>3
<1>4. GateHeld' /\ Copied'
  <2>1. CASE backup' = NoBackup
    BY <2>1 DEF GateHeld, Copied, NoBackup
  <2>2. CASE UNCHANGED backup /\ backup.phase # "idle"
    <3>1. gate = <<"backup">>
      BY <2>2 DEF CopyInv, GateHeld
    <3>2. UNCHANGED <<gate, tree>>
      BY <2>2, <3>1, GateSays DEF Serving, Start, Migrate, Stop, Upgrade, Kill, CreateDirectory, CreateRow,
         CreateRefused, PushObjects, PushRefs, Note, EditConfig, NoBackup
    <3> QED
      BY <1>1, <2>2, <3>1, <3>2, CopyStays DEF CopyInv, GateHeld
  <2>3. CASE UNCHANGED backup /\ backup.phase = "idle"
    BY <2>3 DEF GateHeld, Copied
  <2> QED
    BY <1>1, <2>1, <2>2, <2>3
<1> QED
  BY <1>2, <1>3, <1>4 DEF CopyPart

\* The copy of the database is taken behind the gate: nothing is half pushed or half
\* created, so it is a copy of the instance.
LEMMA BackupCopied ==
  ASSUME CopyInv, BackupCopy
  PROVE  CopyPart'
<1>1. /\ backup'.phase = "collect" /\ backup'.copy = db /\ gate' = <<"backup">>
      /\ points' = points \cup {View} /\ UNCHANGED <<instance, archive, restore, target, faults>>
      /\ backup.phase = "idle"
  BY DEF BackupCopy, NoBackup
<1>2. db \in Databases /\ \A r \in db.rows : tree[r] \in Trees
  BY DEF CopyInv, UpgradeInv, BaseInv, TypeOK, TreeHeld
<1>3. View = CopyOf(db, tree)
  BY DEF View, CopyOf
<1>4. GateHeld' /\ Copied' /\ Hashed'
  BY <1>1, <1>2, <1>3 DEF GateHeld, Copied, Hashed, instance
<1>5. FinitePresent'
  BY <1>1 DEF CopyInv, FinitePresent, Present, instance
<1>6. Archived'
  BY <1>1, StoredStays DEF CopyInv, Archived
<1>7. Manifest'
  BY <1>1, WholeStays DEF CopyInv, Manifest
<1>8. Checked'
  BY <1>1 DEF CopyInv, Checked, Entry
<1> QED
  BY <1>4, <1>5, <1>6, <1>7, <1>8 DEF CopyPart

\* The digests are those of the moment of the copy, because the gate is still held.
LEMMA BackupHashed ==
  ASSUME CopyInv, BackupCollect
  PROVE  CopyPart'
<1> DEFINE files == Files(Present)
           f == [p \in files |-> Content(p)]
<1>1. /\ backup.phase = "collect" /\ backup'.phase = "output" /\ backup'.digest = f
      /\ UNCHANGED <<instance, gate, archive, restore, target, faults, points>>
  BY DEF BackupCollect, CopyInv, UpgradeInv, BaseInv, Phased
<1>2. PICK d \in Databases : /\ d = backup.copy /\ \A r \in d.rows : tree[r] \in Trees
                             /\ CopyOf(d, tree) \in points
  BY <1>1 DEF CopyInv, Copied
<1>3. d.rows \subseteq Repos /\ \A r \in d.rows : tree[r] # Nothing /\ tree[r].refs <= tree[r].objects
  BY <1>2, NothingAssumption DEF CopyInv, UpgradeInv, BaseInv, TreeHeld, Trees, Databases
<1>4. d.rows \subseteq Present
  BY <1>3 DEF Present
<1>5. /\ DOMAIN f = files /\ Database \in files
      /\ \A r \in Present : Objects(r) \in files /\ Refs(r) \in files
  BY DEF Files
<1>6. f[Database] = d
  BY <1>2, <1>5, ContentOf
<1>7. \A r \in d.rows : f[Objects(r)] = tree[r].objects /\ f[Refs(r)] = tree[r].refs
  BY <1>4, <1>5, ContentOf
<1>8. Present \in SUBSET Repos /\ IsFiniteSet(Present)
  BY DEF CopyInv, FinitePresent, Present
<1> HIDE DEF f, files
<1>9. PointOf(f) = CopyOf(d, tree)
  <2>1. \A r \in d.rows : [objects |-> f[Objects(r)], refs |-> f[Refs(r)]] = tree[r]
    BY <1>2, <1>7 DEF Trees
  <2> QED
    BY <1>6, <2>1 DEF PointOf, CopyOf
<1>10. Whole(f, points)
  <2>1. \E ids \in SUBSET Repos : IsFiniteSet(ids) /\ DOMAIN f = Files(ids)
    BY <1>5, <1>8 DEF files
  <2>2. \A r \in d.rows : /\ Objects(r) \in DOMAIN f /\ Refs(r) \in DOMAIN f
                          /\ Readable(f[Objects(r)], f[Refs(r)])
    BY <1>3, <1>4, <1>5, <1>7 DEF Readable
  <2> QED
    BY <1>2, <1>6, <1>9, <2>1, <2>2 DEF Whole
<1>11. Hashed' /\ GateHeld' /\ Copied' /\ Archived'
  BY <1>1, <1>10 DEF CopyInv, Hashed, GateHeld, Copied, Archived
<1>12. FinitePresent' /\ Manifest' /\ Checked'
  BY <1>1 DEF CopyInv, FinitePresent, Present, Manifest, Checked, Entry, instance
<1> QED
  BY <1>11, <1>12 DEF CopyPart

\* The archive is written with the manifest first, and may end as it is.
LEMMA BackupWritten ==
  ASSUME CopyInv, BackupOutput \/ BackupAppend \/ BackupFinish \/ BackupFails
  PROVE  CopyPart'
<1>0. Phased
  BY DEF CopyInv, UpgradeInv, BaseInv
<1>1. UNCHANGED <<instance, restore, target, points>>
  BY DEF BackupOutput, BackupAppend, BackupFinish, BackupFails
<1>2. FinitePresent' /\ Manifest' /\ Checked'
  BY <1>1 DEF CopyInv, FinitePresent, Present, Manifest, Checked, Entry, instance
<1>3. BackupOutput \/ BackupAppend => Whole(backup.digest, points) /\ backup.phase \in {"output", "append"}
  BY DEF CopyInv, Hashed, BackupOutput, BackupAppend
<1>4. \/ backup' = NoBackup
      \/ /\ backup'.phase = "append" /\ backup'.digest = backup.digest /\ UNCHANGED gate
         /\ BackupOutput \/ BackupAppend
  BY <1>0 DEF BackupOutput, BackupAppend, BackupFinish, BackupFails, BackupEnds, Phased
<1>5. GateHeld' /\ Copied' /\ Hashed'
  <2>1. CASE backup' = NoBackup
    BY <2>1 DEF NoBackup, GateHeld, Copied, Hashed
  <2> QED
    BY <1>1, <1>3, <1>4, <2>1 DEF CopyInv, GateHeld, Copied, Hashed
<1>6. Archived'
  <2>1. ASSUME Stored(archive', points) PROVE Archived'
    BY <1>1, <2>1 DEF Archived
  <2>2. CASE BackupOutput /\ archive = Nothing
    BY <1>3, <2>1, <2>2 DEF BackupOutput, Stored
  <2>3. CASE BackupOutput /\ archive # Nothing
    <3>1. UNCHANGED archive
      BY <2>3 DEF BackupOutput
    <3> QED
      BY <2>1, <2>3, <3>1 DEF CopyInv, Archived
  <2>4. CASE BackupAppend \/ BackupFinish
    <3>1. Stored(archive, points)
      BY <2>4 DEF BackupAppend, BackupFinish, CopyInv, Archived
    <3>2. Stored(archive', points)
      <4>1. CASE BackupAppend
        BY <3>1, <4>1 DEF BackupAppend, Stored
      <4>2. CASE BackupFinish
        BY <3>1, <4>2 DEF BackupFinish, Stored
      <4> QED
        BY <2>4, <4>1, <4>2
    <3> QED
      BY <2>1, <3>2
  <2>5. CASE BackupFails
    BY <1>1, <2>5 DEF CopyInv, BackupFails, BackupEnds, NoBackup, Archived
  <2> QED
    BY <2>2, <2>3, <2>4, <2>5
<1> QED
  BY <1>2, <1>5, <1>6 DEF CopyPart

\* Damage to the entries leaves the manifest.
LEMMA MediumCopy ==
  ASSUME CopyInv, Medium
  PROVE  CopyPart'
<1>1. UNCHANGED <<instance, gate, backup, restore, target, points>> /\ backup.phase # "append"
  BY DEF Medium, Damage, RemoveArchive
<1>2. FinitePresent' /\ GateHeld' /\ Copied' /\ Hashed' /\ Manifest' /\ Checked'
  BY <1>1 DEF CopyInv, FinitePresent, Present, GateHeld, Copied, Hashed, Manifest, Checked, Entry, instance
<1>3. archive' = Nothing \/ Stored(archive', points)
  <2>1. CASE RemoveArchive
    BY <2>1 DEF RemoveArchive
  <2>2. CASE Damage
    <3>1. PICK entries : archive' = [archive EXCEPT !.entries = entries, !.damaged = TRUE]
      BY <2>2 DEF Damage
    <3>2. Stored(archive, points)
      BY <2>2 DEF Damage, CopyInv, Archived
    <3> QED
      BY <3>1, <3>2 DEF Stored
  <2> QED
    BY <2>1, <2>2 DEF Medium
<1>4. Archived'
  BY <1>1, <1>3 DEF Archived
<1> QED
  BY <1>2, <1>4 DEF CopyPart

\* Every step of a restore: nothing stays in the directory that the manifest does not
\* vouch for, unless the restore fails.
LEMMA RestoringCopy ==
  ASSUME CopyInv, Restoring
  PROVE  CopyPart'
<1>0. Phased
  BY DEF CopyInv, UpgradeInv, BaseInv
<1>1. UNCHANGED <<instance, gate, backup, archive, points>>
  BY DEF Restoring, RestoreStart, RestoreOpen, RestoreCreate, RestoreWrite, RestoreExtracted, RestoreValidate,
         RestoreClean, RestoreKilled, NewTarget
<1>2. FinitePresent' /\ GateHeld' /\ Copied' /\ Hashed' /\ Archived'
  BY <1>1 DEF CopyInv, FinitePresent, Present, GateHeld, Copied, Hashed, Archived, instance
<1>3. CASE RestoreStart
  <2>1. \/ restore'.phase = "open" /\ restore'.digest = archive.digest /\ restore'.file = Nothing
        \/ restore'.phase = "refused"
    BY <1>3 DEF RestoreStart, NoRestore
  <2>3. DOMAIN target' = {}
    BY <1>3 DEF RestoreStart
  <2>2. Whole(archive.digest, points)
    BY <1>3 DEF RestoreStart, CopyInv, Archived, Stored
  <2> QED
    BY <1>1, <1>2, <2>1, <2>2, <2>3 DEF CopyPart, Manifest, Checked
<1>4. CASE RestoreOpen
  <2>1. /\ restore.phase = "open" /\ restore'.phase \in {"clean", "extract"} /\ restore'.digest = restore.digest
        /\ UNCHANGED target
    BY <1>0, <1>4 DEF RestoreOpen, Phased
  <2>2. DOMAIN target = {}
    BY <2>1 DEF CopyInv, Checked
  <2> QED
    BY <1>1, <1>2, <2>1, <2>2 DEF CopyInv, CopyPart, Manifest, Checked
<1>5. CASE RestoreCreate
  <2>1. restore.phase = "extract" /\ restore'.digest = restore.digest
    BY <1>0, <1>5 DEF RestoreCreate, Phased
  <2>2. Manifest'
    BY <1>1, <2>1 DEF CopyInv, Manifest
  <2>3. ASSUME restore'.phase = "clean" PROVE Checked'
    BY <2>3 DEF Checked
  <2>4. ASSUME restore'.phase # "clean" PROVE Checked'
    <3>1. PICK x : x = Entry[1]
      OBVIOUS
    <3>2. /\ x \in DOMAIN restore.digest /\ restore'.phase = "write"
          /\ restore' = [restore EXCEPT !.phase = "write"]
          /\ target' = [p \in DOMAIN target \cup {x} |-> IF p = x THEN Partial ELSE target[p]]
      BY <1>0, <1>5, <2>4, <3>1 DEF RestoreCreate, Phased
    <3>3. Entry' = Entry
      BY <1>0, <3>2 DEF Entry, Phased
    <3> QED
      BY <2>1, <3>1, <3>2, <3>3 DEF CopyInv, Checked
  <2> QED
    BY <1>2, <2>2, <2>3, <2>4 DEF CopyPart
<1>6. CASE RestoreWrite
  <2>1. PICK x, v : x = Entry[1] /\ v = Entry[2]
    OBVIOUS
  <2>2. /\ restore.phase = "write" /\ restore'.digest = restore.digest
        /\ target' = [target EXCEPT ![x] = v]
        /\ restore'.phase = IF v = restore.digest[x] THEN "extract" ELSE "clean"
    BY <1>0, <1>6, <2>1 DEF RestoreWrite, Phased
  <2>3. Manifest'
    BY <1>1, <2>2 DEF CopyInv, Manifest
  <2>4. Checked'
    BY <2>1, <2>2 DEF CopyInv, Checked
  <2> QED
    BY <1>2, <2>3, <2>4 DEF CopyPart
<1>7. CASE RestoreExtracted
  <2>1. /\ restore.phase = "extract" /\ restore'.digest = restore.digest /\ UNCHANGED target
        /\ restore'.phase = IF DOMAIN target = DOMAIN restore.digest THEN "validate" ELSE "clean"
    BY <1>0, <1>7 DEF RestoreExtracted, Phased
  <2> QED
    BY <1>1, <1>2, <2>1 DEF CopyInv, CopyPart, Manifest, Checked
<1>8. CASE RestoreValidate
  <2>1. /\ restore.phase = "validate" /\ restore'.digest = restore.digest /\ UNCHANGED target
        /\ restore'.phase \in {"done", "clean"}
    BY <1>0, <1>8 DEF RestoreValidate, Phased
  <2> QED
    BY <1>1, <1>2, <2>1 DEF CopyInv, CopyPart, Manifest, Checked
<1>9. CASE RestoreClean \/ RestoreKilled \/ NewTarget
  <2>1. restore'.phase \in {"clean", "failed", "killed", "killed cleaning", "idle"}
    <3>1. CASE RestoreClean
      BY <3>1 DEF RestoreClean, NoRestore
    <3>2. CASE RestoreKilled
      BY <1>0, <3>2 DEF RestoreKilled, Phased
    <3>3. CASE NewTarget
      BY <3>3 DEF NewTarget, NoRestore
    <3> QED
      BY <1>9, <3>1, <3>2, <3>3
  <2> QED
    BY <1>2, <2>1 DEF CopyPart, Manifest, Checked
<1> QED
  BY <1>3, <1>4, <1>5, <1>6, <1>7, <1>8, <1>9 DEF Restoring

\* The copies, digests and files of every reachable state.
THEOREM CopyInvariant == Spec => []CopyInv
<1>1. Init => CopyPart
  <2> SUFFICES ASSUME Init PROVE CopyPart
    OBVIOUS
  <2>1. Present = {}
    BY DEF Init, Present
  <2>2. FinitePresent
    BY <2>1, FS_EmptySet DEF FinitePresent
  <2> QED
    BY <2>2 DEF Init, CopyPart, GateHeld, Copied, Hashed, Archived, Manifest, Checked, NoBackup, NoRestore
<1>2. CopyInv /\ [Next]_vars => CopyPart'
  <2>1. CopyInv /\ UNCHANGED vars => CopyPart'
    BY DEF CopyInv, CopyPart, FinitePresent, Present, GateHeld, Copied, Hashed, Archived, Manifest, Checked,
           Entry, vars, instance
  <2> QED
    BY <2>1, ServingCopy, BackupCopied, BackupHashed, BackupWritten, MediumCopy, RestoringCopy DEF Next, BackingUp
<1> QED
  BY <1>1, <1>2, UpgradeInvariant, PTL DEF Spec, CopyInv, CopyPart

\* What a finished restore has put in its directory is one of the moments.
LEMMA InstalledMoment ==
  ASSUME CopyInv, restore.phase \in {"validate", "done"}
  PROVE  PointOf(target) \in points
<1>1. Whole(restore.digest, points) /\ DOMAIN target = DOMAIN restore.digest
      /\ \A p \in DOMAIN target : target[p] = restore.digest[p]
  BY DEF CopyInv, Manifest, Checked
<1>2. Database \in DOMAIN target
  BY <1>1 DEF Whole, Files
<1>3. PointOf(target) = PointOf(restore.digest)
  BY <1>1, <1>2 DEF PointOf, Whole
<1> QED
  BY <1>1, <1>3 DEF Whole

\* Every step of backup and restore is a step of AtomicCopy, or changes nothing of it:
\* the step that copies the database takes a copy, the one that validates the restored
\* directory installs one, and a new directory removes it.
THEOREM CopyRefines == Spec => CopyIsAtomic
<1>1. Init => Copy!Init
  BY DEF Init, Copy!Init, Restored, NoRestore
<1>2. CopyInv /\ [Next]_vars => [Copy!Next]_(Copy!vars)
  <2> SUFFICES ASSUME CopyInv, [Next]_vars PROVE [Copy!Next]_(Copy!vars)
    OBVIOUS
  <2>0. Phased
    BY DEF CopyInv, UpgradeInv, BaseInv
  <2>1. ASSUME UNCHANGED points, Restored' = Restored PROVE Copy!Next
    BY <2>1 DEF Copy!Next, Copy!Change
  <2>2. ASSUME UNCHANGED points, restore.phase # "done", restore'.phase # "done" PROVE Copy!Next
    <3>1. Restored' = Restored
      BY <2>2 DEF Restored
    <3> QED
      BY <2>1, <2>2, <3>1
  <2>3. ASSUME UNCHANGED <<restore, target>> PROVE Restored' = Restored
    BY <2>3 DEF Restored
  <2>4. CASE Serving \/ Medium \/ UNCHANGED vars
    <3>1. UNCHANGED <<restore, target, points>>
      BY <2>4 DEF Serving, Start, Migrate, Stop, Upgrade, Kill, CreateDirectory, CreateRow, CreateRefused,
         PushObjects, PushRefs, Note, EditConfig, Medium, Damage, RemoveArchive, vars
    <3> QED
      BY <2>1, <2>3, <3>1
  <2>5. CASE BackupCollect \/ BackupOutput \/ BackupAppend \/ BackupFinish \/ BackupFails
    <3>1. UNCHANGED <<restore, target, points>>
      BY <2>5 DEF BackupCollect, BackupOutput, BackupAppend, BackupFinish, BackupFails
    <3> QED
      BY <2>1, <2>3, <3>1
  <2>6. CASE BackupCopy
    <3>1. points' = points \cup {View} /\ UNCHANGED <<instance, restore, target>>
      BY <2>6 DEF BackupCopy
    <3>2. UNCHANGED View
      BY <3>1 DEF View, instance
    <3> QED
      BY <2>3, <3>1, <3>2 DEF Copy!Next, Copy!Take
  <2>7. CASE RestoreStart \/ RestoreOpen \/ RestoreCreate \/ RestoreWrite \/ RestoreExtracted \/ RestoreKilled
    <3>1. UNCHANGED points /\ restore.phase # "done"
      BY <2>7 DEF RestoreStart, RestoreOpen, RestoreCreate, RestoreWrite, RestoreExtracted, RestoreKilled
    <3>2. restore'.phase # "done"
      <4>1. CASE RestoreStart
        BY <4>1 DEF RestoreStart, NoRestore
      <4>2. CASE RestoreOpen \/ RestoreCreate
        BY <2>0, <4>2 DEF RestoreOpen, RestoreCreate, Phased
      <4>3. CASE RestoreWrite \/ RestoreExtracted \/ RestoreKilled
        BY <2>0, <4>3 DEF RestoreWrite, RestoreExtracted, RestoreKilled, Phased
      <4> QED
        BY <2>7, <4>1, <4>2, <4>3
    <3> QED
      BY <2>2, <3>1, <3>2
  <2>8. CASE RestoreClean
    <3>1. UNCHANGED points /\ restore.phase # "done" /\ restore'.phase # "done"
      BY <2>8 DEF RestoreClean, NoRestore
    <3> QED
      BY <2>2, <3>1
  <2>9. CASE RestoreValidate
    <3>1. UNCHANGED <<instance, target, points>> /\ restore.phase = "validate"
      BY <2>9 DEF RestoreValidate
    <3>2. CASE restore'.phase # "done"
      BY <2>2, <3>1, <3>2
    <3>3. CASE restore'.phase = "done"
      <4>1. Restored = Nothing /\ Restored' = PointOf(target)
        BY <3>1, <3>3 DEF Restored, PointOf
      <4>2. UNCHANGED View
        BY <3>1 DEF View, instance
      <4>3. PointOf(target) \in points
        BY <3>1, InstalledMoment
      <4> QED
        BY <3>1, <4>1, <4>2, <4>3 DEF Copy!Next, Copy!Install
    <3> QED
      BY <3>2, <3>3
  <2>10. CASE NewTarget
    <3>1. UNCHANGED <<instance, points>> /\ restore'.phase = "idle"
      BY <2>10 DEF NewTarget, NoRestore
    <3>2. Restored' = Nothing /\ UNCHANGED View
      BY <3>1 DEF Restored, View, instance
    <3> QED
      BY <3>1, <3>2 DEF Copy!Next, Copy!Remove
  <2> QED
    BY <2>4, <2>5, <2>6, <2>7, <2>8, <2>9, <2>10 DEF Next, BackingUp, Restoring
<1> QED
  BY <1>1, <1>2, CopyInvariant, PTL DEF Spec, CopyIsAtomic, Copy!Spec

-----------------------------------------------------------------------------
(***************************************************************************)
(* The order of the files                                                  *)
(***************************************************************************)

\* A manifest is a finite set of files.
LEMMA FilesFinite ==
  ASSUME NEW ids \in SUBSET Repos, IsFiniteSet(ids)
  PROVE  IsFiniteSet(Files(ids)) /\ Cardinality(Files(ids)) \in Nat
<1> DEFINE O == {Objects(r) : r \in ids}
           R == {Refs(r) : r \in ids}
<1>1. IsFiniteSet(O)
  <2> DEFINE f == [r \in ids |-> Objects(r)]
  <2>1. f \in [ids -> O] /\ \A t \in O : \E r \in ids : f[r] = t
    OBVIOUS
  <2>2. f \in Surjection(ids, O)
    BY <2>1, Fun_IsSurj
  <2> QED
    BY <2>2, FS_Surjection
<1>2. IsFiniteSet(R)
  <2> DEFINE f == [r \in ids |-> Refs(r)]
  <2>1. f \in [ids -> R] /\ \A t \in R : \E r \in ids : f[r] = t
    OBVIOUS
  <2>2. f \in Surjection(ids, R)
    BY <2>1, Fun_IsSurj
  <2> QED
    BY <2>2, FS_Surjection
<1>3. IsFiniteSet(({} \cup {Config}) \cup {Database})
  BY FS_EmptySet, FS_AddElement
<1>4. IsFiniteSet((({} \cup {Config}) \cup {Database}) \cup O)
  BY <1>1, <1>3, FS_Union
<1>5. IsFiniteSet(((({} \cup {Config}) \cup {Database}) \cup O) \cup R)
  BY <1>2, <1>4, FS_Union
<1>6. Files(ids) = ((({} \cup {Config}) \cup {Database}) \cup O) \cup R
  BY DEF Files
<1> QED
  BY <1>5, <1>6, FS_CardinalityType

\* Before is a strict total order on the files, and the database is the last.
LEMMA BeforeOrders ==
  ASSUME NEW ids \in SUBSET Repos
  PROVE  /\ \A p, q \in Files(ids) : p # q => Before(p, q) \/ Before(q, p)
         /\ \A p, q, x \in Files(ids) : Before(p, q) /\ Before(q, x) => Before(p, x)
         /\ \A p \in Files(ids) : ~Before(p, p)
         /\ \A p \in Files(ids) : p # Database <=> Before(p, Database)
<1>1. ids \subseteq Nat
  BY BoundAssumption
<1>2. ASSUME NEW p \in Files(ids)
      PROVE  p = Config \/ p = Database \/ \E r \in ids : p = Objects(r) \/ p = Refs(r)
  BY DEF Files
<1>3. \A r, s : Objects(r) # Refs(s) /\ (Objects(r) = Objects(s) => r = s) /\ (Refs(r) = Refs(s) => r = s)
  <2> TAKE r, s
  <2>1. Objects(r)[3] # Refs(s)[3]
    BY PathsDiffer
  <2>2. Objects(r)[2] = r /\ Objects(s)[2] = s /\ Refs(r)[2] = r /\ Refs(s)[2] = s
    BY PathsDiffer
  <2> QED
    BY <2>1, <2>2
<1>4. ASSUME NEW r \in ids, NEW s \in ids
      PROVE  /\ Before(Objects(r), Objects(s)) <=> r < s
             /\ Before(Objects(r), Refs(s)) <=> r <= s
             /\ Before(Refs(r), Objects(s)) <=> r < s
             /\ Before(Refs(r), Refs(s)) <=> r < s
  <2>1. r \in Nat /\ s \in Nat
    BY <1>1
  <2>2. /\ Before(Objects(r), Objects(s)) <=> (Objects(r) # Objects(s) /\ (r < s \/ r = s))
        /\ Before(Objects(r), Refs(s)) <=> (r < s \/ r = s)
        /\ Before(Refs(r), Objects(s)) <=> r < s
        /\ Before(Refs(r), Refs(s)) <=> r < s
    BY <1>3, <2>1, PathsDiffer DEF Before
  <2> QED
    BY <1>3, <2>1, <2>2
<1>5. /\ Before(Config, Database) /\ ~Before(Database, Config)
      /\ ~Before(Config, Config) /\ ~Before(Database, Database)
      /\ \A r : /\ Before(Config, Objects(r)) /\ Before(Config, Refs(r))
                /\ ~Before(Objects(r), Config) /\ ~Before(Refs(r), Config)
                /\ Before(Objects(r), Database) /\ Before(Refs(r), Database)
                /\ ~Before(Database, Objects(r)) /\ ~Before(Database, Refs(r))
  BY PathsDiffer DEF Before
<1>6. ASSUME NEW p \in Files(ids), NEW q \in Files(ids), p # q PROVE Before(p, q) \/ Before(q, p)
  BY <1>1, <1>2, <1>4, <1>5, <1>6
<1>7. ASSUME NEW p \in Files(ids) PROVE ~Before(p, p) /\ (p # Database <=> Before(p, Database))
  BY <1>2, <1>5, <1>7, PathsDiffer DEF Before
<1>8. ASSUME NEW p \in Files(ids), NEW q \in Files(ids), NEW x \in Files(ids), Before(p, q), Before(q, x)
      PROVE  Before(p, x)
  <2>1. CASE p = Config
    BY <1>2, <1>5, <1>8, <2>1
  <2>2. CASE x = Database
    BY <1>2, <1>5, <1>8, <2>2
  <2>3. CASE p # Config /\ x # Database
    <3>1. PICK r \in ids : p = Objects(r) \/ p = Refs(r)
      BY <1>2, <1>5, <1>8, <2>3
    <3>2. PICK s \in ids : q = Objects(s) \/ q = Refs(s)
      BY <1>2, <1>5, <1>8, <2>3
    <3>3. PICK t \in ids : x = Objects(t) \/ x = Refs(t)
      BY <1>2, <1>5, <1>8, <2>3
    <3>4. r \in Nat /\ s \in Nat /\ t \in Nat
      BY <1>1
    <3>5. r <= s /\ (r < s \/ (p = Objects(r) /\ q = Refs(s)))
      BY <1>4, <1>8, <3>1, <3>2, <3>4
    <3>6. s <= t /\ (s < t \/ (q = Objects(s) /\ x = Refs(t)))
      BY <1>4, <1>8, <3>2, <3>3, <3>4
    <3>7. r < t
      BY <1>3, <3>4, <3>5, <3>6
    <3> QED
      BY <1>4, <3>1, <3>3, <3>4, <3>7
  <2> QED
    BY <2>1, <2>2, <2>3
<1> QED
  BY <1>6, <1>7, <1>8

\* Each place from the first to the last is of exactly one file, and the last one is
\* of the database: files.sort_by in create_archive.
LEMMA InOrderIs ==
  ASSUME NEW ids \in SUBSET Repos, IsFiniteSet(ids), NEW files, files = Files(ids),
         NEW n, n = Cardinality(files), NEW s, s = InOrder(files)
  PROVE  /\ n \in Nat \ {0} /\ DOMAIN s = 1..n /\ s \in Seq(files) /\ Len(s) = n
         /\ \A i \in 1..n : s[i] \in files
         /\ \A i, j \in 1..n : s[i] = s[j] => i = j
         /\ \A p \in files : \E i \in 1..n : s[i] = p
         /\ \A i \in 1..n : s[i] = Database => i = n
         /\ {Config, Database} \subseteq files
<1> DEFINE Less(p) == {q \in files : Before(q, p)}
<1>0. IsFiniteSet(files) /\ n \in Nat /\ {Config, Database} \subseteq files
  BY FilesFinite DEF Files
<1>1. ASSUME NEW p \in files
      PROVE  /\ IsFiniteSet(Less(p)) /\ Cardinality(Less(p)) \in Nat
             /\ Place(p, files) = Cardinality(Less(p)) + 1 /\ Place(p, files) \in 1..n
  <2>1. p \notin Less(p)
    BY BeforeOrders
  <2>2. Less(p) \in SUBSET files /\ Less(p) # files
    BY <2>1
  <2> HIDE DEF Less
  <2>3. IsFiniteSet(Less(p)) /\ Cardinality(Less(p)) <= n /\ Cardinality(Less(p)) # n
    BY <1>0, <2>2, FS_Subset
  <2>4. Cardinality(Less(p)) \in Nat
    BY <2>3, FS_CardinalityType
  <2>5. Place(p, files) = Cardinality(Less(p)) + 1
    BY DEF Place, Less
  <2> QED
    BY <1>0, <2>3, <2>4, <2>5
<1>a. \A p \in files : Place(p, files) \in 1..n
  BY <1>1
<1>2. ASSUME NEW p \in files, NEW q \in files, Before(p, q) PROVE Place(p, files) < Place(q, files)
  <2>1. Less(p) \in SUBSET Less(q) /\ p \in Less(q) /\ p \notin Less(p)
    BY <1>2, BeforeOrders
  <2>2. /\ IsFiniteSet(Less(q)) /\ Cardinality(Less(p)) \in Nat /\ Cardinality(Less(q)) \in Nat
        /\ Place(p, files) = Cardinality(Less(p)) + 1 /\ Place(q, files) = Cardinality(Less(q)) + 1
    BY <1>1
  <2> HIDE DEF Less
  <2>3. Cardinality(Less(p)) <= Cardinality(Less(q)) /\ Cardinality(Less(p)) # Cardinality(Less(q))
    BY <2>1, <2>2, FS_Subset
  <2> QED
    BY <2>2, <2>3
<1>3. ASSUME NEW p \in files, NEW q \in files, Place(p, files) = Place(q, files) PROVE p = q
  <2> HIDE DEF Less
  <2>1. Place(p, files) \in 1..n /\ Place(q, files) \in 1..n
    BY <1>a
  <2>2. ~(Place(p, files) < Place(q, files)) /\ ~(Place(q, files) < Place(p, files))
    BY <1>0, <1>3, <2>1
  <2>3. ~Before(p, q) /\ ~Before(q, p)
    BY <1>2, <2>2
  <2> QED
    BY <2>3, BeforeOrders
<1>4. \A i \in 1..n : \E p \in files : Place(p, files) = i
  <2> DEFINE f == [p \in files |-> Place(p, files)]
  <2>1. f \in [files -> 1..n] /\ \A p, q \in files : f[p] = f[q] => p = q
    BY <1>1, <1>3
  <2>2. f \in Injection(files, 1..n)
    BY <2>1, Fun_IsInj
  <2>3. IsFiniteSet(1..n) /\ Cardinality(1..n) = n
    BY <1>0, FS_Interval
  <2>4. f \in Surjection(files, 1..n)
    BY <2>2, <2>3, FS_Injection
  <2>5. \A i \in 1..n : \E p \in files : f[p] = i
    <3> HIDE DEF f
    <3> QED
      BY <2>4 DEF Surjection
  <2> QED
    BY <2>5
<1>5. DOMAIN s = 1..n /\ \A i \in 1..n : s[i] \in files /\ Place(s[i], files) = i
  <2>1. s = [i \in 1..n |-> CHOOSE p \in files : Place(p, files) = i]
    BY DEF InOrder
  <2> QED
    BY <1>4, <2>1
<1>6. \A p \in files : s[Place(p, files)] = p
  BY <1>a, <1>3, <1>5
<1>7. Place(Database, files) = n
  <2>1. Less(Database) = files \ {Database}
    BY BeforeOrders
  <2>2. Cardinality(files \ {Database}) = n - 1
    BY <1>0, FS_RemoveElement
  <2> QED
    BY <1>0, <1>1, <2>1, <2>2
<1>8. n \in Nat \ {0} /\ n \in 1..n
  BY <1>0, <1>a
<1>9. s \in Seq(files) /\ Len(s) = n
  <2>1. s = [i \in 1..n |-> s[i]]
    BY DEF InOrder
  <2> QED
    BY <1>0, <1>5, <2>1
<1>10. \A i, j \in 1..n : s[i] = s[j] => i = j
  BY <1>5
<1>11. \A i \in 1..n : s[i] = Database => i = n
  BY <1>5, <1>7
<1>12. \A p \in files : \E i \in 1..n : s[i] = p
  BY <1>a, <1>6
<1> QED
  BY <1>0, <1>5, <1>8, <1>9, <1>10, <1>11, <1>12

-----------------------------------------------------------------------------
(***************************************************************************)
(* The entries of an archive                                               *)
(***************************************************************************)
IsSeq(x) == x \in Seq({x[i] : i \in DOMAIN x})

\* The entries are the first files of the manifest in their order, with what the
\* manifest says of them; only config.toml can be changed between hash and copy.
Entries(a) ==
  LET order == InOrder(DOMAIN a.digest)
      n == Cardinality(DOMAIN a.digest)
  IN /\ IsSeq(a.entries) /\ Len(a.entries) <= n
     /\ a.success \in BOOLEAN /\ a.edited \in BOOLEAN
     /\ \A i \in 1..Len(a.entries) :
          /\ a.entries[i][1] = order[i]
          /\ order[i] # Config \/ ~a.edited => a.entries[i][2] = a.digest[order[i]]
     /\ a.success => Len(a.entries) = n

Intact == archive # Nothing /\ ~archive.damaged => Entries(archive)

\* create_archive on its way through the files.
Unchanged == \A p \in DOMAIN backup.digest \ {Config} : Content(p) = backup.digest[p]
Left(files, a) ==
  /\ IsSeq(files)
  /\ Len(a.entries) + Len(files) = Cardinality(DOMAIN a.digest)
  /\ \A j \in 1..Len(files) : files[j] = InOrder(DOMAIN a.digest)[Len(a.entries) + j]
Writing ==
  /\ backup.phase = "output" => Unchanged /\ backup.files = InOrder(DOMAIN backup.digest)
  /\ backup.phase = "append" =>
       /\ Unchanged
       /\ archive.digest = backup.digest /\ archive.damaged = FALSE /\ archive.success = FALSE
       /\ Entries(archive) /\ Left(backup.files, archive)

\* extract_archive on its way through the entries of an archive without damage: the
\* files it has opened are those of the entries up to `last`.
Extracting(a, files, next, last) ==
  /\ Entries(a)
  /\ next \in 1..(Len(a.entries) + 1) /\ last \in {next - 1, next} /\ last <= Len(a.entries)
  /\ \A i \in 1..last : a.entries[i][1] \in DOMAIN files
  /\ \A p \in DOMAIN files : \E i \in 1..last : p = a.entries[i][1]
  /\ \A i \in 1..(next - 1) : files[a.entries[i][1]] = a.entries[i][2]
  /\ last = next => files[a.entries[next][1]] = Partial
Last == IF restore.phase = "write" THEN restore.next ELSE restore.next - 1
Reading ==
  /\ restore.phase = "open" => restore.next = 1
  /\ restore.phase \in {"extract", "write", "validate"} /\ ~restore.file.damaged =>
       /\ Extracting(restore.file, target, restore.next, Last)
       /\ Whole(restore.file.digest, points)
       /\ restore.phase = "validate" => restore.next = Len(restore.file.entries) + 1

LastPart == Intact /\ Writing /\ Reading /\ DatabaseIsLast
LastInv == CopyInv /\ Intact /\ Writing /\ Reading /\ DatabaseIsLast

\* Sequences of files and entries, one longer and one shorter.
LEMMA SeqIs ==
  ASSUME NEW S, NEW x \in Seq(S)
  PROVE  IsSeq(x)
<1>1. Len(x) \in Nat /\ x = [i \in 1..Len(x) |-> x[i]] /\ DOMAIN x = 1..Len(x)
  OBVIOUS
<1>2. \A i \in 1..Len(x) : x[i] \in {x[j] : j \in DOMAIN x}
  BY <1>1
<1> QED
  BY <1>1, <1>2 DEF IsSeq

LEMMA SeqHas ==
  ASSUME NEW x, IsSeq(x)
  PROVE  Len(x) \in Nat /\ DOMAIN x = 1..Len(x)
  BY DEF IsSeq

LEMMA SeqAppend ==
  ASSUME NEW x, IsSeq(x), NEW v
  PROVE  /\ IsSeq(Append(x, v)) /\ Len(Append(x, v)) = Len(x) + 1
         /\ \A i \in 1..Len(x) : Append(x, v)[i] = x[i]
         /\ Append(x, v)[Len(x) + 1] = v
<1>1. PICK S : x \in Seq(S) /\ v \in S
  <2>1. PICK T : x \in Seq(T)
    BY DEF IsSeq
  <2>2. x \in Seq(T \cup {v})
    BY <2>1
  <2> QED
    BY <2>2
<1>2. IsSeq(Append(x, v))
  <2>1. Append(x, v) \in Seq(S)
    BY <1>1
  <2> QED
    BY <2>1, SeqIs
<1>3. Len(Append(x, v)) = Len(x) + 1 /\ Append(x, v)[Len(x) + 1] = v
  BY <1>1
<1>4. \A i \in 1..Len(x) : Append(x, v)[i] = x[i]
  BY <1>1
<1> QED
  BY <1>2, <1>3, <1>4

LEMMA SeqTail ==
  ASSUME NEW x, IsSeq(x), x # <<>>
  PROVE  /\ IsSeq(Tail(x)) /\ Len(Tail(x)) = Len(x) - 1 /\ Len(x) >= 1 /\ Head(x) = x[1]
         /\ \A i \in 1..(Len(x) - 1) : Tail(x)[i] = x[i + 1]
<1>1. PICK S : x \in Seq(S)
  BY DEF IsSeq
<1>2. IsSeq(Tail(x))
  <2>1. Tail(x) \in Seq(S)
    BY <1>1
  <2> QED
    BY <2>1, SeqIs
<1>3. Len(Tail(x)) = Len(x) - 1 /\ Len(x) >= 1 /\ Head(x) = x[1]
  BY <1>1
<1>4. \A i \in 1..(Len(x) - 1) : Tail(x)[i] = x[i + 1]
  BY <1>1
<1> QED
  BY <1>2, <1>3, <1>4

\* The order of the files of a manifest.
LEMMA WholeOrder ==
  ASSUME NEW f, NEW moments, Whole(f, moments), NEW n, n = Cardinality(DOMAIN f), NEW s, s = InOrder(DOMAIN f)
  PROVE  /\ n \in Nat \ {0} /\ DOMAIN s = 1..n /\ IsSeq(s) /\ Len(s) = n
         /\ \A i \in 1..n : s[i] \in DOMAIN f
         /\ \A i, j \in 1..n : s[i] = s[j] => i = j
         /\ \A p \in DOMAIN f : \E i \in 1..n : s[i] = p
         /\ \A i \in 1..n : s[i] = Database => i = n
         /\ {Config, Database} \subseteq DOMAIN f
<1>1. PICK ids \in SUBSET Repos : IsFiniteSet(ids) /\ DOMAIN f = Files(ids)
  BY DEF Whole
<1> QED
  BY <1>1, InOrderIs, SeqIs

\* The database has the last place in the order.
LEMMA OrderEnds ==
  ASSUME NEW f, NEW moments, Whole(f, moments)
  PROVE  /\ Database \in DOMAIN f
         /\ \A i \in 1..Cardinality(DOMAIN f) :
              InOrder(DOMAIN f)[i] = Database => i = Cardinality(DOMAIN f)
  BY WholeOrder

\* Every path has a place in the order.
LEMMA OrderCovers ==
  ASSUME NEW f, NEW moments, Whole(f, moments), NEW p \in DOMAIN f
  PROVE  \E i \in 1..Cardinality(DOMAIN f) : InOrder(DOMAIN f)[i] = p
<1>1. \A q \in DOMAIN f : \E i \in 1..Cardinality(DOMAIN f) : InOrder(DOMAIN f)[i] = q
  BY WholeOrder
<1> QED
  BY <1>1

\* What is read of a file does not change while the directories do not.
LEMMA ContentStays ==
  ASSUME UNCHANGED tree, backup'.copy = backup.copy, NEW ids, NEW p \in Files(ids) \ {Config}
  PROVE  Content(p)' = Content(p)
<1>1. CASE p = Database
  BY <1>1, PathsDiffer DEF Content
<1>2. ASSUME NEW r \in ids, p = Objects(r) PROVE Content(p)' = Content(p)
  BY <1>2, PathsDiffer DEF Content
<1>3. ASSUME NEW r \in ids, p = Refs(r) PROVE Content(p)' = Content(p)
  BY <1>3, PathsDiffer DEF Content
<1> QED
  BY <1>1, <1>2, <1>3 DEF Files

LEMMA UnchangedStays ==
  ASSUME CopyInv, Unchanged, backup.phase \in {"output", "append"}, UNCHANGED tree,
         backup'.copy = backup.copy, backup'.digest = backup.digest
  PROVE  Unchanged'
<1>1. PICK ids \in SUBSET Repos : DOMAIN backup.digest = Files(ids)
  BY DEF CopyInv, Hashed, Whole
<1>2. \A p \in DOMAIN backup.digest \ {Config} : Content(p)' = Content(p)
  BY <1>1, ContentStays
<1> QED
  BY <1>2 DEF Unchanged

\* Nothing that a restore reads is touched.
LEMMA ReadingStays ==
  ASSUME Reading, DatabaseIsLast, UNCHANGED <<restore, target>>, points \subseteq points'
  PROVE  Reading' /\ DatabaseIsLast'
<1>1. Reading'
  BY WholeStays DEF Reading, Last
<1>2. DatabaseIsLast'
  BY DEF DatabaseIsLast
<1> QED
  BY <1>1, <1>2

\* What the server does: the gate keeps it away from the files that are being copied,
\* all but config.toml.
LEMMA ServingLast ==
  ASSUME LastInv, Serving
  PROVE  LastPart'
<1>0. CopyInv /\ Intact /\ Writing /\ Reading /\ DatabaseIsLast
  BY DEF LastInv
<1>1. UNCHANGED <<archive, restore, target, points>> /\ backup' \in {backup, NoBackup}
  BY DEF Serving, Start, Migrate, Stop, Upgrade, Kill, CreateDirectory, CreateRow, CreateRefused, PushObjects,
         PushRefs, Note, EditConfig
<1>2. Intact' /\ Reading' /\ DatabaseIsLast'
  BY <1>0, <1>1, ReadingStays DEF Intact
<1>3. Writing'
  <2>1. CASE backup' = NoBackup
    BY <2>1 DEF Writing, NoBackup
  <2>2. CASE UNCHANGED backup /\ backup.phase \in {"output", "append"}
    <3>1. gate = <<"backup">>
      BY <1>0, <2>2 DEF CopyInv, GateHeld
    <3>2. UNCHANGED tree
      BY <3>1, GateSays DEF Serving, Start, Migrate, Stop, Upgrade, Kill, CreateDirectory, CreateRow,
         CreateRefused, PushObjects, PushRefs, Note, EditConfig
    <3>3. Unchanged'
      BY <1>0, <2>2, <3>2, UnchangedStays DEF Writing
    <3> QED
      BY <1>0, <1>1, <2>2, <3>3 DEF Writing
  <2>3. CASE UNCHANGED backup /\ backup.phase \notin {"output", "append"}
    BY <2>3 DEF Writing
  <2> QED
    BY <1>1, <2>1, <2>2, <2>3
<1> QED
  BY <1>2, <1>3 DEF LastPart

\* The files are listed in their order, with what was just read of them.
LEMMA CollectLast ==
  ASSUME LastInv, BackupCopy \/ BackupCollect
  PROVE  LastPart'
<1>0. CopyInv /\ Intact /\ Writing /\ Reading /\ DatabaseIsLast /\ Phased
  BY DEF LastInv, CopyInv, UpgradeInv, BaseInv
<1>1. UNCHANGED <<instance, archive, restore, target>> /\ points \subseteq points'
  BY DEF BackupCopy, BackupCollect
<1>2. Intact' /\ Reading' /\ DatabaseIsLast'
  BY <1>0, <1>1, ReadingStays DEF Intact
<1>3. Writing'
  <2>1. CASE BackupCopy
    BY <2>1 DEF BackupCopy, NoBackup, Writing
  <2>2. CASE BackupCollect
    <3>1. PICK files, f : files = Files(Present) /\ f = [p \in files |-> Content(p)]
      OBVIOUS
    <3>2. /\ backup'.phase = "output" /\ backup'.digest = f /\ backup'.files = InOrder(files)
          /\ backup'.copy = backup.copy
      BY <1>0, <2>2, <3>1 DEF BackupCollect, Phased
    <3>3. \A p \in files \ {Config} : Content(p)' = Content(p)
      BY <1>1, <3>1, <3>2, ContentStays DEF instance
    <3>4. DOMAIN f = files /\ \A p \in files : f[p] = Content(p)
      BY <3>1
    <3>5. Unchanged'
      BY <3>2, <3>3, <3>4 DEF Unchanged
    <3> QED
      BY <3>2, <3>4, <3>5 DEF Writing
  <2> QED
    BY <2>1, <2>2
<1> QED
  BY <1>2, <1>3 DEF LastPart

\* The archive begins without entries.
LEMMA OutputLast ==
  ASSUME LastInv, BackupOutput
  PROVE  LastPart'
<1>0. CopyInv /\ Intact /\ Writing /\ Reading /\ DatabaseIsLast /\ Phased
  BY DEF LastInv, CopyInv, UpgradeInv, BaseInv
<1>1. UNCHANGED <<instance, restore, target, points>> /\ backup.phase = "output"
  BY DEF BackupOutput
<1>2. Reading' /\ DatabaseIsLast'
  BY <1>0, <1>1, ReadingStays
<1>3. CASE archive # Nothing
  BY <1>0, <1>2, <1>3 DEF BackupOutput, BackupEnds, NoBackup, LastPart, Intact, Writing
<1>4. CASE archive = Nothing
  <2>1. PICK f : f = backup.digest
    OBVIOUS
  <2>2. /\ archive' = [digest |-> f, entries |-> <<>>, success |-> FALSE, edited |-> FALSE, damaged |-> FALSE]
        /\ backup'.phase = "append" /\ backup'.digest = f /\ backup'.files = backup.files
        /\ backup'.copy = backup.copy
    BY <1>0, <1>4, <2>1 DEF BackupOutput, Phased
  <2>3. Whole(f, points) /\ backup.files = InOrder(DOMAIN f) /\ Unchanged
    BY <1>0, <1>1, <2>1 DEF CopyInv, Hashed, Writing
  <2>4. PICK n, s : n = Cardinality(DOMAIN f) /\ s = InOrder(DOMAIN f)
    OBVIOUS
  <2>5. n \in Nat \ {0} /\ IsSeq(s) /\ Len(s) = n
    BY <2>3, <2>4, WholeOrder
  <2>6. Unchanged'
    BY <1>0, <1>1, <2>1, <2>2, <2>3, UnchangedStays DEF instance
  <2>7. PICK a : a = archive'
    OBVIOUS
  <2>8. IsSeq(<<>>) /\ Len(<<>>) = 0
    <3>1. <<>> \in Seq({}) /\ Len(<<>>) = 0
      OBVIOUS
    <3> QED
      BY <3>1, SeqIs
  <2>9. a.digest = f /\ a.entries = <<>> /\ a.success = FALSE /\ a.edited = FALSE /\ a.damaged = FALSE
    BY <2>2, <2>7
  <2>10. Entries(a)
    <3>1. a.success \in BOOLEAN /\ a.edited \in BOOLEAN /\ ~a.success
      BY <2>9
    <3>2. IsSeq(a.entries) /\ Len(a.entries) = 0 /\ 0 <= n /\ 1..0 = {}
      BY <2>5, <2>8, <2>9
    <3> QED
      BY <2>4, <2>9, <3>1, <3>2 DEF Entries
  <2>11. Left(s, a)
    BY <2>4, <2>5, <2>8, <2>9 DEF Left
  <2>12. Intact'
    BY <2>7, <2>10 DEF Intact
  <2>13. Writing'
    BY <2>2, <2>3, <2>4, <2>6, <2>7, <2>9, <2>10, <2>11 DEF Writing
  <2> QED
    BY <1>2, <2>12, <2>13 DEF LastPart
<1> QED
  BY <1>3, <1>4

\* The next file is appended: it is what was hashed, or config.toml after an edit.
LEMMA AppendLast ==
  ASSUME LastInv, BackupAppend
  PROVE  LastPart'
<1>0. CopyInv /\ Intact /\ Writing /\ Reading /\ DatabaseIsLast /\ Phased
  BY DEF LastInv, CopyInv, UpgradeInv, BaseInv
<1>1. UNCHANGED <<instance, restore, target, points>> /\ backup.phase = "append" /\ backup.files # <<>>
  BY DEF BackupAppend
<1>2. Reading' /\ DatabaseIsLast'
  BY <1>0, <1>1, ReadingStays
<1>3. PICK files, f, a : files = backup.files /\ f = backup.digest /\ a = archive
  OBVIOUS
<1>4. /\ Unchanged /\ Entries(a) /\ Left(files, a) /\ Whole(f, points)
      /\ a.digest = f /\ a.damaged = FALSE /\ a.success = FALSE
      /\ a = [digest |-> a.digest, entries |-> a.entries, success |-> a.success, edited |-> a.edited,
              damaged |-> a.damaged]
  BY <1>0, <1>1, <1>3 DEF Writing, CopyInv, Hashed, Archived, Stored
<1>5. PICK n, s, k, m : n = Cardinality(DOMAIN f) /\ s = InOrder(DOMAIN f) /\ k = Len(a.entries) /\ m = Len(files)
  OBVIOUS
<1>6. n \in Nat \ {0} /\ \A i \in 1..n : s[i] \in DOMAIN f
  BY <1>4, <1>5, WholeOrder
<1>7. IsSeq(a.entries) /\ IsSeq(files) /\ k \in Nat /\ m \in Nat /\ k + m = n /\ files # <<>>
      /\ a.edited \in BOOLEAN
  <2>1. IsSeq(a.entries) /\ IsSeq(files) /\ k + m = n /\ a.edited \in BOOLEAN
    BY <1>4, <1>5 DEF Entries, Left
  <2> QED
    BY <1>1, <1>3, <1>5, <2>1, SeqHas
<1>8. /\ IsSeq(Tail(files)) /\ Len(Tail(files)) = m - 1 /\ m >= 1 /\ Head(files) = files[1]
      /\ \A i \in 1..(m - 1) : Tail(files)[i] = files[i + 1]
  BY <1>5, <1>7, SeqTail
<1>9. \A j \in 1..m : files[j] = s[k + j]
  BY <1>4, <1>5 DEF Left
<1>10. PICK p, v : p = Head(files) /\ v = Content(p)
  OBVIOUS
<1>11. p = s[k + 1] /\ k + 1 \in 1..n /\ p \in DOMAIN f
  BY <1>6, <1>7, <1>8, <1>9, <1>10
<1>12. p # Config => v = f[p]
  BY <1>3, <1>4, <1>10, <1>11 DEF Unchanged
<1>13. PICK b, e : /\ b = archive' /\ e = (a.edited \/ (p = Config /\ f[p] # v))
                   /\ b = [a EXCEPT !.entries = Append(a.entries, <<p, v>>), !.edited = e]
                   /\ e \in BOOLEAN
  BY <1>3, <1>10 DEF BackupAppend
<1>14. /\ b.entries = Append(a.entries, <<p, v>>) /\ b.edited = e /\ b.digest = f
       /\ b.success = FALSE /\ b.damaged = FALSE
  BY <1>4, <1>13
<1>15. /\ IsSeq(b.entries) /\ Len(b.entries) = k + 1
       /\ \A i \in 1..k : b.entries[i] = a.entries[i]
       /\ b.entries[k + 1] = <<p, v>>
  BY <1>5, <1>7, <1>14, SeqAppend
<1>16. Entries(b)
  <2>1. \A i \in 1..k : /\ a.entries[i][1] = s[i]
                        /\ s[i] # Config \/ ~a.edited => a.entries[i][2] = f[s[i]]
    BY <1>4, <1>5 DEF Entries
  <2>2. ~e => ~a.edited /\ (p = Config => f[p] = v)
    BY <1>13
  <2>3. ASSUME NEW i \in 1..(k + 1)
        PROVE  /\ b.entries[i][1] = s[i]
               /\ s[i] # Config \/ ~b.edited => b.entries[i][2] = f[s[i]]
    <3>1. CASE i = k + 1
      BY <1>11, <1>12, <1>14, <1>15, <2>2, <3>1
    <3>2. CASE i # k + 1
      <4>1. i \in 1..k
        BY <1>7, <3>2
      <4> QED
        BY <1>14, <1>15, <2>1, <2>2, <4>1
    <3> QED
      BY <3>1, <3>2
  <2>4. k + 1 <= n
    BY <1>6, <1>11
  <2> QED
    BY <1>5, <1>13, <1>14, <1>15, <2>3, <2>4 DEF Entries
<1>17. Left(Tail(files), b)
  <2>1. \A j \in 1..(m - 1) : Tail(files)[j] = s[(k + 1) + j]
    <3> TAKE j \in 1..(m - 1)
    <3>1. j + 1 \in 1..m /\ k + (j + 1) = (k + 1) + j
      BY <1>7, <1>8
    <3> QED
      BY <1>8, <1>9, <3>1
  <2>2. (k + 1) + (m - 1) = n
    BY <1>7
  <2> QED
    BY <1>5, <1>8, <1>14, <1>15, <2>1, <2>2 DEF Left
<1>18. backup'.phase = "append" /\ backup'.digest = f /\ backup'.files = Tail(files) /\ backup'.copy = backup.copy
  BY <1>0, <1>1, <1>3 DEF BackupAppend, Phased
<1>19. Unchanged'
  BY <1>0, <1>1, <1>3, <1>4, <1>18, UnchangedStays DEF instance
<1>20. Writing'
  BY <1>13, <1>14, <1>16, <1>17, <1>18, <1>19 DEF Writing
<1>21. Intact'
  BY <1>13, <1>16 DEF Intact
<1> QED
  BY <1>2, <1>20, <1>21 DEF LastPart

\* The archive is complete when it is reported, and gone when an error is.
LEMMA EndLast ==
  ASSUME LastInv, BackupFinish \/ BackupFails
  PROVE  LastPart'
<1>0. CopyInv /\ Intact /\ Writing /\ Reading /\ DatabaseIsLast
  BY DEF LastInv
<1>1. UNCHANGED <<restore, target, points>> /\ backup' = NoBackup /\ (BackupFinish => backup.phase = "append")
  BY DEF BackupFinish, BackupFails, BackupEnds
<1>2. Reading' /\ DatabaseIsLast' /\ Writing'
  BY <1>0, <1>1, ReadingStays DEF Writing, NoBackup
<1>3. CASE BackupFails
  BY <1>0, <1>2, <1>3 DEF BackupFails, Intact, LastPart
<1>4. CASE BackupFinish
  <2>1. PICK a, b : a = archive /\ b = archive'
    OBVIOUS
  <2>2. /\ Entries(a) /\ Left(<<>>, a)
        /\ a = [digest |-> a.digest, entries |-> a.entries, success |-> a.success, edited |-> a.edited,
                damaged |-> a.damaged]
    BY <1>0, <1>1, <1>4, <2>1 DEF BackupFinish, Writing, CopyInv, Archived, Stored
  <2>3. b = [a EXCEPT !.success = TRUE]
    BY <1>4, <2>1 DEF BackupFinish
  <2>4. b.success = TRUE /\ b.digest = a.digest /\ b.entries = a.entries /\ b.edited = a.edited
    BY <2>2, <2>3
  <2>5. Len(a.entries) = Cardinality(DOMAIN a.digest)
    <3>1. IsSeq(a.entries) /\ Len(a.entries) + Len(<<>>) = Cardinality(DOMAIN a.digest)
      BY <2>2 DEF Entries, Left
    <3>2. Len(a.entries) \in Nat /\ Len(<<>>) = 0
      BY <3>1, SeqHas
    <3> QED
      BY <3>1, <3>2
  <2>6. Entries(b)
    <3>1. b.success \in BOOLEAN
      BY <2>4
    <3> QED
      BY <2>2, <2>4, <2>5, <3>1 DEF Entries
  <2> QED
    BY <1>2, <2>1, <2>6 DEF Intact, LastPart
<1> QED
  BY <1>3, <1>4

\* Damage is remembered.
LEMMA MediumLast ==
  ASSUME LastInv, Medium
  PROVE  LastPart'
<1>0. CopyInv /\ Intact /\ Writing /\ Reading /\ DatabaseIsLast
  BY DEF LastInv
<1>1. UNCHANGED <<instance, backup, restore, target, points>> /\ backup.phase # "append"
  BY DEF Medium, Damage, RemoveArchive
<1>2. Reading' /\ DatabaseIsLast'
  BY <1>0, <1>1, ReadingStays
<1>3. Writing'
  <2>1. backup.phase = "output" => Unchanged'
    BY <1>0, <1>1, UnchangedStays DEF Writing, instance
  <2> QED
    BY <1>0, <1>1, <2>1 DEF Writing
<1>4. archive' = Nothing \/ archive'.damaged = TRUE
  <2>1. CASE RemoveArchive
    BY <2>1 DEF RemoveArchive
  <2>2. CASE Damage
    <3>1. PICK entries : archive' = [archive EXCEPT !.entries = entries, !.damaged = TRUE]
      BY <2>2 DEF Damage
    <3>2. Stored(archive, points)
      BY <1>0, <2>2 DEF Damage, CopyInv, Archived
    <3> QED
      BY <3>1, <3>2 DEF Stored
  <2> QED
    BY <2>1, <2>2 DEF Medium
<1> QED
  BY <1>2, <1>3, <1>4 DEF LastPart, Intact

\* The files of the entries so far are different, and are those of the manifest.
LEMMA ExtractingHas ==
  ASSUME NEW a, NEW files, NEW next, NEW last, Extracting(a, files, next, last),
         NEW moments, Whole(a.digest, moments)
  PROVE  /\ Len(a.entries) \in Nat /\ next \in Nat \ {0} /\ last \in Nat
         /\ Len(a.entries) <= Cardinality(DOMAIN a.digest) /\ Cardinality(DOMAIN a.digest) \in Nat
         /\ \A i \in 1..Len(a.entries) : /\ a.entries[i][1] = InOrder(DOMAIN a.digest)[i]
                                         /\ a.entries[i][1] \in DOMAIN a.digest
         /\ \A i, j \in 1..Len(a.entries) : a.entries[i][1] = a.entries[j][1] => i = j
<1>1. PICK n, s, k : n = Cardinality(DOMAIN a.digest) /\ s = InOrder(DOMAIN a.digest) /\ k = Len(a.entries)
  OBVIOUS
<1>2. IsSeq(a.entries) /\ k <= n /\ \A i \in 1..k : a.entries[i][1] = s[i]
  BY <1>1 DEF Extracting, Entries
<1>3. k \in Nat /\ next \in 1..(k + 1) /\ last \in {next - 1, next}
  BY <1>1, <1>2, SeqHas DEF Extracting
<1>4. /\ n \in Nat /\ \A i \in 1..n : s[i] \in DOMAIN a.digest
      /\ \A i, j \in 1..n : s[i] = s[j] => i = j
  BY SMTT(30), <1>1, WholeOrder
<1>5. next \in Nat \ {0} /\ last \in Nat /\ \A i \in 1..k : i \in 1..n
  BY <1>2, <1>3, <1>4
<1> QED
  BY <1>1, <1>2, <1>3, <1>4, <1>5

\* A restore that is killed with the database in the directory had every file there.
LEMMA KilledLast ==
  ASSUME NEW a, NEW files, NEW next, NEW last, Extracting(a, files, next, last),
         NEW moments, Whole(a.digest, moments), Database \in DOMAIN files, files[Database] # Partial
  PROVE  \A r \in files[Database].rows : /\ {Objects(r), Refs(r)} \subseteq DOMAIN files
                                         /\ Readable(files[Objects(r)], files[Refs(r)])
<1>1. PICK n, s, k, f : /\ n = Cardinality(DOMAIN a.digest) /\ s = InOrder(DOMAIN a.digest)
                        /\ k = Len(a.entries) /\ f = a.digest
  OBVIOUS
<1>2. /\ k \in Nat /\ next \in Nat \ {0} /\ last \in Nat /\ k <= n /\ n \in Nat
      /\ \A i \in 1..k : a.entries[i][1] = s[i]
  BY <1>1, ExtractingHas
<1>3. /\ \A p \in DOMAIN f : \E i \in 1..n : s[i] = p
      /\ \A i \in 1..n : s[i] = Database => i = n
      /\ Database \in DOMAIN f
  <2>1. Whole(f, moments) /\ n = Cardinality(DOMAIN f) /\ s = InOrder(DOMAIN f)
    BY <1>1
  <2>2. Database \in DOMAIN f
    BY <2>1, OrderEnds
  <2>3. \A i \in 1..n : s[i] = Database => i = n
    BY <2>1, OrderEnds
  <2>4. ASSUME NEW p \in DOMAIN f PROVE \E i \in 1..n : s[i] = p
    BY <2>1, OrderCovers
  <2> QED
    BY <2>2, <2>3, <2>4
<1>4. /\ next <= k + 1 /\ last \in {next - 1, next} /\ last <= k
      /\ \A i \in 1..last : a.entries[i][1] \in DOMAIN files
      /\ \A p \in DOMAIN files : \E i \in 1..last : p = a.entries[i][1]
      /\ \A i \in 1..(next - 1) : files[a.entries[i][1]] = a.entries[i][2]
      /\ last = next => files[a.entries[next][1]] = Partial
  BY <1>1, <1>2 DEF Extracting
<1>5. PICK i \in 1..last : Database = a.entries[i][1]
  BY <1>4
<1>6. i = n /\ n = k /\ last = k
  BY <1>2, <1>3, <1>4, <1>5
<1>7. last = next - 1
  BY <1>2, <1>4, <1>5, <1>6
<1>8. \A j \in 1..n : /\ s[j] \in DOMAIN files
                      /\ s[j] # Config => files[s[j]] = f[s[j]]
  <2> TAKE j \in 1..n
  <2>1. a.entries[j][1] = s[j] /\ a.entries[j][1] \in DOMAIN files /\ files[a.entries[j][1]] = a.entries[j][2]
    BY <1>2, <1>4, <1>6, <1>7
  <2>2. s[j] # Config => a.entries[j][2] = f[s[j]]
    BY <1>1, <1>6 DEF Extracting, Entries
  <2> QED
    BY <2>1, <2>2
<1>9. \A p \in DOMAIN f : p \in DOMAIN files /\ (p # Config => files[p] = f[p])
  BY <1>3, <1>8
<1>10. files[Database] = f[Database]
  BY <1>3, <1>9, PathsDiffer
<1>11. \A r \in f[Database].rows : /\ Objects(r) \in DOMAIN f /\ Refs(r) \in DOMAIN f
                                  /\ Readable(f[Objects(r)], f[Refs(r)])
  BY <1>1 DEF Whole
<1> QED
  BY <1>9, <1>10, <1>11, PathsDiffer

\* A step of extract_archive: nothing yet, a file created, a file written.
LEMMA ExtractingStarts ==
  ASSUME NEW a, Entries(a), NEW files, DOMAIN files = {}
  PROVE  Extracting(a, files, 1, 0)
<1>1. Len(a.entries) \in Nat
  BY SeqHas DEF Entries
<1> QED
  BY <1>1 DEF Extracting

LEMMA ExtractingCreates ==
  ASSUME NEW a, NEW files, NEW next, Extracting(a, files, next, next - 1), NEW moments, Whole(a.digest, moments),
         next <= Len(a.entries), NEW x, x = a.entries[next][1], x \notin DOMAIN files,
         NEW more, more = [p \in DOMAIN files \cup {x} |-> IF p = x THEN Partial ELSE files[p]]
  PROVE  Extracting(a, more, next, next)
<1>1. Len(a.entries) \in Nat /\ next \in Nat \ {0}
  BY ExtractingHas
<1>2. /\ Entries(a) /\ next \in 1..(Len(a.entries) + 1)
      /\ \A i \in 1..(next - 1) : a.entries[i][1] \in DOMAIN files
      /\ \A p \in DOMAIN files : \E i \in 1..(next - 1) : p = a.entries[i][1]
      /\ \A i \in 1..(next - 1) : files[a.entries[i][1]] = a.entries[i][2]
  BY DEF Extracting
<1>3. DOMAIN more = DOMAIN files \cup {x} /\ more[x] = Partial /\ \A p \in DOMAIN files : more[p] = files[p]
  OBVIOUS
<1>4. next \in 1..next /\ 1..(next - 1) \subseteq 1..next /\ \A i \in 1..next : i \in 1..(next - 1) \/ i = next
  BY <1>1
<1>5. \A i \in 1..next : a.entries[i][1] \in DOMAIN more
  BY <1>2, <1>3, <1>4
<1>6. \A p \in DOMAIN more : \E i \in 1..next : p = a.entries[i][1]
  BY <1>2, <1>3, <1>4
<1>7. \A i \in 1..(next - 1) : more[a.entries[i][1]] = a.entries[i][2]
  BY <1>2, <1>3
<1> QED
  BY <1>1, <1>2, <1>3, <1>5, <1>6, <1>7 DEF Extracting

LEMMA ExtractingWrites ==
  ASSUME NEW a, NEW files, NEW next, Extracting(a, files, next, next), NEW moments, Whole(a.digest, moments),
         NEW more, more = [files EXCEPT ![a.entries[next][1]] = a.entries[next][2]]
  PROVE  Extracting(a, more, next + 1, next)
<1>1. /\ Len(a.entries) \in Nat /\ next \in Nat \ {0}
      /\ \A i, j \in 1..Len(a.entries) : a.entries[i][1] = a.entries[j][1] => i = j
  BY ExtractingHas
<1>2. /\ Entries(a) /\ next <= Len(a.entries)
      /\ \A i \in 1..next : a.entries[i][1] \in DOMAIN files
      /\ \A p \in DOMAIN files : \E i \in 1..next : p = a.entries[i][1]
      /\ \A i \in 1..(next - 1) : files[a.entries[i][1]] = a.entries[i][2]
  BY DEF Extracting
<1>3. /\ DOMAIN more = DOMAIN files
      /\ \A p \in DOMAIN files : more[p] = IF p = a.entries[next][1] THEN a.entries[next][2] ELSE files[p]
  OBVIOUS
<1>4. (next + 1) - 1 = next /\ next + 1 \in 1..(Len(a.entries) + 1) /\ next # next + 1
      /\ \A i \in 1..next : i \in 1..Len(a.entries) /\ (i = next \/ i \in 1..(next - 1)) /\ next \in 1..Len(a.entries)
  BY <1>1, <1>2
<1>5. \A i \in 1..next : more[a.entries[i][1]] = a.entries[i][2]
  BY <1>1, <1>2, <1>3, <1>4
<1> QED
  BY <1>2, <1>3, <1>4, <1>5 DEF Extracting

\* Every step of a restore.
LEMMA RestoringLast ==
  ASSUME LastInv, Restoring
  PROVE  LastPart'
<1>0. CopyInv /\ Intact /\ Writing /\ Reading /\ DatabaseIsLast /\ Phased
  BY DEF LastInv, CopyInv, UpgradeInv, BaseInv
<1>1. UNCHANGED <<instance, gate, backup, archive, points>>
  BY DEF Restoring, RestoreStart, RestoreOpen, RestoreCreate, RestoreWrite, RestoreExtracted, RestoreValidate,
         RestoreClean, RestoreKilled, NewTarget
<1>2. Intact' /\ Writing'
  <2>1. backup.phase \in {"output", "append"} => Unchanged'
    BY <1>0, <1>1, UnchangedStays DEF Writing, instance
  <2> QED
    BY <1>0, <1>1, <2>1 DEF Intact, Writing
<1>3. ASSUME restore'.phase \notin {"open", "extract", "write", "validate", "killed"}
      PROVE  LastPart'
  BY <1>2, <1>3 DEF LastPart, Reading, DatabaseIsLast
<1>4. CASE RestoreStart
  <2>1. restore'.phase = "refused" \/ (restore'.phase = "open" /\ restore'.next = 1)
    BY <1>4 DEF RestoreStart, NoRestore
  <2> QED
    BY <1>2, <1>3, <2>1 DEF LastPart, Reading, DatabaseIsLast
<1>5. CASE RestoreOpen
  <2>1. restore.phase = "open" /\ UNCHANGED target
    BY <1>5 DEF RestoreOpen
  <2>2. DOMAIN target = {} /\ restore.next = 1
    BY <1>0, <2>1 DEF CopyInv, Checked, Reading
  <2>3. CASE archive = Nothing
    <3>1. restore'.phase = "clean"
      BY <1>0, <1>5, <2>3 DEF RestoreOpen, Phased
    <3> QED
      BY <1>3, <3>1
  <2>4. CASE archive # Nothing
    <3>1. PICK a : a = archive
      OBVIOUS
    <3>2. restore'.phase = "extract" /\ restore'.file = a /\ restore'.next = 1
      BY <1>0, <1>5, <2>2, <2>4, <3>1 DEF RestoreOpen, Phased
    <3>3. Whole(a.digest, points) /\ (~a.damaged => Entries(a))
      BY <1>0, <2>4, <3>1 DEF Intact, CopyInv, Archived, Stored
    <3>4. ~a.damaged => Extracting(a, target, 1, 0)
      BY <2>2, <3>3, ExtractingStarts
    <3>5. Last' = 0
      BY <3>2 DEF Last
    <3> QED
      BY <1>1, <1>2, <2>1, <3>2, <3>3, <3>4, <3>5 DEF LastPart, Reading, DatabaseIsLast
  <2> QED
    BY <2>3, <2>4
<1>6. PICK a, files, next, last : a = restore.file /\ files = target /\ next = restore.next /\ last = Last
  OBVIOUS
<1>7. restore.phase \in {"extract", "write", "validate"} /\ ~a.damaged =>
        /\ Extracting(a, files, next, last) /\ Whole(a.digest, points)
        /\ restore.phase = "validate" => next = Len(a.entries) + 1
  BY <1>0, <1>6 DEF Reading
<1>8. CASE RestoreCreate
  <2>1. restore'.phase \in {"write", "clean"}
    BY <1>0, <1>8 DEF RestoreCreate, Phased
  <2>2. CASE restore'.phase = "write"
    <3>1. PICK x, more : /\ x = Entry[1]
                         /\ more = [p \in DOMAIN files \cup {x} |-> IF p = x THEN Partial ELSE files[p]]
      OBVIOUS
    <3>2. /\ restore.phase = "extract" /\ next <= Len(a.entries) /\ x \notin DOMAIN files
          /\ target' = more /\ restore'.file = a /\ restore'.next = next
      BY <1>0, <1>6, <1>8, <2>2, <3>1 DEF RestoreCreate, Phased
    <3>3. x = a.entries[next][1] /\ last = next - 1 /\ Last' = next
      BY <1>6, <2>2, <3>1, <3>2 DEF Entry, Last
    <3>4. ~a.damaged => Extracting(a, more, next, next) /\ Whole(a.digest, points)
      BY ZenonT(40), <1>7, <3>1, <3>2, <3>3, ExtractingCreates
    <3> QED
      BY <1>1, <1>2, <2>2, <3>2, <3>3, <3>4 DEF LastPart, Reading, DatabaseIsLast
  <2> QED
    BY <1>3, <2>1, <2>2
<1>9. CASE RestoreWrite
  <2>1. restore'.phase \in {"extract", "clean"}
    BY <1>0, <1>9 DEF RestoreWrite, Phased
  <2>2. CASE restore'.phase = "extract"
    <3>1. PICK more : more = [files EXCEPT ![a.entries[next][1]] = a.entries[next][2]]
      OBVIOUS
    <3>2. /\ restore.phase = "write" /\ target' = more /\ restore'.file = a /\ restore'.next = next + 1
      BY <1>0, <1>6, <1>9, <2>2, <3>1 DEF RestoreWrite, Phased, Entry
    <3>3. last = next /\ Last' = (next + 1) - 1
      BY <1>6, <2>2, <3>2 DEF Last
    <3>4. ~a.damaged => Extracting(a, more, next + 1, (next + 1) - 1) /\ Whole(a.digest, points)
      <4>1. ~a.damaged => Extracting(a, more, next + 1, next) /\ Whole(a.digest, points) /\ next \in Nat
        BY <1>7, <3>1, <3>2, <3>3, ExtractingWrites, ExtractingHas
      <4>2. next \in Nat => (next + 1) - 1 = next
        OBVIOUS
      <4> QED
        BY <4>1, <4>2
    <3> QED
      BY <1>1, <1>2, <2>2, <3>2, <3>3, <3>4 DEF LastPart, Reading, DatabaseIsLast
  <2> QED
    BY <1>3, <2>1, <2>2
<1>10. CASE RestoreExtracted
  <2>1. restore'.phase \in {"validate", "clean"}
    BY <1>0, <1>10 DEF RestoreExtracted, Phased
  <2>2. CASE restore'.phase = "validate"
    <3>1. /\ restore.phase = "extract" /\ target' = files /\ restore'.file = a /\ restore'.next = next
          /\ next > Len(a.entries)
      BY <1>0, <1>6, <1>10, <2>2 DEF RestoreExtracted, Phased
    <3>2. last = next - 1 /\ Last' = last
      BY <1>6, <2>2, <3>1 DEF Last
    <3>3. ~a.damaged => next = Len(a.entries) + 1
      <4>1. ~a.damaged => Len(a.entries) \in Nat /\ next \in 1..(Len(a.entries) + 1)
        BY <1>7, <3>1, ExtractingHas DEF Extracting
      <4> QED
        BY <3>1, <4>1
    <3> QED
      BY <1>1, <1>2, <1>7, <2>2, <3>1, <3>2, <3>3 DEF LastPart, Reading, DatabaseIsLast
  <2> QED
    BY <1>3, <2>1, <2>2
<1>11. CASE RestoreValidate
  <2>1. restore'.phase \in {"done", "clean"}
    BY <1>0, <1>11 DEF RestoreValidate, Phased
  <2> QED
    BY <1>3, <2>1
<1>12. CASE RestoreClean
  <2>1. restore'.phase \in {"clean", "failed"}
    BY <1>12 DEF RestoreClean, NoRestore
  <2> QED
    BY <1>3, <2>1
<1>13. CASE RestoreKilled
  <2>1. /\ restore.phase \in {"open", "extract", "write", "validate", "clean"} /\ target' = files /\ restore'.file = a
        /\ restore'.phase = IF restore.phase = "clean" THEN "killed cleaning" ELSE "killed"
    BY <1>0, <1>6, <1>13 DEF RestoreKilled, Phased
  <2>2. CASE restore.phase = "clean"
    BY <1>3, <2>1, <2>2
  <2>3. CASE restore.phase # "clean"
    <3>1. restore'.phase = "killed"
      BY <2>1, <2>3
    <3>2. restore.phase = "open" => Database \notin DOMAIN files
      BY <1>0, <1>6 DEF CopyInv, Checked
    <3>3. ASSUME Database \in DOMAIN files, files[Database] # Partial, ~a.damaged
          PROVE  \A r \in files[Database].rows : /\ {Objects(r), Refs(r)} \subseteq DOMAIN files
                                                 /\ Readable(files[Objects(r)], files[Refs(r)])
      <4>1. Extracting(a, files, next, last) /\ Whole(a.digest, points)
        BY <1>7, <2>1, <2>3, <3>2, <3>3
      <4> QED
        BY <3>3, <4>1, KilledLast
    <3>4. DatabaseIsLast'
      BY <2>1, <3>3 DEF DatabaseIsLast
    <3> QED
      BY <1>2, <3>1, <3>4 DEF LastPart, Reading
  <2> QED
    BY <2>2, <2>3
<1>14. CASE NewTarget
  <2>1. restore'.phase = "idle"
    BY <1>14 DEF NewTarget, NoRestore
  <2> QED
    BY <1>3, <2>1
<1> QED
  BY <1>4, <1>5, <1>8, <1>9, <1>10, <1>11, <1>12, <1>13, <1>14 DEF Restoring

\* The entries and the extracted files of every reachable state.
THEOREM LastInvariant == Spec => []LastInv
<1>1. Init => LastPart
  BY DEF Init, LastPart, Intact, Writing, Reading, DatabaseIsLast, NoBackup, NoRestore
<1>2. LastInv /\ [Next]_vars => LastPart'
  <2>1. ASSUME LastInv, UNCHANGED vars PROVE LastPart'
    <3>1. UNCHANGED <<restore, target, points, archive, backup, tree>> /\ CopyInv /\ Reading /\ DatabaseIsLast
          /\ Intact /\ Writing
      BY <2>1 DEF vars, instance, LastInv
    <3>2. Reading' /\ DatabaseIsLast'
      BY <3>1, ReadingStays
    <3>3. backup.phase \in {"output", "append"} => Unchanged'
      BY <3>1, UnchangedStays DEF Writing
    <3> QED
      BY <3>1, <3>2, <3>3 DEF LastPart, Intact, Writing
  <2> QED
    BY <2>1, ServingLast, CollectLast, OutputLast, AppendLast, EndLast, MediumLast, RestoringLast
       DEF Next, BackingUp
<1> QED
  BY <1>1, <1>2, CopyInvariant, PTL DEF Spec, LastInv, LastPart

\* However a restore is killed: an instance that has a database has everything that
\* the database speaks of, because the archive is sorted and restored in its order.
THEOREM LastTheorem == Spec => []DatabaseIsLast
  BY LastInvariant, PTL DEF LastInv

\* An archive that was completed, not damaged and not edited is accepted by
\* expected_files and verify_archive.
LEMMA FitVerified ==
  ASSUME LastInv, archive # Nothing, ~Unfit(archive)
  PROVE  Verified
<1>1. PICK a, n, s : a = archive /\ n = Cardinality(DOMAIN a.digest) /\ s = InOrder(DOMAIN a.digest)
  OBVIOUS
<1>2. Entries(a) /\ Whole(a.digest, points) /\ a.success /\ ~a.edited
  BY <1>1 DEF LastInv, Intact, CopyInv, Archived, Stored, Unfit
<1>3. \A i \in 1..n : s[i] \in DOMAIN a.digest
  BY <1>1, <1>2, WholeOrder
<1>4. {Config, Database} \subseteq DOMAIN a.digest
  BY <1>1, <1>2, WholeOrder
<1>5. /\ IsSeq(a.entries) /\ Len(a.entries) = n
      /\ \A i \in 1..n : a.entries[i][1] = s[i] /\ a.entries[i][2] = a.digest[s[i]]
  BY <1>1, <1>2 DEF Entries
<1>6. DOMAIN a.entries = 1..n
  BY <1>5, SeqHas
<1> QED
  BY <1>1, <1>3, <1>4, <1>5, <1>6 DEF Verified

\* extract_archive and validate_restored_instance accept it too, when it is still the
\* archive that was verified.
LEMMA FitRestores ==
  ASSUME LastInv, Restoring, restore'.phase = "clean", restore.phase # "clean",
         ~Unfit(restore.file), restore.file.digest = restore.digest
  PROVE  FALSE
<1>0. CopyInv /\ Reading /\ Phased
  BY DEF LastInv, CopyInv, UpgradeInv, BaseInv
<1>1. PICK a, files, next, last : a = restore.file /\ files = target /\ next = restore.next /\ last = Last
  OBVIOUS
<1>2. a # Nothing /\ a.success /\ ~a.edited /\ ~a.damaged /\ a.digest[Database].version = binary
  BY <1>1 DEF Unfit
<1>3. CASE RestoreStart \/ RestoreOpen
  <2>1. ~RestoreStart
    BY DEF RestoreStart, NoRestore
  <2>2. restore.phase = "open"
    BY <1>3, <2>1 DEF RestoreOpen
  <2>3. restore.file = Nothing
    BY <1>0, <2>2 DEF CopyInv, Checked
  <2> QED
    BY <1>1, <1>2, <2>3
<1>4. CASE restore.phase \in {"extract", "write", "validate"}
  <2>1. Extracting(a, files, next, last) /\ Whole(a.digest, points)
    BY <1>0, <1>1, <1>2, <1>4 DEF Reading
  <2>2. PICK n, s : n = Cardinality(DOMAIN a.digest) /\ s = InOrder(DOMAIN a.digest)
    OBVIOUS
  <2>3. /\ n \in Nat /\ next \in Nat \ {0} /\ Len(a.entries) = n
        /\ \A i \in 1..n : /\ a.entries[i][1] = s[i] /\ a.entries[i][1] \in DOMAIN a.digest
                           /\ a.entries[i][2] = a.digest[a.entries[i][1]]
        /\ \A i, j \in 1..n : a.entries[i][1] = a.entries[j][1] => i = j
    <3>1. /\ Len(a.entries) = n
          /\ \A i \in 1..n : a.entries[i][1] = s[i] /\ a.entries[i][2] = a.digest[s[i]]
      BY <1>2, <2>1, <2>2 DEF Extracting, Entries
    <3> QED
      BY ZenonT(40), <2>1, <2>2, <3>1, ExtractingHas
  <2>4. /\ last <= n /\ \A i \in 1..last : a.entries[i][1] \in DOMAIN files
        /\ \A p \in DOMAIN files : \E i \in 1..last : p = a.entries[i][1]
        /\ next \in 1..(n + 1)
    BY <2>1, <2>3 DEF Extracting
  <2>5. CASE RestoreCreate
    <3>1. PICK x : x = a.entries[next][1]
      OBVIOUS
    <3>2. /\ restore.phase = "extract" /\ next <= Len(a.entries)
          /\ ~(x \in DOMAIN a.digest \ DOMAIN files)
      BY <1>0, <1>1, <2>5, <3>1 DEF RestoreCreate, Entry, Phased
    <3>3. last = next - 1 /\ next \in 1..n
      BY <1>1, <2>3, <3>2 DEF Last
    <3>4. x \in DOMAIN files
      BY <2>3, <3>1, <3>2, <3>3
    <3>5. PICK i \in 1..last : x = a.entries[i][1]
      BY <2>4, <3>4
    <3>6. i \in 1..n /\ i # next
      BY <2>3, <3>3
    <3> QED
      BY <2>3, <3>1, <3>3, <3>5, <3>6
  <2>6. CASE RestoreWrite
    <3>1. restore.phase = "write" /\ a.entries[next][2] # a.digest[a.entries[next][1]]
      BY <1>0, <1>1, <2>6 DEF RestoreWrite, Entry, Phased
    <3>2. last = next
      BY <1>1, <3>1 DEF Last
    <3>3. next \in 1..n
      BY <2>3, <2>4, <3>2
    <3> QED
      BY <2>3, <3>1, <3>3
  <2>7. CASE RestoreExtracted
    <3>1. restore.phase = "extract" /\ next > Len(a.entries) /\ DOMAIN files # DOMAIN a.digest
      BY <1>0, <1>1, <2>7 DEF RestoreExtracted, Phased
    <3>2. last = next - 1
      BY <1>1, <3>1 DEF Last
    <3>3. last = n
      BY <2>3, <2>4, <3>1, <3>2
    <3>4. \A p \in DOMAIN a.digest : \E i \in 1..n : s[i] = p
      BY SMTT(30), <2>1, <2>2, WholeOrder
    <3>5. ASSUME NEW p \in DOMAIN a.digest PROVE p \in DOMAIN files
      <4>1. PICK i \in 1..n : s[i] = p
        BY <3>4
      <4> QED
        BY <2>3, <2>4, <3>3, <4>1
    <3>6. ASSUME NEW p \in DOMAIN files PROVE p \in DOMAIN a.digest
      <4>1. PICK i \in 1..last : p = a.entries[i][1]
        BY <2>4
      <4> QED
        BY <2>3, <3>3, <4>1
    <3> QED
      BY <3>1, <3>5, <3>6
  <2>8. CASE RestoreValidate
    <3>1. restore.phase = "validate" /\ ~Valid
      BY <1>0, <2>8 DEF RestoreValidate, Phased
    <3>2. DOMAIN target = DOMAIN a.digest /\ \A p \in DOMAIN target : target[p] = a.digest[p]
      BY <1>0, <1>1, <3>1 DEF CopyInv, Checked
    <3>3. /\ \A r \in a.digest[Database].rows : /\ Objects(r) \in DOMAIN a.digest /\ Refs(r) \in DOMAIN a.digest
                                                /\ Readable(a.digest[Objects(r)], a.digest[Refs(r)])
          /\ Database \in DOMAIN a.digest
      BY <2>1, WholeOrder DEF Whole
    <3>4. Valid
      BY <1>2, <3>2, <3>3 DEF Valid
    <3> QED
      BY <3>1, <3>4
  <2>9. ~RestoreClean /\ ~NewTarget /\ ~RestoreKilled /\ ~RestoreStart /\ ~RestoreOpen
    <3>1. ~RestoreClean /\ ~RestoreStart /\ ~RestoreOpen
      BY <1>4 DEF RestoreClean, RestoreStart, RestoreOpen
    <3>2. ASSUME NewTarget PROVE FALSE
      <4>1. restore'.phase = "idle"
        BY <3>2 DEF NewTarget, NoRestore
      <4> QED
        BY <4>1
    <3>3. ~RestoreKilled
      BY <1>0 DEF RestoreKilled, Phased
    <3> QED
      BY <3>1, <3>2, <3>3
  <2> QED
    BY <2>5, <2>6, <2>7, <2>8, <2>9 DEF Restoring
<1>5. CASE restore.phase \notin {"extract", "write", "validate"}
  <2>1. ~RestoreCreate /\ ~RestoreWrite /\ ~RestoreExtracted /\ ~RestoreValidate /\ ~RestoreClean
    BY <1>5 DEF RestoreCreate, RestoreWrite, RestoreExtracted, RestoreValidate, RestoreClean
  <2>2. ASSUME NewTarget PROVE FALSE
    <3>1. restore'.phase = "idle"
      BY <2>2 DEF NewTarget, NoRestore
    <3> QED
      BY <3>1
  <2>3. ~RestoreKilled
    BY <1>0 DEF RestoreKilled, Phased
  <2> QED
    BY <1>3, <2>1, <2>2, <2>3 DEF Restoring
<1> QED
  BY <1>4, <1>5

\* A backup that reported success restores: `tit restore` refuses or gives up only for
\* what happened to the archive, another version, or an edit during the backup.
THEOREM SuccessTheorem == Spec => SuccessRestores
<1>1. LastInv /\ [Next]_vars =>
        [ restore'.phase \in {"refused", "clean"} /\ restore.phase # restore'.phase =>
            \/ Unfit(IF restore'.phase = "clean" THEN restore.file ELSE archive)
            \/ restore'.phase = "clean" /\ restore.file.digest # restore.digest ]_vars
  <2> SUFFICES ASSUME LastInv, Next, restore'.phase \in {"refused", "clean"}, restore.phase # restore'.phase
               PROVE  \/ Unfit(IF restore'.phase = "clean" THEN restore.file ELSE archive)
                      \/ restore'.phase = "clean" /\ restore.file.digest # restore.digest
    OBVIOUS
  <2>0. Phased
    BY DEF LastInv, CopyInv, UpgradeInv, BaseInv
  <2>1. Restoring
    BY DEF Next, Serving, Start, Migrate, Stop, Upgrade, Kill, CreateDirectory, CreateRow, CreateRefused,
           PushObjects, PushRefs, Note, EditConfig, BackingUp, BackupCopy, BackupCollect, BackupOutput,
           BackupAppend, BackupFinish, BackupFails, Medium, Damage, RemoveArchive
  <2>2. CASE restore'.phase = "clean"
    BY <2>1, <2>2, FitRestores
  <2>3. CASE restore'.phase = "refused"
    <3>1. RestoreStart
      <4>1. ~RestoreOpen /\ ~RestoreCreate
        BY <2>0, <2>3 DEF RestoreOpen, RestoreCreate, Phased
      <4>2. ~RestoreWrite /\ ~RestoreExtracted
        BY <2>0, <2>3 DEF RestoreWrite, RestoreExtracted, Phased
      <4>3. ~RestoreValidate /\ ~RestoreKilled
        BY <2>0, <2>3 DEF RestoreValidate, RestoreKilled, Phased
      <4>4. ASSUME RestoreClean \/ NewTarget PROVE FALSE
        <5>1. restore'.phase \in {"clean", "failed", "idle"}
          <6>1. CASE RestoreClean
            BY <6>1 DEF RestoreClean, NoRestore
          <6>2. CASE NewTarget
            BY <6>2 DEF NewTarget, NoRestore
          <6> QED
            BY <4>4, <6>1, <6>2
        <5> QED
          BY <2>3, <5>1
      <4> QED
        BY <2>1, <4>1, <4>2, <4>3, <4>4 DEF Restoring
    <3>2. archive # Nothing /\ ~Verified
      BY <2>3, <3>1 DEF RestoreStart, NoRestore
    <3>3. Unfit(archive)
      BY <3>2, FitVerified
    <3> QED
      BY <2>3, <3>3
  <2> QED
    BY <2>2, <2>3
<1> QED
  BY <1>1, LastInvariant, PTL DEF Spec, SuccessRestores

=============================================================================
