--------------------------- MODULE BackupRestore ---------------------------
(***************************************************************************)
(* Backup, restore and schema upgrades of one instance directory.          *)
(*                                                                         *)
(* A backup holds the maintenance gate (online) or the instance lock       *)
(* (offline), copies the database, lists and hashes every file, and then   *)
(* reads every file once more into the archive.  A restore verifies the    *)
(* archive, extracts it file by file into an empty directory, checks the   *)
(* result and empties the directory again when anything is wrong.  The     *)
(* database is migrated in three transactions when it is opened by a newer *)
(* executable.  Each process can be killed between any two steps.          *)
(*                                                                         *)
(* Sources: src/backup.rs, src/maintenance.rs, src/repository.rs,          *)
(* src/store/mod.rs (open, migrate_with_hook, doctor).                     *)
(*                                                                         *)
(* A repository directory is two files: its objects, a number of commits,  *)
(* and its refs, the newest of them.  A digest is the content it is of.    *)
(* The host key is a file like the configuration, and left out.  Who holds *)
(* the gate or the lock is worked out in ServerLifecycle.                  *)
(***************************************************************************)
EXTENDS Integers, Sequences, FiniteSets

CONSTANTS
  Repos,      \* identifiers of repositories, numbers, in the order of their names
  Nothing,    \* no file, no archive, no sense
  Partial,    \* a file that is not written to its end
  MaxPushes,  \* bound on the commits of a repository
  MaxNotes,   \* bound on changes to the database alone
  MaxBackups, \* bound on backups of different states
  MaxFaults   \* bound on kills, errors, edits of the configuration and damage

ASSUME BoundAssumption ==
  /\ Repos \subseteq Nat
  /\ {MaxPushes, MaxNotes, MaxBackups, MaxFaults} \subseteq Nat

\* A repository directory is not the absence of one.
ASSUME NothingAssumption == Nothing \notin [objects : Nat, refs : Nat]

SchemaVersion == 26
OldVersion == 23

VARIABLES
  binary,   \* the schema version of the executable
  server,   \* "stopped", "migrating" or "serving"
  db,       \* the database: rows, other contents, user_version
  saved,    \* the files tit.sqlite3.v<version>.backup
  tree,     \* the repository directories
  config,   \* the contents of config.toml
  gate,     \* who keeps the others out: "free", "push", "create" or "backup"
  backup,   \* the backup that runs
  archive,  \* the archive file
  restore,  \* the restore that runs, or what became of the last one
  target,   \* the files in the directory restored to
  faults,   \* what went wrong so far
  points    \* history: what the instance was each time a backup copied the database

instance == <<binary, server, db, saved, tree, config>>
vars == <<instance, gate, backup, archive, restore, target, faults, points>>

-----------------------------------------------------------------------------
\* Paths of the archive
Config == <<"config.toml">>
Objects(r) == <<"repositories", r, "objects">>
Refs(r) == <<"repositories", r, "refs">>
Database == <<"tit.sqlite3">>
Present == {r \in Repos : tree[r] # Nothing}
Files(ids) == {Config, Database} \cup {Objects(r) : r \in ids} \cup {Refs(r) : r \in ids}

\* The byte order of the paths, and the files in this order: each has its place
\* from the number of files before it.
Before(p, q) ==
  /\ p # q
  /\ \/ p = Config \/ q = Database
     \/ /\ Len(p) = 3 /\ Len(q) = 3
        /\ p[2] < q[2] \/ (p[2] = q[2] /\ p[3] = "objects")
Place(p, files) == Cardinality({q \in files : Before(q, p)}) + 1
InOrder(files) == [i \in 1..Cardinality(files) |-> CHOOSE p \in files : Place(p, files) = i]

\* What a read of the source file of a path finds now
Content(path) ==
  CASE path = Config -> config
    [] path = Database -> backup.copy
    [] Len(path) = 3 /\ path[3] = "objects" -> tree[path[2]].objects
    [] Len(path) = 3 /\ path[3] = "refs" -> tree[path[2]].refs

\* integrity_check: everything the refs reach is there.
Readable(objects, refs) == refs <= objects

Fault == faults < MaxFaults /\ faults' = faults + 1

\* The state that a copy is a copy of
View == [rows |-> db.rows, notes |-> db.notes, trees |-> [r \in db.rows |-> tree[r]]]

NoBackup == [phase |-> "idle", copy |-> Nothing, files |-> <<>>, digest |-> <<>>]
NoRestore == [phase |-> "idle", file |-> Nothing, next |-> 1, digest |-> <<>>]

Init ==
  /\ binary \in {OldVersion, SchemaVersion}
  /\ server = "stopped"
  /\ db = [rows |-> {}, notes |-> 0, version |-> binary]
  /\ saved = [v \in OldVersion..SchemaVersion |-> Nothing]
  /\ tree = [r \in Repos |-> Nothing]
  /\ config = 0
  /\ gate = <<"free">>
  /\ backup = NoBackup
  /\ archive = Nothing
  /\ restore = NoRestore
  /\ target = <<>>
  /\ faults = 0
  /\ points = {}

-----------------------------------------------------------------------------
(***************************************************************************)
(* The server                                                              *)
(***************************************************************************)

StartOneName ==
  /\ server = "stopped" /\ backup.phase = "idle"
  /\ db.version <= binary
  /\ IF db.version = binary
       THEN server' = "serving" /\ UNCHANGED saved
       ELSE server' = "migrating" /\ saved' = [saved EXCEPT ![OldVersion] = db]
  /\ UNCHANGED <<binary, db, tree, config, gate, backup, archive, restore, target, faults, points>>

\* Store::open at startup: an older database is copied aside and migrated, a
\* newer one is refused.  The copy goes 128 pages at a time; SQLite's backup writes
\* them in one transaction of the destination file, so a kill in the middle leaves
\* what was there before and the copy is one step.
Start ==
  /\ server = "stopped" /\ backup.phase = "idle"
  /\ db.version <= binary
  /\ IF db.version = binary
       THEN server' = "serving" /\ UNCHANGED saved
       ELSE server' = "migrating" /\ saved' = [saved EXCEPT ![db.version] = db]
  /\ UNCHANGED <<binary, db, tree, config, gate, backup, archive, restore, target, faults, points>>

\* migrate_with_hook: up to version 24 in one transaction, 25 in its own with
\* foreign keys off, the rest in a third.
NextVersion(v) == CASE v < 24 -> 24 [] v = 24 -> 25 [] v > 24 -> SchemaVersion
Migrate ==
  /\ server = "migrating"
  /\ db' = [db EXCEPT !.version = NextVersion(@)]
  /\ server' = IF db'.version = binary THEN "serving" ELSE "migrating"
  /\ UNCHANGED <<binary, saved, tree, config, gate, backup, archive, restore, target, faults, points>>

Stop ==
  /\ server = "serving" /\ gate = <<"free">>
  /\ server' = "stopped"
  /\ UNCHANGED <<binary, db, saved, tree, config, gate, backup, archive, restore, target, faults, points>>

\* A new executable is installed.
Upgrade ==
  /\ server = "stopped" /\ backup.phase = "idle"
  /\ binary < SchemaVersion
  /\ binary' = SchemaVersion
  /\ UNCHANGED <<server, db, saved, tree, config, gate, backup, archive, restore, target, faults, points>>

\* The server, or an offline backup, is killed: what is on the disk stays.
Kill ==
  /\ Fault
  /\ server # "stopped" \/ backup.phase # "idle"
  /\ server' = "stopped"
  /\ gate' = <<"free">>
  /\ backup' = NoBackup
  /\ UNCHANGED <<binary, db, saved, tree, config, archive, restore, target, points>>

\* RepositoryService::create: the directory, then the row; a refused row takes
\* the directory away again.
CreateDirectory(r) ==
  /\ server = "serving" /\ gate = <<"free">>
  /\ tree[r] = Nothing
  /\ gate' = <<"create", r>>
  /\ tree' = [tree EXCEPT ![r] = [objects |-> 0, refs |-> 0]]
  /\ UNCHANGED <<binary, server, db, saved, config, backup, archive, restore, target, faults, points>>

CreateRow(r) ==
  /\ gate = <<"create", r>>
  /\ db' = [db EXCEPT !.rows = @ \cup {r}]
  /\ gate' = <<"free">>
  /\ UNCHANGED <<binary, server, saved, tree, config, backup, archive, restore, target, faults, points>>

CreateRefused(r) ==
  /\ gate = <<"create", r>>
  /\ tree' = [tree EXCEPT ![r] = Nothing]
  /\ gate' = <<"free">>
  /\ UNCHANGED <<binary, server, db, saved, config, backup, archive, restore, target, faults, points>>

\* A push or merge: objects, then refs (GitOperations)
PushObjects(r) ==
  /\ server = "serving" /\ gate = <<"free">>
  /\ r \in db.rows /\ tree[r].objects < MaxPushes
  /\ gate' = <<"push", r>>
  /\ tree' = [tree EXCEPT ![r].objects = @ + 1]
  /\ UNCHANGED <<binary, server, db, saved, config, backup, archive, restore, target, faults, points>>

PushRefs(r) ==
  /\ gate = <<"push", r>>
  /\ tree' = [tree EXCEPT ![r].refs = tree[r].objects]
  /\ gate' = <<"free">>
  /\ UNCHANGED <<binary, server, db, saved, config, backup, archive, restore, target, faults, points>>

\* Issues, accounts and settings change the database and take no gate.
Note ==
  /\ server = "serving"
  /\ db.notes < MaxNotes
  /\ db' = [db EXCEPT !.notes = @ + 1]
  /\ UNCHANGED <<binary, server, saved, tree, config, gate, backup, archive, restore, target, faults, points>>

EditConfig ==
  /\ Fault
  /\ config' = config + 1
  /\ UNCHANGED <<binary, server, db, saved, tree, gate, backup, archive, restore, target, points>>

-----------------------------------------------------------------------------
(***************************************************************************)
(* create_archive                                                          *)
(***************************************************************************)

BackupCopyBeforeGate ==
  /\ server # "migrating" /\ db.version = binary
  /\ \/ /\ backup.phase = "idle"
        /\ Cardinality(points \cup {View}) <= MaxBackups
        /\ backup' = [NoBackup EXCEPT !.phase = "copied", !.copy = db]
        /\ points' = points \cup {View}
        /\ UNCHANGED gate
     \/ /\ backup.phase = "copied" /\ gate = <<"free">>
        /\ gate' = <<"backup">>
        /\ backup' = [backup EXCEPT !.phase = "collect"]
        /\ UNCHANGED points
  /\ UNCHANGED <<instance, archive, restore, target, faults>>

\* The gate or the lock, then Store::backup into the temporary file.  Opening an
\* older database migrates it first: that is Start and Migrate.
BackupCopy ==
  /\ backup.phase = "idle" /\ server # "migrating"
  /\ gate = <<"free">>
  /\ db.version = binary
  /\ Cardinality(points \cup {View}) <= MaxBackups
  /\ gate' = <<"backup">>
  /\ backup' = [NoBackup EXCEPT !.phase = "collect", !.copy = db]
  /\ points' = points \cup {View}
  /\ UNCHANGED <<instance, archive, restore, target, faults>>

BackupCollectUnsorted ==
  /\ backup.phase = "collect"
  /\ LET files == Files(Present) IN
     backup' = [backup EXCEPT !.phase = "output",
                              !.files = <<Config, Database>> \o SubSeq(InOrder(files), 2, Cardinality(files) - 1),
                              !.digest = [p \in files |-> Content(p)]]
  /\ UNCHANGED <<instance, gate, archive, restore, target, faults, points>>

BackupCollectLive ==
  /\ backup.phase = "collect"
  /\ LET files == Files(Present) IN
     backup' = [backup EXCEPT !.phase = "output", !.files = InOrder(files),
                              !.digest = [p \in files |-> IF p = Database THEN db ELSE Content(p)]]
  /\ UNCHANGED <<instance, gate, archive, restore, target, faults, points>>

\* add_file and collect_repository_files, the sort and the manifest
BackupCollect ==
  /\ backup.phase = "collect"
  /\ LET files == Files(Present) IN
     backup' = [backup EXCEPT !.phase = "output", !.files = InOrder(files),
                              !.digest = [p \in files |-> Content(p)]]
  /\ UNCHANGED <<instance, gate, archive, restore, target, faults, points>>

BackupEnds == backup' = NoBackup /\ gate' = <<"free">>

\* create_new: a file that exists is refused and kept.
BackupOutput ==
  /\ backup.phase = "output"
  /\ IF archive = Nothing
       THEN /\ archive' = [digest |-> backup.digest, entries |-> <<>>, success |-> FALSE,
                           edited |-> FALSE, damaged |-> FALSE]
            /\ backup' = [backup EXCEPT !.phase = "append"]
            /\ UNCHANGED gate
       ELSE BackupEnds /\ UNCHANGED archive
  /\ UNCHANGED <<instance, restore, target, faults, points>>

\* One file is read again and appended; `edited` remembers that the configuration
\* had changed since it was hashed.
BackupAppend ==
  /\ backup.phase = "append" /\ backup.files # <<>>
  /\ LET p == Head(backup.files) IN
     archive' = [archive EXCEPT !.entries = Append(@, <<p, Content(p)>>),
                                !.edited = @ \/ (p = Config /\ backup.digest[p] # Content(p))]
  /\ backup' = [backup EXCEPT !.files = Tail(@)]
  /\ UNCHANGED <<instance, gate, restore, target, faults, points>>

BackupFinish ==
  /\ backup.phase = "append" /\ backup.files = <<>>
  /\ archive' = [archive EXCEPT !.success = TRUE]
  /\ BackupEnds
  /\ UNCHANGED <<instance, restore, target, faults, points>>

\* An error of the collection leaves the output path alone; an error while the
\* archive is written removes it.
BackupFails ==
  /\ Fault
  /\ backup.phase # "idle"
  /\ archive' = IF backup.phase = "append" THEN Nothing ELSE archive
  /\ BackupEnds
  /\ UNCHANGED <<instance, restore, target, points>>

\* The medium: an entry is altered or lost, or the operator removes the archive.
Damage ==
  /\ Fault
  /\ archive # Nothing /\ backup.phase # "append"
  /\ \E i \in DOMAIN archive.entries :
       archive' \in { [archive EXCEPT !.entries[i][2] = Nothing, !.damaged = TRUE],
                      [archive EXCEPT !.entries = SubSeq(@, 1, i - 1) \o SubSeq(@, i + 1, Len(@)), !.damaged = TRUE] }
  /\ UNCHANGED <<instance, gate, backup, restore, target, points>>

RemoveArchive ==
  /\ Fault
  /\ archive # Nothing /\ backup.phase # "append"
  /\ archive' = Nothing
  /\ UNCHANGED <<instance, gate, backup, restore, target, points>>

-----------------------------------------------------------------------------
(***************************************************************************)
(* restore                                                                 *)
(***************************************************************************)

\* expected_files and verify_archive
Verified ==
  /\ {Config, Database} \subseteq DOMAIN archive.digest
  /\ \A i \in DOMAIN archive.entries :
       LET p == archive.entries[i][1] IN
       p \in DOMAIN archive.digest /\ archive.entries[i][2] = archive.digest[p]
  /\ Len(archive.entries) = Cardinality(DOMAIN archive.digest)

\* Nothing is written before the archive is verified.  read_manifest and
\* verify_archive open the path one after the other; here they see the same file.
RestoreStart ==
  /\ restore.phase \in {"idle", "refused", "failed"}
  /\ archive # Nothing
  /\ target = <<>>
  /\ restore' = IF Verified THEN [NoRestore EXCEPT !.phase = "open", !.digest = archive.digest]
                            ELSE [NoRestore EXCEPT !.phase = "refused"]
  /\ UNCHANGED <<instance, gate, backup, archive, target, faults, points>>

\* extract_archive opens the path once more: it may be another file by now.
RestoreOpen ==
  /\ restore.phase = "open"
  /\ restore' = IF archive = Nothing THEN [restore EXCEPT !.phase = "clean"]
                ELSE [restore EXCEPT !.phase = "extract", !.file = archive]
  /\ UNCHANGED <<instance, gate, backup, archive, target, faults, points>>

\* A file is created, written, synchronised and hashed again.
Entry == restore.file.entries[restore.next]
RestoreCreate ==
  /\ restore.phase = "extract"
  /\ restore.next <= Len(restore.file.entries)
  /\ IF Entry[1] \in DOMAIN restore.digest \ DOMAIN target
       THEN /\ target' = [p \in DOMAIN target \cup {Entry[1]} |-> IF p = Entry[1] THEN Partial ELSE target[p]]
            /\ restore' = [restore EXCEPT !.phase = "write"]
       ELSE /\ restore' = [restore EXCEPT !.phase = "clean"]
            /\ UNCHANGED target
  /\ UNCHANGED <<instance, gate, backup, archive, faults, points>>

RestoreWrite ==
  /\ restore.phase = "write"
  /\ target' = [target EXCEPT ![Entry[1]] = Entry[2]]
  /\ restore' = [restore EXCEPT !.phase = IF Entry[2] = restore.digest[Entry[1]] THEN "extract" ELSE "clean",
                                !.next = @ + 1]
  /\ UNCHANGED <<instance, gate, backup, archive, faults, points>>

\* An entry that the manifest has is missing, or everything was extracted.
RestoreExtracted ==
  /\ restore.phase = "extract"
  /\ restore.next > Len(restore.file.entries)
  /\ restore' = [restore EXCEPT !.phase = IF DOMAIN target = DOMAIN restore.digest THEN "validate" ELSE "clean"]
  /\ UNCHANGED <<instance, gate, backup, archive, target, faults, points>>

\* validate_restored_instance: store::doctor accepts its own schema version only,
\* and every row has a repository that can be read.
Valid ==
  /\ target[Database].version = binary
  /\ \A r \in target[Database].rows :
       /\ {Objects(r), Refs(r)} \subseteq DOMAIN target
       /\ Readable(target[Objects(r)], target[Refs(r)])

RestoreValidate ==
  /\ restore.phase = "validate"
  /\ restore' = [restore EXCEPT !.phase = IF Valid THEN "done" ELSE "clean"]
  /\ UNCHANGED <<instance, gate, backup, archive, target, faults, points>>

\* remove_directory_contents, in the order in which the directory is read
RestoreClean ==
  /\ restore.phase = "clean"
  /\ \/ \E p \in DOMAIN target :
          /\ target' = [f \in DOMAIN target \ {p} |-> target[f]]
          /\ UNCHANGED restore
     \/ /\ target = <<>>
        /\ restore' = [NoRestore EXCEPT !.phase = "failed"]
        /\ UNCHANGED target
  /\ UNCHANGED <<instance, gate, backup, archive, faults, points>>

RestoreKilled ==
  /\ Fault
  /\ restore.phase \in {"open", "extract", "write", "validate", "clean"}
  /\ restore' = [restore EXCEPT !.phase = IF restore.phase = "clean" THEN "killed cleaning" ELSE "killed"]
  /\ UNCHANGED <<instance, gate, backup, archive, target, points>>

\* The operator takes a new, empty directory.
NewTarget ==
  /\ restore.phase \in {"done", "killed", "killed cleaning"}
  /\ target' = <<>>
  /\ restore' = NoRestore
  /\ UNCHANGED <<instance, gate, backup, archive, faults, points>>

-----------------------------------------------------------------------------
Serving ==
  \/ Start \/ Migrate \/ Stop \/ Upgrade \/ Kill
  \/ \E r \in Repos : CreateDirectory(r) \/ CreateRow(r) \/ CreateRefused(r) \/ PushObjects(r) \/ PushRefs(r)
  \/ Note \/ EditConfig
BackingUp ==
  BackupCopy \/ BackupCollect \/ BackupOutput \/ BackupAppend \/ BackupFinish \/ BackupFails
Medium == Damage \/ RemoveArchive
Restoring ==
  \/ RestoreStart \/ RestoreOpen \/ RestoreCreate \/ RestoreWrite \/ RestoreExtracted
  \/ RestoreValidate \/ RestoreClean \/ RestoreKilled \/ NewTarget

Next == Serving \/ BackingUp \/ Medium \/ Restoring

Spec == Init /\ [][Next]_vars

-----------------------------------------------------------------------------
Trees == [objects : Nat, refs : Nat]
Databases == [rows : SUBSET Repos, notes : 0..MaxNotes, version : OldVersion..SchemaVersion]

TypeOK ==
  /\ binary \in {OldVersion, SchemaVersion} /\ server \in {"stopped", "migrating", "serving"}
  /\ db \in Databases
  /\ saved \in [OldVersion..SchemaVersion -> Databases \cup {Nothing}]
  /\ tree \in [Repos -> Trees \cup {Nothing}]
  /\ gate \in {<<"free">>, <<"backup">>} \cup ({"push", "create"} \X Repos)
  /\ faults \in 0..MaxFaults /\ config \in 0..faults
  /\ backup.phase \in {"idle", "collect", "output", "append"}
  /\ restore.phase \in {"idle", "refused", "open", "extract", "write", "validate", "clean", "done", "failed",
                        "killed", "killed cleaning"}

\* What a finished restore has installed
Restored ==
  IF restore.phase # "done" THEN Nothing
  ELSE LET d == target[Database] IN
       [rows |-> d.rows, notes |-> d.notes,
        trees |-> [r \in d.rows |-> [objects |-> target[Objects(r)], refs |-> target[Refs(r)]]]]

Copy == INSTANCE AtomicCopy WITH source <- View, taken <- points, installed <- Restored

(***************************************************************************)
(* Backup and restore implement AtomicCopy: whatever is pushed, created,   *)
(* edited, damaged or killed meanwhile, a finished restore has installed   *)
(* the database and the repositories as they were together at one moment,  *)
(* and an unfinished one has installed nothing.                            *)
(***************************************************************************)
CopyIsAtomic == Copy!Spec

(***************************************************************************)
(* A backup that reported success can be restored: a restore is refused or *)
(* fails only when the archive was damaged, removed or replaced meanwhile, *)
(* is the rest of a backup that did not finish, was taken with another     *)
(* schema version, or has a file that changed between its hash and its     *)
(* copy (config.toml has no gate).                                         *)
(***************************************************************************)
Unfit(file) ==
  \/ file = Nothing
  \/ ~file.success \/ file.edited \/ file.damaged
  \/ file.digest[Database].version # binary
SuccessRestores ==
  [][ restore'.phase \in {"refused", "clean"} /\ restore.phase # restore'.phase =>
        \/ Unfit(IF restore'.phase = "clean" THEN restore.file ELSE archive)
        \/ restore'.phase = "clean" /\ restore.file.digest # restore.digest ]_vars

(***************************************************************************)
(* A restore that was killed is not mistaken for a finished one: when the  *)
(* database is in the directory, so is everything it speaks of, because it *)
(* is the last file of the archive.  Only a medium that loses a file while *)
(* it is read, or a kill while a failed restore empties the directory      *)
(* again, can leave a database on its own.                                 *)
(***************************************************************************)
DatabaseIsLast ==
  /\ restore.phase = "killed" /\ Database \in DOMAIN target
  /\ target[Database] # Partial /\ ~restore.file.damaged
  =>
    \A r \in target[Database].rows :
      /\ {Objects(r), Refs(r)} \subseteq DOMAIN target
      /\ Readable(target[Objects(r)], target[Refs(r)])

(***************************************************************************)
(* An upgrade that was interrupted any number of times keeps the database  *)
(* as it was before it, under the name of its version, and loses nothing.  *)
(***************************************************************************)
UpgradeKeepsOld ==
  binary = SchemaVersion /\ saved[OldVersion] # Nothing =>
    /\ saved[OldVersion].version = OldVersion
    /\ saved[OldVersion].rows \subseteq db.rows
    /\ db.version > OldVersion \/ saved[OldVersion] = db
=============================================================================
