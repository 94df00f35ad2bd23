--------------------------- MODULE BackupRecovery ---------------------------
(* Backups of the one database and their restoration                        *)
(* (agents/sys_admin/backup_recovery.py, sysadmin_store.py).  The list of    *)
(* backups is a table of the very database that is backed up, so a restore   *)
(* also takes the list back.  The symbol loops go on writing meanwhile, and  *)
(* the database or the process of the operator may break at any time.        *)
EXTENDS Naturals, Sequences

CONSTANTS Retention,  \* SYS_ADMIN_BACKUP_RETENTION_COUNT
          MaxRows, MaxBackups, \* rows written, backup files made
          MaxFaults,  \* damages of the database and deaths of the process
          Nothing

VARIABLES live,   \* the database: how it is, its rows, its table of backups
          files,  \* the backup files: the path is the moment it was made
          op,     \* what the operator's process is doing
          made,   \* moments used
          faults

backups == <<live, files, op, made, faults>>

Paths == 1 .. MaxBackups

\* What connecting to a path that is not there creates: a file without a table.
Empty == [state |-> "empty", rows |-> 0, log |-> <<>>]
Idle  == [at |-> "idle"]

Init == /\ live = [state |-> "sound", rows |-> 0, log |-> <<>>]
        /\ files = [p \in Paths |-> Nothing]
        /\ op = Idle /\ made = 0 /\ faults = 0

\* The tables of a damaged database can still be read, of the others they cannot.
HasTables(db) == db.state \in {"sound", "damaged"}

------------------------------------------------------------------------------
(* create_backup: copy, verify, record, prune.  As the first leg of a restore *)
(* op.restores is the chosen record, otherwise Nothing.                       *)

\* sqlite3.Connection.backup is atomic; of an unreadable source it keeps nothing.
Copied(restores) ==
    IF live.state = "unreadable"
    THEN /\ op' = IF restores = Nothing THEN Idle ELSE [at |-> "saved", restores |-> restores, safety |-> Nothing, replaced |-> live]
         /\ UNCHANGED <<files, made>>
    ELSE /\ made < MaxBackups
         /\ made' = made + 1
         /\ files' = [files EXCEPT ![made + 1] = live]
         /\ op' = [at |-> "copied", restores |-> restores, path |-> made + 1, replaced |-> live]

Backup == op = Idle /\ Copied(Nothing) /\ UNCHANGED <<live, faults>>

\* restore_backup with dry_run=False: the record is looked up in the database that is to be replaced.
Restore == /\ op = Idle /\ HasTables(live)
           /\ \E i \in DOMAIN live.log : live.log[i].healthy /\ Copied(live.log[i])
           /\ UNCHANGED <<live, faults>>

\* Mutant: an intact count is proof enough.
HealthyByCount(file) == HasTables(live) /\ file.rows = live.rows
\* _verify_backup: integrity, and as many rows as the source has by now.
Healthy(file) == file.state = "sound" /\ HasTables(live) /\ file.rows = live.rows

\* _enforce_retention: of all records, healthy or not, the newest ones keep their file.
Pruned(log) == {log[i].path : i \in {j \in DOMAIN log : j + Retention <= Len(log)}}

\* record_backup and _enforce_retention; without the table the call raises.
Verify == /\ op.at = "copied"
          /\ op' = [at |-> "verified", restores |-> op.restores, path |-> op.path, replaced |-> op.replaced,
                     healthy |-> Healthy(files[op.path])]
          /\ UNCHANGED <<live, files, made, faults>>

Record == /\ op.at = "verified"
          /\ IF ~HasTables(live) THEN op' = Idle /\ UNCHANGED <<live, files>>
             ELSE LET log == Append(live.log, [path |-> op.path, healthy |-> op.healthy]) IN
                  /\ live' = [live EXCEPT !.log = log]
                  /\ files' = [p \in Paths |-> IF p \in Pruned(log) THEN Nothing ELSE files[p]]
                  /\ op' = IF op.restores = Nothing THEN Idle
                           ELSE [at |-> "saved", restores |-> op.restores, safety |-> op.path, replaced |-> op.replaced]
          /\ UNCHANGED <<made, faults>>

------------------------------------------------------------------------------
(* The rest of restore_backup.                                                *)

\* The database and its -wal and -shm go first.
Remove == /\ op.at = "saved"
          /\ live' = Empty
          /\ op' = [op EXCEPT !.at = "removed"]
          /\ UNCHANGED <<files, made, faults>>

\* Connecting to the backup creates the file when it is not there.
Overwrite == /\ op.at = "removed"
             /\ LET path == op.restores.path
                    source == IF files[path] = Nothing THEN Empty ELSE files[path]
                IN  /\ files' = [files EXCEPT ![path] = source]
                    /\ live' = source
             /\ op' = [op EXCEPT !.at = "restored"]
             /\ UNCHANGED <<made, faults>>

Report == op.at = "restored" /\ op' = Idle /\ UNCHANGED <<live, files, made, faults>>

------------------------------------------------------------------------------
(* The world around the operator.                                             *)
Write == /\ live.state = "sound" /\ live.rows < MaxRows
         /\ live' = [live EXCEPT !.rows = @ + 1]
         /\ UNCHANGED <<files, op, made, faults>>

Damage == /\ faults < MaxFaults /\ live.state = "sound" /\ op.at # "restored"
          /\ \E s \in {"damaged", "unreadable"} : live' = [live EXCEPT !.state = s]
          /\ faults' = faults + 1
          /\ UNCHANGED <<files, op, made>>

Die == /\ faults < MaxFaults /\ op # Idle
       /\ op' = Idle /\ faults' = faults + 1
       /\ UNCHANGED <<live, files, made>>

Next == \/ Backup \/ Restore \/ Verify \/ Record \/ Remove \/ Overwrite \/ Report
        \/ Write \/ Damage \/ Die

Spec == Init /\ [][Next]_backups

------------------------------------------------------------------------------
Records  == [path : Paths, healthy : BOOLEAN]
Contents == [state : {"sound", "damaged", "unreadable", "empty"}, rows : 0 .. MaxRows, log : Seq(Records)]

\* With a retention of no file, which the environment may ask for, nothing outlives its own backup.
ConstantsFit == /\ {Retention, MaxRows, MaxBackups, MaxFaults} \subseteq Nat /\ Retention >= 1
                /\ Nothing \notin Contents \cup Records \cup Nat

TypeOK == /\ live \in Contents
          /\ \A p \in Paths : files[p] = Nothing \/ (files[p] \in Contents /\ p <= made)
          /\ op.at \in {"idle", "copied", "verified", "saved", "removed", "restored"}
          /\ made \in 0 .. MaxBackups /\ faults \in 0 .. MaxFaults

\* "Never lose data": from the safety backup on until the restore is reported, what the restore
\* replaces is on disk -- if it could be read -- although that backup made others be pruned.
SafetyOnDisk ==
    op.at \in {"saved", "removed", "restored"} /\ op.safety # Nothing => files[op.safety] = op.replaced

\* "Refuses to restore from any backup that wasn't itself verified healthy": whatever broke
\* in the meantime, a restore never puts a damaged database in place of the live one.
NothingBrokenIsRestored == op.at = "restored" => live.state \notin {"damaged", "unreadable"}

\* A restore neither loses what it replaces nor puts something broken in its place.
RestoresAreSound == TypeOK /\ SafetyOnDisk /\ NothingBrokenIsRestored

\* A backup that was verified healthy gives, when it is restored, a sound database.
RestoredIsSound == op.at = "restored" => live.state = "sound"
==============================================================================
