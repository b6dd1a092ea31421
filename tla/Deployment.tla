----------------------------- MODULE Deployment -----------------------------
(***************************************************************************)
(* The database file between releases: starts of the application           *)
(* (SchemaSync), backups that run at any time (Backup), and the operator   *)
(* who puts a backup in place of the file while the application is stopped *)
(* (docs/BACKUP_RESTORE.md).                                               *)
(***************************************************************************)
EXTENDS SchemaSync, Backup

deploymentVars == <<schemaVars, backupVars>>

DeploymentInit == SchemaInit /\ BackupInit

\* A backup needs a file; what it copies is the committed database.
Backups ==
    /\ \E i \in Calls : (disk # Empty /\ Complete(i, disk)) \/ BackupStep(i)
    /\ UNCHANGED schemaVars

\* The shapes that a start can take to the head.
Whole(d) ==
    \/ d = Empty
    \/ IsCurrent(d) /\ d.version \in {None, Checks, Latest}
    \/ d.tables = RootTables /\ ~ d.threadColumn /\ d.version \in {None, Root}
    \/ d.tables = TablesAt(Threads) /\ d.threadColumn /\ ~ d.leftover /\ d.version = Threads
    \/ TablesAt(Threads) \subseteq d.tables /\ d.threadColumn /\ d.version = Checks

\* cp of a checked backup over the file of the stopped application.
Restore(i) ==
    /\ start.stage = "down" /\ files[i].state = "complete"
    /\ disk' = files[i].content /\ db' = disk'
    /\ noted' = noted \cup (IF Whole(disk') THEN {} ELSE {"half"})
    /\ UNCHANGED <<start, status, faults, first, files, calls, writes>>

DeploymentNext ==
    \/ SchemaNext /\ UNCHANGED backupVars
    \/ Backups
    \/ \E i \in Calls : Restore(i)

DeploymentSpec == DeploymentInit /\ [][DeploymentNext]_deploymentVars

-----------------------------------------------------------------------------
(* What makes it correct.                                                  *)

\* The state has its type; outside a start nothing is uncommitted.
DeploymentTypeOK ==
    /\ disk \in Database /\ db \in Database /\ first \in Database
    /\ start \in [stage : {"down", "creating", "stamping", "migrating", "serving"},
                  step : 1 .. 8, fk : BOOLEAN, fresh : BOOLEAN, failed : BOOLEAN]
    /\ status \in {"pending", "ok", "error"} /\ faults \in 0 .. MaxFaults
    /\ files \in [Calls -> [state : {"none", "partial", "complete"}, mtime : 0 .. MaxWrites,
                            content : Database \cup {Nothing}]]
    /\ calls \in [Calls -> [stage : {"unused", "copying", "removing", "done", "failed"},
                            old : SUBSET Calls]]
    /\ writes \in 0 .. MaxWrites /\ noted \subseteq {"overlap", "crash", "half"}
    /\ ~ Starting => db = disk

\* /readyz says ready only if the tables and columns of the models are on the disk
\* (health.py, database.py): after crashes, failed starts and restores.  It is not
\* ready only if a statement of this start failed or a schema was left half-made,
\* and only a fault leaves one, or a backup made during a start, or a database older
\* than the first revision.
StatusTruthful ==
    /\ Ready => IsCurrent(disk)
    /\ status = "error" => start.stage = "down" \/ start.failed \/ ~ Whole(disk)
    /\ ~ Starting /\ ~ Whole(disk) =>
           faults > 0 \/ ~ Whole(first) \/ "half" \in noted

\* No start loses a chat log, and a database at a revision that has threads has each
\* of its logs in a thread (the notes of the migrations c7e4a9b21d05 and b11425f8d01f).
LogsSafe ==
    /\ disk.logs = first.logs
    /\ disk.version \in Threads .. Latest => disk.filed = disk.logs

\* The calls that have made their copy.
Copied == {i \in Calls : calls[i].stage \in {"removing", "done"}}

\* After a backup was reported done there is always a complete one, and without a crash
\* the `Keep` newest of those that were copied; two calls that overlap may remove each
\* other's (backup_db.py counts the half-made files of other calls as generations).
BackupStands ==
    \/ "overlap" \in noted
    \/ /\ (\E i \in Calls : calls[i].stage = "done") => \E i \in Calls : files[i].state = "complete"
       /\ "crash" \notin noted => \A i \in Copied :
            Cardinality({j \in Copied : j > i}) < Keep => files[i].state = "complete"

-----------------------------------------------------------------------------
(* The inductive invariants behind these.                                    *)

\* What every database has in it that a start may meet, on the disk or in a backup.
Sound(d) ==
    /\ d.logs = first.logs
    /\ d.version \in Threads .. Latest => d.filed = d.logs
    /\ d.version = None /\ IsCurrent(d) => d.filed = d.logs
    /\ ~ HasAnyTable(d) => d.logs = {} /\ d.filed = {}
    /\ HasVersionRow(d) => d.versionTable
    /\ d.version \in {None, Root} => ~ d.leftover

DatabasesSound ==
    /\ Sound(disk) /\ Sound(db)
    /\ \A i \in Calls : files[i].state = "complete" =>
          files[i].content \in Database /\ Sound(files[i].content)

\* How far a migration has come, and what it has committed by then.
MigrationInOrder ==
    /\ HasVersionRow(db) /\ disk.version = db.version
    /\ db.version = Root =>
          /\ start.step <= 5
          /\ start.step > 1 => "threads" \in disk.tables
          /\ start.step > 4 => db.filed = db.logs
    /\ db.version = Threads =>
          /\ start.step <= 6
          /\ start.step > 1 => ~ start.fk
          /\ start.step = 2 => db = disk
          /\ start.step > 2 => disk.leftover
    /\ db.version = Checks => start.step <= 3
    /\ db.version = Latest => start.step = 1

StartInOrder ==
    /\ start.stage # "migrating" \/ start.step = 1 => db = disk
    /\ start.stage = "creating" =>
          /\ db.version = None /\ db.logs = {} /\ db.filed = {} /\ start.fresh
          /\ \A n \in 1 .. start.step - 1 : CreateOrder[n] \in db.tables
    /\ start.stage = "stamping" =>
          /\ db.version = None
          /\ IF start.fresh THEN IsCurrent(db) ELSE HasAnyTable(db)
    /\ start.stage = "migrating" => MigrationInOrder
    /\ Starting => status = "pending"

\* Without a fault, from a whole schema on, a start goes through the shapes it is meant to.
WholeWithoutFault ==
    faults = 0 /\ Whole(first) /\ "half" \notin noted =>
        /\ ~ Starting \/ (start.stage = "stamping" /\ ~ start.fresh)
              \/ (start.stage = "migrating" /\ start.step = 1)
           => Whole(db)
        /\ start.stage = "migrating" /\ start.step > 1 =>
              /\ TablesAt(Threads) \subseteq db.tables
              /\ db.version = Root =>
                    db.tables = TablesAt(Threads) /\ (db.threadColumn <=> start.step > 3)
              /\ db.version = Threads =>
                    /\ db.tables = TablesAt(Threads) /\ db.threadColumn
                    /\ db.leftover <=> start.step = 3
              /\ db.version = Checks =>
                    /\ db.threadColumn /\ "audit_events" \in db.tables
                    /\ start.step > 2 => "request_logs" \in db.tables

\* Calls that do not overlap follow each other, and so do their files.
CallsInTurn ==
    /\ \A i, j \in Calls : i < j /\ calls[i].stage = "unused" => calls[j].stage = "unused"
    /\ \A i \in Calls : files[i].mtime <= writes
    /\ \A i \in Calls : calls[i].stage = "unused" => ~ Exists(i)
    /\ "overlap" \notin noted =>
          /\ \A i \in Active, j \in Calls : i < j => calls[j].stage = "unused"
          /\ \A i, j \in Calls : i < j /\ Exists(i) /\ Exists(j) => Newer(j, i)
          /\ \A i \in Calls : calls[i].stage = "removing" => \A j \in calls[i].old : Exists(j)

\* What may not be removed: a file of a call that has copied, ...
Stands(i) ==
    /\ files[i].state = "complete" /\ calls[i].stage \in {"removing", "done", "failed"}
    /\ \A j \in Calls : calls[j].stage = "removing" => i \notin calls[j].old

\* ... and without a crash, one with fewer than `Keep` of them after it.
NewestStand ==
    "overlap" \notin noted =>
        /\ Copied # {} => \E i \in Calls : Stands(i)
        /\ "crash" \notin noted =>
              /\ \A i \in Calls : Exists(i) => i \in Copied \/ calls[i].stage = "copying"
              /\ \A i \in Copied :
                    Cardinality({j \in Copied : j > i}) < Keep => files[i].state = "complete"
              /\ \A i \in Calls : calls[i].stage = "removing" =>
                    \A j \in calls[i].old : Cardinality({k \in Copied : k > j}) >= Keep

=============================================================================
