----------------------------- MODULE SchemaSync -----------------------------
(***************************************************************************)
(* What a start of the application does to the database (src/app/          *)
(* database.py init_db, called by main.py lifespan; the migrations under   *)
(* src/alembic/versions): create the tables, adopt a database that has no  *)
(* revision, run the migrations, check the result.                         *)
(*                                                                         *)
(* `disk` is the committed database, `db` what the connection of the       *)
(* start sees of it.  In SQLite a CREATE TABLE outside a transaction is    *)
(* committed at once, and the first INSERT opens the transaction that the  *)
(* end of a migration commits; a crash or a failed statement loses what    *)
(* is not committed.  One process starts at a time (Procfile).             *)
(*                                                                         *)
(* The first migration is never run by init_db: a database without tables  *)
(* gets them from create_all, any other is stamped first.  CHECK           *)
(* constraints and indexes are left out.  A failed start goes on to serve, *)
(* with the status `error`.                                                *)
(***************************************************************************)
EXTENDS Naturals, Sequences, FiniteSets

CONSTANTS
    None,      \* no revision
    Logs,      \* the chat logs of a database with data
    MaxFaults  \* bound: crashes and failing statements

ASSUME SchemaAssumption == MaxFaults \in Nat /\ None \notin Nat

RootTables  == {"users", "admin_grants", "chat_logs", "password_resets", "session_revocations"}
ModelTables == RootTables \cup {"threads", "audit_events", "request_logs"}

\* The revisions in their order.
Root == 1  Threads == 2  Checks == 3  Latest == 4

VARIABLES
    disk,    \* the committed database
    db,      \* the database as the start's connection sees it
    start,   \* where the process is: [stage, step, fk, fresh, failed]
    status,  \* schema_sync["status"]
    faults,  \* crashes and failing statements so far
    first    \* history: the database at the beginning

schemaVars == <<disk, db, start, status, faults, first>>

\* `threadColumn`: chat_logs.thread_id; `leftover`: the copy of users that a migration
\* makes; `versionTable` and `version`: alembic_version and its row; `filed`: the logs
\* that are in the default thread of their user.
Database ==
    [tables : SUBSET ModelTables, threadColumn : BOOLEAN, leftover : BOOLEAN,
     versionTable : BOOLEAN, version : {None} \cup Root .. Latest,
     logs : SUBSET Logs, filed : SUBSET Logs]

Empty == [tables |-> {}, threadColumn |-> FALSE, leftover |-> FALSE,
          versionTable |-> FALSE, version |-> None, logs |-> {}, filed |-> {}]

TablesAt(v) ==
    RootTables \cup (IF v >= Threads THEN {"threads"} ELSE {})
               \cup (IF v >= Latest THEN {"audit_events", "request_logs"} ELSE {})

\* A database made by the first release with revisions; those of the later ones come
\* up on its way to the head.
AtRoot == [Empty EXCEPT !.tables = RootTables, !.versionTable = TRUE, !.version = Root,
                        !.logs = Logs]

\* A database of the time before there were revisions: some tables may not be there.
Unversioned(ts) == [Empty EXCEPT !.tables = ts, !.logs = Logs]

\* The stages of a start after the first look: `creating`, `stamping`, `migrating`,
\* `checking`; before and after it: `down`, `serving`.
Stopped == [stage |-> "down", step |-> 1, fk |-> TRUE, fresh |-> FALSE, failed |-> FALSE]

SchemaInit ==
    /\ first \in {Empty, AtRoot, Unversioned(RootTables),
                 Unversioned(RootTables \ {"session_revocations"})}
    /\ disk = first /\ db = first
    /\ start = Stopped /\ status = "pending" /\ faults = 0

-----------------------------------------------------------------------------
(* What init_db asks of the database.                                      *)

HasAnyTable(d) == d.tables # {} \/ d.versionTable \/ d.leftover

\* Fault: an empty alembic_version counts.
HasVersionTable(d) == d.versionTable

HasVersionRow(d) == d.version # None

\* _schema_is_current: tables and columns.
IsCurrent(d) == ModelTables \subseteq d.tables /\ d.threadColumn

\* Fault: what a migration ended with is taken to be right.
AnySchema(d) == TRUE

\* The check after the migrations.
Passes(d) == IsCurrent(d)

-----------------------------------------------------------------------------
(* Migrations: statements one after the other.                             *)

Script ==
    [v \in Root .. Checks |->
        IF v = Root THEN <<"create threads", "default threads", "add column", "file logs", "commit">>
        ELSE IF v = Threads THEN <<"keys off", "copy users", "replace users", "replace threads",
                                   "keys on", "commit">>
        ELSE <<"create audit_events", "create request_logs", "commit">>]

\* The statements outside a transaction.
CommitsAtOnce == {"create threads", "copy users", "create audit_events", "create request_logs"}

\* Fault: the transaction is not committed at the end of a migration.
CommitsTables(s) == s \in CommitsAtOnce

Commits(s) == s \in CommitsAtOnce \cup {"commit"}

\* The database accepts the statement: what it makes is not there, what it uses is.
Accepts(s, d) ==
    /\ s = "create threads" => "threads" \notin d.tables
    /\ s = "add column" => "chat_logs" \in d.tables /\ ~ d.threadColumn
    /\ s = "copy users" => ~ d.leftover

\* DROP TABLE deletes the rows first, and with them what refers to them if the foreign
\* keys are on.
Effect(s, d, fk) ==
    CASE s = "create threads"      -> [d EXCEPT !.tables = @ \cup {"threads"}]
      [] s = "add column"          -> [d EXCEPT !.threadColumn = TRUE]
      [] s = "file logs"           -> [d EXCEPT !.filed = d.logs]
      [] s = "copy users"          -> [d EXCEPT !.leftover = TRUE]
      [] s = "replace users"       -> [d EXCEPT !.leftover = FALSE,
                                                !.logs = IF fk THEN {} ELSE @,
                                                !.filed = IF fk THEN {} ELSE @]
      [] s = "replace threads"     -> [d EXCEPT !.logs = IF fk THEN @ \ d.filed ELSE @,
                                                !.filed = IF fk THEN {} ELSE @]
      [] s = "create audit_events" -> [d EXCEPT !.tables = @ \cup {"audit_events"}]
      [] s = "create request_logs" -> [d EXCEPT !.tables = @ \cup {"request_logs"}]
      [] s = "commit"              -> [d EXCEPT !.version = @ + 1]
      [] OTHER                     -> d

\* Fault: the migration does not switch the foreign keys off.
KeysAlwaysOn(s) == TRUE

\* PRAGMA foreign_keys=ON comes inside the transaction, where it does nothing.
KeysAfter(s) == IF s = "keys off" THEN FALSE ELSE start.fk

-----------------------------------------------------------------------------
(* A start.                                                                *)

Moves(stage) == start' = [start EXCEPT !.stage = stage, !.step = 1, !.fk = TRUE]

\* The database tables exist or not: create_all, or the stamp of a database without a
\* revision, or the migrations.
Begin ==
    /\ start.stage = "down"
    /\ status' = "pending"
    /\ start' = [Stopped EXCEPT !.fresh = ~ HasAnyTable(disk),
                                !.stage = IF ~ HasAnyTable(disk) THEN "creating"
                                          ELSE IF ~ HasVersionRow(disk) THEN "stamping"
                                          ELSE "migrating"]
    /\ db' = disk
    /\ UNCHANGED <<disk, faults, first>>

\* create_all makes a table after those it refers to.
CreateOrder == <<"users", "audit_events", "request_logs", "admin_grants", "password_resets",
                 "session_revocations", "threads", "chat_logs">>

Create ==
    /\ start.stage = "creating"
    /\ LET t == CreateOrder[start.step] IN
       db' = [db EXCEPT !.tables = @ \cup {t}, !.threadColumn = t = "chat_logs"]
    /\ disk' = db'
    /\ IF start.step = Len(CreateOrder) THEN Moves("stamping")
       ELSE start' = [start EXCEPT !.step = @ + 1]
    /\ UNCHANGED <<status, faults, first>>

\* Fault: every database that is adopted is taken to be up to date.
AlwaysHead(d) == Latest

\* The revision to stamp: _adopt_legacy_schema, or the head after create_all.
Adopted(d) == IF IsCurrent(d) THEN Latest ELSE Root

\* stamp makes alembic_version and then its row.
Stamp ==
    /\ start.stage = "stamping"
    /\ IF ~ db.versionTable
       THEN /\ db' = [db EXCEPT !.versionTable = TRUE]
            /\ UNCHANGED <<start, status>>
       ELSE /\ db' = [db EXCEPT !.version = Adopted(db)]
            /\ IF start.fresh
               THEN Moves("serving") /\ status' = "ok"
               ELSE Moves("migrating") /\ UNCHANGED status
    /\ disk' = db'
    /\ UNCHANGED <<faults, first>>

\* The next statement of the migrations, if the database accepts it.
Execute ==
    /\ start.stage = "migrating" /\ db.version \in Root .. Checks
    /\ LET s == Script[db.version][start.step] IN
       /\ Accepts(s, db)
       /\ db' = Effect(s, db, start.fk)
       /\ disk' = IF Commits(s) THEN db' ELSE disk
       /\ start' = [start EXCEPT !.step = IF s = "commit" THEN 1 ELSE @ + 1,
                                 !.fk = IF s = "commit" THEN @ ELSE KeysAfter(s)]
    /\ UNCHANGED <<status, faults, first>>

\* At the head: the schema must be current.
Check ==
    /\ start.stage = "migrating" /\ db.version = Latest
    /\ Passes(db)
    /\ Moves("serving") /\ status' = "ok"
    /\ UNCHANGED <<disk, db, faults, first>>

\* init_db raises: lifespan logs it and the application serves.
Raises(injected) ==
    /\ start' = [start EXCEPT !.stage = "serving", !.step = 1, !.fk = TRUE, !.failed = injected]
    /\ status' = "error"
    /\ db' = disk
    /\ UNCHANGED <<disk, first>>

\* A statement that the database does not accept, or a schema that is not current.
Refused ==
    /\ start.stage = "migrating"
    /\ ~ IF db.version \in Root .. Checks THEN Accepts(Script[db.version][start.step], db)
         ELSE db.version = Latest /\ Passes(db)
    /\ Raises(FALSE) /\ UNCHANGED faults

Starting == start.stage \in {"creating", "stamping", "migrating"}

\* A statement fails: locked, disk full.
StatementFails ==
    /\ Starting /\ faults < MaxFaults
    /\ faults' = faults + 1
    /\ Raises(TRUE)

Crash ==
    /\ Starting /\ faults < MaxFaults
    /\ faults' = faults + 1
    /\ start' = Stopped /\ db' = disk
    /\ UNCHANGED <<disk, status, first>>

\* The process is stopped, for the next release.
Stop ==
    /\ start.stage = "serving"
    /\ start' = Stopped
    /\ UNCHANGED <<disk, db, status, faults, first>>

SchemaNext ==
    \/ Begin \/ Create \/ Stamp \/ Execute \/ Check
    \/ Refused \/ StatementFails \/ Crash \/ Stop

SchemaSpec == SchemaInit /\ [][SchemaNext]_schemaVars

-----------------------------------------------------------------------------
(* What /health and /readyz say.                                           *)

\* GET /readyz while the database answers.
Ready == start.stage = "serving" /\ status # "error"

=============================================================================
