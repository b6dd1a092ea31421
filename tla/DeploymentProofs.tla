--------------------------- MODULE DeploymentProofs ---------------------------
(***************************************************************************)
(* Proofs about Deployment, for any logs, any number of faults, backups    *)
(* and generations to keep.                                                *)
(***************************************************************************)
EXTENDS Deployment, FiniteSetTheorems, TLAPS

USE DEF Root, Threads, Checks, Latest

-----------------------------------------------------------------------------
(* The statements of the migrations.                                       *)

\* Which they are.
LEMMA ScriptIs ==
    /\ Script[1][1] = "create threads"
    /\ Script[1][2] = "default threads"
    /\ Script[1][3] = "add column"
    /\ Script[1][4] = "file logs"
    /\ Script[1][5] = "commit"
    /\ Script[2][1] = "keys off"
    /\ Script[2][2] = "copy users"
    /\ Script[2][3] = "replace users"
    /\ Script[2][4] = "replace threads"
    /\ Script[2][5] = "keys on"
    /\ Script[2][6] = "commit"
    /\ Script[3][1] = "create audit_events"
    /\ Script[3][2] = "create request_logs"
    /\ Script[3][3] = "commit"
<1>1. 1 \in 1 .. 3 /\ 2 \in 1 .. 3 /\ 3 \in 1 .. 3 /\ 2 # 1 /\ 3 # 1 /\ 3 # 2
  OBVIOUS
<1>2. /\ Script[1] = <<"create threads", "default threads", "add column", "file logs", "commit">>
      /\ Script[2] = <<"keys off", "copy users", "replace users", "replace threads",
                       "keys on", "commit">>
      /\ Script[3] = <<"create audit_events", "create request_logs", "commit">>
  BY <1>1, Zenon DEF Script
<1>3. ASSUME NEW S, S = <<"create threads", "default threads", "add column", "file logs", "commit">>
      PROVE  /\ S[1] = "create threads" /\ S[2] = "default threads" /\ S[3] = "add column"
             /\ S[4] = "file logs" /\ S[5] = "commit"
  BY <1>3
<1>4. ASSUME NEW S, S = <<"keys off", "copy users", "replace users", "replace threads",
                         "keys on", "commit">>
      PROVE  /\ S[1] = "keys off" /\ S[2] = "copy users" /\ S[3] = "replace users"
             /\ S[4] = "replace threads" /\ S[5] = "keys on" /\ S[6] = "commit"
  BY <1>4
<1>5. ASSUME NEW S, S = <<"create audit_events", "create request_logs", "commit">>
      PROVE  S[1] = "create audit_events" /\ S[2] = "create request_logs" /\ S[3] = "commit"
  BY <1>5
<1>6. QED
  BY <1>2, <1>3, <1>4, <1>5, Zenon

\* What each does to the database.
LEMMA EffectIs ==
    ASSUME NEW d, NEW fk
    PROVE  /\ Effect("create threads", d, fk) = [d EXCEPT !.tables = @ \cup {"threads"}]
           /\ Effect("add column", d, fk) = [d EXCEPT !.threadColumn = TRUE]
           /\ Effect("file logs", d, fk) = [d EXCEPT !.filed = d.logs]
           /\ Effect("copy users", d, fk) = [d EXCEPT !.leftover = TRUE]
           /\ Effect("replace users", d, fk) =
                 [d EXCEPT !.leftover = FALSE, !.logs = IF fk THEN {} ELSE @,
                           !.filed = IF fk THEN {} ELSE @]
           /\ Effect("replace threads", d, fk) =
                 [d EXCEPT !.logs = IF fk THEN @ \ d.filed ELSE @,
                           !.filed = IF fk THEN {} ELSE @]
           /\ Effect("create audit_events", d, fk) = [d EXCEPT !.tables = @ \cup {"audit_events"}]
           /\ Effect("create request_logs", d, fk) = [d EXCEPT !.tables = @ \cup {"request_logs"}]
           /\ Effect("commit", d, fk) = [d EXCEPT !.version = @ + 1]
           /\ Effect("default threads", d, fk) = d
           /\ Effect("keys off", d, fk) = d
           /\ Effect("keys on", d, fk) = d
BY Zenon DEF Effect

\* Which are committed.
LEMMA CommitsIs ==
    /\ \A s \in {"create threads", "copy users", "create audit_events", "create request_logs",
                 "commit"} : Commits(s)
    /\ \A s \in {"default threads", "add column", "file logs", "keys off", "replace users",
                 "replace threads", "keys on"} : ~ Commits(s)
BY DEF Commits, CommitsAtOnce

\* What the database must have or not have for them.
LEMMA AcceptsIs ==
    ASSUME NEW d
    PROVE  /\ Accepts("create threads", d) <=> "threads" \notin d.tables
           /\ Accepts("add column", d) <=> "chat_logs" \in d.tables /\ ~ d.threadColumn
           /\ Accepts("copy users", d) <=> ~ d.leftover
           /\ \A s \in {"default threads", "file logs", "keys off", "replace users",
                 "replace threads", "keys on", "create audit_events", "create request_logs",
                 "commit"} : Accepts(s, d)
BY DEF Accepts

\* Where the start is after a statement.
LEMMA StartAfter ==
    ASSUME NEW s, NEW step, step = start.step + 1,
           start' = [start EXCEPT !.step = IF s = "commit" THEN 1 ELSE @ + 1,
                                  !.fk = IF s = "commit" THEN @ ELSE KeysAfter(s)]
    PROVE  start' = IF s = "commit" THEN [start EXCEPT !.step = 1, !.fk = start.fk]
                    ELSE IF s = "keys off" THEN [start EXCEPT !.step = step, !.fk = FALSE]
                    ELSE [start EXCEPT !.step = step, !.fk = start.fk]
<1>1. CASE s = "commit"
  <2>1. start' = [start EXCEPT !.step = 1, !.fk = start.fk]
    BY <1>1, Zenon
  <2>2. QED
    BY <1>1, <2>1, Zenon
<1>2. CASE s # "commit"
  <2>1. start' = [start EXCEPT !.step = start.step + 1, !.fk = KeysAfter(s)]
    BY <1>2
  <2>2. start' = [start EXCEPT !.step = step, !.fk = KeysAfter(s)]
    BY <2>1, Zenon
  <2>3. s = "keys off" => start' = [start EXCEPT !.step = step, !.fk = FALSE]
    BY <2>2, Zenon DEF KeysAfter
  <2>4. s # "keys off" => start' = [start EXCEPT !.step = step, !.fk = start.fk]
    BY <2>2, Zenon DEF KeysAfter
  <2>5. QED
    BY <1>2, <2>3, <2>4, Zenon
<1>3. QED
  BY <1>1, <1>2

\* A whole step of a migration, in the fields it changes: what the statement makes of the
\* connection's database, whether that is committed, where the start is then.
Moved(d, committed, step, fk) ==
    /\ db' = d /\ disk' = IF committed THEN d ELSE disk
    /\ start' = [start EXCEPT !.step = step, !.fk = fk]

\* A step of the first migration that init_db runs, ...
LEMMA ExecuteRoot ==
    ASSUME Execute, db.version = 1, start.step \in 1 .. 5
    PROVE  \/ /\ start.step = 1 /\ "threads" \notin db.tables
              /\ Moved([db EXCEPT !.tables = @ \cup {"threads"}], TRUE, 2, start.fk)
           \/ /\ start.step = 2
              /\ Moved(db, FALSE, 3, start.fk)
           \/ /\ start.step = 3 /\ "chat_logs" \in db.tables /\ ~ db.threadColumn
              /\ Moved([db EXCEPT !.threadColumn = TRUE], FALSE, 4, start.fk)
           \/ /\ start.step = 4
              /\ Moved([db EXCEPT !.filed = db.logs], FALSE, 5, start.fk)
           \/ /\ start.step = 5
              /\ Moved([db EXCEPT !.version = 2], TRUE, 1, start.fk)
<1>1. ASSUME NEW s, s = Script[1][start.step]
      PROVE  /\ Accepts(s, db) /\ db' = Effect(s, db, start.fk)
             /\ disk' = IF Commits(s) THEN db' ELSE disk
             /\ start' = [start EXCEPT !.step = IF s = "commit" THEN 1 ELSE @ + 1,
                                       !.fk = IF s = "commit" THEN @ ELSE KeysAfter(s)]
  BY <1>1 DEF Execute
<1>2. CASE start.step = 1
  <2>1. "create threads" = Script[1][start.step]
    BY <1>2, ScriptIs
  <2>2. /\ Accepts("create threads", db) /\ db' = Effect("create threads", db, start.fk)
        /\ disk' = IF Commits("create threads") THEN db' ELSE disk
    BY <1>1, <2>1, Zenon
  <2>3. db' = [db EXCEPT !.tables = @ \cup {"threads"}]
    BY <2>2, EffectIs
  <2>4. disk' = db'
    BY <2>2, CommitsIs
  <2>5. 2 = start.step + 1
    BY <1>2
  <2>6. start' = [start EXCEPT !.step = 2, !.fk = start.fk]
    BY <1>1, <2>1, <2>5, StartAfter
  <2>7. QED
    BY <1>2, <2>2, <2>3, <2>4, <2>6, AcceptsIs DEF Moved
<1>3. CASE start.step = 2
  <2>1. "default threads" = Script[1][start.step]
    BY <1>3, ScriptIs
  <2>2. /\ Accepts("default threads", db) /\ db' = Effect("default threads", db, start.fk)
        /\ disk' = IF Commits("default threads") THEN db' ELSE disk
    BY <1>1, <2>1, Zenon
  <2>3. db' = db
    BY <2>2, EffectIs
  <2>4. disk' = disk
    BY <2>2, CommitsIs
  <2>5. 3 = start.step + 1
    BY <1>3
  <2>6. start' = [start EXCEPT !.step = 3, !.fk = start.fk]
    BY <1>1, <2>1, <2>5, StartAfter
  <2>7. QED
    BY <1>3, <2>2, <2>3, <2>4, <2>6, AcceptsIs DEF Moved
<1>4. CASE start.step = 3
  <2>1. "add column" = Script[1][start.step]
    BY <1>4, ScriptIs
  <2>2. /\ Accepts("add column", db) /\ db' = Effect("add column", db, start.fk)
        /\ disk' = IF Commits("add column") THEN db' ELSE disk
    BY <1>1, <2>1, Zenon
  <2>3. db' = [db EXCEPT !.threadColumn = TRUE]
    BY <2>2, EffectIs, ZenonT(60)
  <2>4. disk' = disk
    BY <2>2, CommitsIs
  <2>5. 4 = start.step + 1
    BY <1>4
  <2>6. start' = [start EXCEPT !.step = 4, !.fk = start.fk]
    BY <1>1, <2>1, <2>5, StartAfter
  <2>7. QED
    BY <1>4, <2>2, <2>3, <2>4, <2>6, AcceptsIs DEF Moved
<1>5. CASE start.step = 4
  <2>1. "file logs" = Script[1][start.step]
    BY <1>5, ScriptIs
  <2>2. /\ Accepts("file logs", db) /\ db' = Effect("file logs", db, start.fk)
        /\ disk' = IF Commits("file logs") THEN db' ELSE disk
    BY <1>1, <2>1, Zenon
  <2>3. db' = [db EXCEPT !.filed = db.logs]
    BY <2>2, EffectIs, ZenonT(60)
  <2>4. disk' = disk
    BY <2>2, CommitsIs
  <2>5. 5 = start.step + 1
    BY <1>5
  <2>6. start' = [start EXCEPT !.step = 5, !.fk = start.fk]
    BY <1>1, <2>1, <2>5, StartAfter
  <2>7. QED
    BY <1>5, <2>2, <2>3, <2>4, <2>6, AcceptsIs DEF Moved
<1>6. CASE start.step = 5
  <2>1. "commit" = Script[1][start.step]
    BY <1>6, ScriptIs
  <2>2. /\ Accepts("commit", db) /\ db' = Effect("commit", db, start.fk)
        /\ disk' = IF Commits("commit") THEN db' ELSE disk
    BY <1>1, <2>1, Zenon
  <2>3. db' = [db EXCEPT !.version = 2]
    <3>1. db' = [db EXCEPT !.version = db.version + 1]
      BY <2>2, EffectIs, Zenon
    <3>2. db.version + 1 = 2
      OBVIOUS
    <3>3. QED
      BY <3>1, <3>2, Zenon
  <2>4. disk' = db'
    BY <2>2, CommitsIs
  <2>5. 6 = start.step + 1
    BY <1>6
  <2>6. start' = [start EXCEPT !.step = 1, !.fk = start.fk]
    BY <1>1, <2>1, <2>5, StartAfter
  <2>7. QED
    BY <1>6, <2>2, <2>3, <2>4, <2>6, AcceptsIs DEF Moved
<1>7. start.step = 1 \/ start.step = 2 \/ start.step = 3 \/ start.step = 4 \/ start.step = 5
  OBVIOUS
<1>8. QED
  BY <1>2, <1>3, <1>4, <1>5, <1>6, <1>7, Zenon

\* ... of the one that remakes users and threads, ...
LEMMA ExecuteThreads ==
    ASSUME Execute, db.version = 2, start.step \in 1 .. 6
    PROVE  \/ /\ start.step = 1
              /\ Moved(db, FALSE, 2, FALSE)
           \/ /\ start.step = 2 /\ ~ db.leftover
              /\ Moved([db EXCEPT !.leftover = TRUE], TRUE, 3, start.fk)
           \/ /\ start.step = 3
              /\ Moved([db EXCEPT !.leftover = FALSE, !.logs = IF start.fk THEN {} ELSE @,
                           !.filed = IF start.fk THEN {} ELSE @], FALSE, 4, start.fk)
           \/ /\ start.step = 4
              /\ Moved([db EXCEPT !.logs = IF start.fk THEN @ \ db.filed ELSE @,
                           !.filed = IF start.fk THEN {} ELSE @], FALSE, 5, start.fk)
           \/ /\ start.step = 5
              /\ Moved(db, FALSE, 6, start.fk)
           \/ /\ start.step = 6
              /\ Moved([db EXCEPT !.version = 3], TRUE, 1, start.fk)
<1>1. ASSUME NEW s, s = Script[2][start.step]
      PROVE  /\ Accepts(s, db) /\ db' = Effect(s, db, start.fk)
             /\ disk' = IF Commits(s) THEN db' ELSE disk
             /\ start' = [start EXCEPT !.step = IF s = "commit" THEN 1 ELSE @ + 1,
                                       !.fk = IF s = "commit" THEN @ ELSE KeysAfter(s)]
  BY <1>1 DEF Execute
<1>2. CASE start.step = 1
  <2>1. "keys off" = Script[2][start.step]
    BY <1>2, ScriptIs
  <2>2. /\ Accepts("keys off", db) /\ db' = Effect("keys off", db, start.fk)
        /\ disk' = IF Commits("keys off") THEN db' ELSE disk
    BY <1>1, <2>1, Zenon
  <2>3. db' = db
    BY <2>2, EffectIs
  <2>4. disk' = disk
    BY <2>2, CommitsIs
  <2>5. 2 = start.step + 1
    BY <1>2
  <2>6. start' = [start EXCEPT !.step = 2, !.fk = FALSE]
    BY <1>1, <2>1, <2>5, StartAfter
  <2>7. QED
    BY <1>2, <2>2, <2>3, <2>4, <2>6, AcceptsIs DEF Moved
<1>3. CASE start.step = 2
  <2>1. "copy users" = Script[2][start.step]
    BY <1>3, ScriptIs
  <2>2. /\ Accepts("copy users", db) /\ db' = Effect("copy users", db, start.fk)
        /\ disk' = IF Commits("copy users") THEN db' ELSE disk
    BY <1>1, <2>1, Zenon
  <2>3. db' = [db EXCEPT !.leftover = TRUE]
    BY <2>2, EffectIs
  <2>4. disk' = db'
    BY <2>2, CommitsIs
  <2>5. 3 = start.step + 1
    BY <1>3
  <2>6. start' = [start EXCEPT !.step = 3, !.fk = start.fk]
    BY <1>1, <2>1, <2>5, StartAfter
  <2>7. QED
    BY <1>3, <2>2, <2>3, <2>4, <2>6, AcceptsIs DEF Moved
<1>4. CASE start.step = 3
  <2>1. "replace users" = Script[2][start.step]
    BY <1>4, ScriptIs
  <2>2. /\ Accepts("replace users", db) /\ db' = Effect("replace users", db, start.fk)
        /\ disk' = IF Commits("replace users") THEN db' ELSE disk
    BY <1>1, <2>1, Zenon
  <2>3. db' = [db EXCEPT !.leftover = FALSE, !.logs = IF start.fk THEN {} ELSE @,
                           !.filed = IF start.fk THEN {} ELSE @]
    BY <2>2, EffectIs
  <2>4. disk' = disk
    BY <2>2, CommitsIs
  <2>5. 4 = start.step + 1
    BY <1>4
  <2>6. start' = [start EXCEPT !.step = 4, !.fk = start.fk]
    BY <1>1, <2>1, <2>5, StartAfter
  <2>7. QED
    BY <1>4, <2>2, <2>3, <2>4, <2>6, AcceptsIs DEF Moved
<1>5. CASE start.step = 4
  <2>1. "replace threads" = Script[2][start.step]
    BY <1>5, ScriptIs
  <2>2. /\ Accepts("replace threads", db) /\ db' = Effect("replace threads", db, start.fk)
        /\ disk' = IF Commits("replace threads") THEN db' ELSE disk
    BY <1>1, <2>1, Zenon
  <2>3. db' = [db EXCEPT !.logs = IF start.fk THEN @ \ db.filed ELSE @,
                           !.filed = IF start.fk THEN {} ELSE @]
    BY <2>2, EffectIs
  <2>4. disk' = disk
    BY <2>2, CommitsIs
  <2>5. 5 = start.step + 1
    BY <1>5
  <2>6. start' = [start EXCEPT !.step = 5, !.fk = start.fk]
    BY <1>1, <2>1, <2>5, StartAfter
  <2>7. QED
    BY <1>5, <2>2, <2>3, <2>4, <2>6, AcceptsIs DEF Moved
<1>6. CASE start.step = 5
  <2>1. "keys on" = Script[2][start.step]
    BY <1>6, ScriptIs
  <2>2. /\ Accepts("keys on", db) /\ db' = Effect("keys on", db, start.fk)
        /\ disk' = IF Commits("keys on") THEN db' ELSE disk
    BY <1>1, <2>1, Zenon
  <2>3. db' = db
    BY <2>2, EffectIs
  <2>4. disk' = disk
    BY <2>2, CommitsIs
  <2>5. 6 = start.step + 1
    BY <1>6
  <2>6. start' = [start EXCEPT !.step = 6, !.fk = start.fk]
    BY <1>1, <2>1, <2>5, StartAfter
  <2>7. QED
    BY <1>6, <2>2, <2>3, <2>4, <2>6, AcceptsIs DEF Moved
<1>7. CASE start.step = 6
  <2>1. "commit" = Script[2][start.step]
    BY <1>7, ScriptIs
  <2>2. /\ Accepts("commit", db) /\ db' = Effect("commit", db, start.fk)
        /\ disk' = IF Commits("commit") THEN db' ELSE disk
    BY <1>1, <2>1, Zenon
  <2>3. db' = [db EXCEPT !.version = 3]
    <3>1. db' = [db EXCEPT !.version = db.version + 1]
      BY <2>2, EffectIs, Zenon
    <3>2. db.version + 1 = 3
      OBVIOUS
    <3>3. QED
      BY <3>1, <3>2, Zenon
  <2>4. disk' = db'
    BY <2>2, CommitsIs
  <2>5. 7 = start.step + 1
    BY <1>7
  <2>6. start' = [start EXCEPT !.step = 1, !.fk = start.fk]
    BY <1>1, <2>1, <2>5, StartAfter
  <2>7. QED
    BY <1>7, <2>2, <2>3, <2>4, <2>6, AcceptsIs DEF Moved
<1>8. start.step = 1 \/ start.step = 2 \/ start.step = 3 \/ start.step = 4 \/ start.step = 5 \/ start.step = 6
  OBVIOUS
<1>9. QED
  BY <1>2, <1>3, <1>4, <1>5, <1>6, <1>7, <1>8, Zenon

\* ... and of the one that makes the tables of the audits.
LEMMA ExecuteChecks ==
    ASSUME Execute, db.version = 3, start.step \in 1 .. 3
    PROVE  \/ /\ start.step = 1
              /\ Moved([db EXCEPT !.tables = @ \cup {"audit_events"}], TRUE, 2, start.fk)
           \/ /\ start.step = 2
              /\ Moved([db EXCEPT !.tables = @ \cup {"request_logs"}], TRUE, 3, start.fk)
           \/ /\ start.step = 3
              /\ Moved([db EXCEPT !.version = 4], TRUE, 1, start.fk)
<1>1. ASSUME NEW s, s = Script[3][start.step]
      PROVE  /\ Accepts(s, db) /\ db' = Effect(s, db, start.fk)
             /\ disk' = IF Commits(s) THEN db' ELSE disk
             /\ start' = [start EXCEPT !.step = IF s = "commit" THEN 1 ELSE @ + 1,
                                       !.fk = IF s = "commit" THEN @ ELSE KeysAfter(s)]
  BY <1>1 DEF Execute
<1>2. CASE start.step = 1
  <2>1. "create audit_events" = Script[3][start.step]
    BY <1>2, ScriptIs
  <2>2. /\ Accepts("create audit_events", db) /\ db' = Effect("create audit_events", db, start.fk)
        /\ disk' = IF Commits("create audit_events") THEN db' ELSE disk
    BY <1>1, <2>1, Zenon
  <2>3. db' = [db EXCEPT !.tables = @ \cup {"audit_events"}]
    BY <2>2, EffectIs
  <2>4. disk' = db'
    BY <2>2, CommitsIs
  <2>5. 2 = start.step + 1
    BY <1>2
  <2>6. start' = [start EXCEPT !.step = 2, !.fk = start.fk]
    BY <1>1, <2>1, <2>5, StartAfter
  <2>7. QED
    BY <1>2, <2>2, <2>3, <2>4, <2>6, AcceptsIs DEF Moved
<1>3. CASE start.step = 2
  <2>1. "create request_logs" = Script[3][start.step]
    BY <1>3, ScriptIs
  <2>2. /\ Accepts("create request_logs", db) /\ db' = Effect("create request_logs", db, start.fk)
        /\ disk' = IF Commits("create request_logs") THEN db' ELSE disk
    BY <1>1, <2>1, Zenon
  <2>3. db' = [db EXCEPT !.tables = @ \cup {"request_logs"}]
    BY <2>2, EffectIs
  <2>4. disk' = db'
    BY <2>2, CommitsIs
  <2>5. 3 = start.step + 1
    BY <1>3
  <2>6. start' = [start EXCEPT !.step = 3, !.fk = start.fk]
    BY <1>1, <2>1, <2>5, StartAfter
  <2>7. QED
    BY <1>3, <2>2, <2>3, <2>4, <2>6, AcceptsIs DEF Moved
<1>4. CASE start.step = 3
  <2>1. "commit" = Script[3][start.step]
    BY <1>4, ScriptIs
  <2>2. /\ Accepts("commit", db) /\ db' = Effect("commit", db, start.fk)
        /\ disk' = IF Commits("commit") THEN db' ELSE disk
    BY <1>1, <2>1, Zenon
  <2>3. db' = [db EXCEPT !.version = 4]
    <3>1. db' = [db EXCEPT !.version = db.version + 1]
      BY <2>2, EffectIs, Zenon
    <3>2. db.version + 1 = 4
      OBVIOUS
    <3>3. QED
      BY <3>1, <3>2, Zenon
  <2>4. disk' = db'
    BY <2>2, CommitsIs
  <2>5. 4 = start.step + 1
    BY <1>4
  <2>6. start' = [start EXCEPT !.step = 1, !.fk = start.fk]
    BY <1>1, <2>1, <2>5, StartAfter
  <2>7. QED
    BY <1>4, <2>2, <2>3, <2>4, <2>6, AcceptsIs DEF Moved
<1>5. start.step = 1 \/ start.step = 2 \/ start.step = 3
  OBVIOUS
<1>6. QED
  BY <1>2, <1>3, <1>4, <1>5, Zenon

-----------------------------------------------------------------------------
(* The starts: types, the order of their steps, what the databases have.   *)

StartType == [stage : {"down", "creating", "stamping", "migrating", "serving"},
              step : 1 .. 8, fk : BOOLEAN, fresh : BOOLEAN, failed : BOOLEAN]

SchemaType ==
    /\ disk \in Database /\ db \in Database /\ first \in Database
    /\ start \in StartType
    /\ status \in {"pending", "ok", "error"} /\ faults \in 0 .. MaxFaults
    /\ ~ Starting => db = disk

\* What a start keeps, with or without backups.
SchemaInv == SchemaType /\ StartInOrder /\ Sound(disk) /\ Sound(db)

\* A step of a migration, field by field; the foreign keys are off where rows would go.
MovedTo(tables, column, leftover, version, filed, committed, step, fk) ==
    /\ db'.tables = tables /\ (db'.threadColumn <=> column) /\ (db'.leftover <=> leftover)
    /\ db'.version = version /\ db'.filed = filed
    /\ disk' = IF committed THEN db' ELSE disk
    /\ start'.step = step /\ (start'.fk <=> fk)

StartAt(step, fk) == [start EXCEPT !.step = step, !.fk = fk]

LEMMA StartIs ==
    ASSUME start \in StartType, NEW step \in 1 .. 8, NEW fk \in BOOLEAN
    PROVE  /\ StartAt(step, fk) \in StartType /\ StartAt(step, fk).stage = start.stage
           /\ StartAt(step, fk).step = step /\ (StartAt(step, fk).fk <=> fk)
           /\ (StartAt(step, fk).fresh <=> start.fresh)
           /\ (StartAt(step, fk).failed <=> start.failed)
<1>1. ASSUME NEW s \in StartType, NEW r, r = [s EXCEPT !.step = step, !.fk = fk]
      PROVE  r = [stage |-> s.stage, step |-> step, fk |-> fk, fresh |-> s.fresh,
                  failed |-> s.failed]
  BY <1>1 DEF StartType
<1>2. StartAt(step, fk) =
        [stage |-> start.stage, step |-> step, fk |-> fk, fresh |-> start.fresh,
         failed |-> start.failed]
  BY <1>1, Zenon DEF StartAt
<1>3. QED
  BY <1>2 DEF StartType

At(version, step) == db.version = version /\ start.step = step

LEMMA ExecuteIs ==
    ASSUME SchemaInv, Execute
    PROVE  /\ db' \in Database /\ (db'.versionTable <=> db.versionTable) /\ db'.logs = db.logs
           /\ start' \in StartType /\ start'.stage = "migrating"
           /\ (start'.fresh <=> start.fresh) /\ (start'.failed <=> start.failed)
           /\ UNCHANGED <<status, faults, first>>
           /\ \/ /\ At(1, 1) /\ "threads" \notin db.tables
                 /\ MovedTo(db.tables \cup {"threads"}, db.threadColumn, db.leftover, 1,
                            db.filed, TRUE, 2, start.fk)
              \/ /\ At(1, 2)
                 /\ MovedTo(db.tables, db.threadColumn, db.leftover, 1,
                            db.filed, FALSE, 3, start.fk)
              \/ /\ At(1, 3) /\ "chat_logs" \in db.tables /\ ~ db.threadColumn
                 /\ MovedTo(db.tables, TRUE, db.leftover, 1,
                            db.filed, FALSE, 4, start.fk)
              \/ /\ At(1, 4)
                 /\ MovedTo(db.tables, db.threadColumn, db.leftover, 1,
                            db.logs, FALSE, 5, start.fk)
              \/ /\ At(1, 5)
                 /\ MovedTo(db.tables, db.threadColumn, db.leftover, 2,
                            db.filed, TRUE, 1, start.fk)
              \/ /\ At(2, 1) /\ db' = db
                 /\ MovedTo(db.tables, db.threadColumn, db.leftover, 2,
                            db.filed, FALSE, 2, FALSE)
              \/ /\ At(2, 2) /\ ~ db.leftover
                 /\ MovedTo(db.tables, db.threadColumn, TRUE, 2,
                            db.filed, TRUE, 3, start.fk)
              \/ /\ At(2, 3)
                 /\ MovedTo(db.tables, db.threadColumn, FALSE, 2,
                            db.filed, FALSE, 4, start.fk)
              \/ /\ At(2, 4)
                 /\ MovedTo(db.tables, db.threadColumn, db.leftover, 2,
                            db.filed, FALSE, 5, start.fk)
              \/ /\ At(2, 5)
                 /\ MovedTo(db.tables, db.threadColumn, db.leftover, 2,
                            db.filed, FALSE, 6, start.fk)
              \/ /\ At(2, 6)
                 /\ MovedTo(db.tables, db.threadColumn, db.leftover, 3,
                            db.filed, TRUE, 1, start.fk)
              \/ /\ At(3, 1)
                 /\ MovedTo(db.tables \cup {"audit_events"}, db.threadColumn, db.leftover, 3,
                            db.filed, TRUE, 2, start.fk)
              \/ /\ At(3, 2)
                 /\ MovedTo(db.tables \cup {"request_logs"}, db.threadColumn, db.leftover, 3,
                            db.filed, TRUE, 3, start.fk)
              \/ /\ At(3, 3)
                 /\ MovedTo(db.tables, db.threadColumn, db.leftover, 4,
                            db.filed, TRUE, 1, start.fk)
<1>1. /\ db \in Database /\ start \in StartType /\ start.stage = "migrating"
      /\ db.version \in 1 .. 3 /\ start.step \in 1 .. 8
      /\ UNCHANGED <<status, faults, first>> /\ MigrationInOrder
  BY DEF SchemaInv, SchemaType, StartInOrder, StartType, Execute
<1>2. CASE db.version = 1
  <2>1. start.step \in 1 .. 5
    BY <1>1, <1>2 DEF MigrationInOrder
  <2>2. CASE start.step = 1 /\ "threads" \notin db.tables /\ Moved([db EXCEPT !.tables = @ \cup {"threads"}], TRUE, 2, start.fk)
    <3>2. db' = [db EXCEPT !.tables = @ \cup {"threads"}]
      BY <2>2, Zenon DEF Moved
    <3>3. /\ start' = [start EXCEPT !.step = 2, !.fk = start.fk]
          /\ disk' = IF TRUE THEN db' ELSE disk
      BY <2>2, <3>2, Zenon DEF Moved
    <3>4. /\ start' \in StartType /\ start'.stage = "migrating"
          /\ (start'.fresh <=> start.fresh) /\ (start'.failed <=> start.failed)
          /\ start'.step = 2 /\ (start'.fk <=> start.fk)
      <4>1. 2 \in 1 .. 8 /\ start.fk \in BOOLEAN /\ start \in StartType
        BY <1>1 DEF StartType
      <4>2. start' = StartAt(2, start.fk)
        BY <3>3, Zenon DEF StartAt
      <4>3. QED
        BY <1>1, <4>1, <4>2, StartIs
    <3>5. /\ db' \in Database /\ (db'.versionTable <=> db.versionTable) /\ db'.logs = db.logs
          /\ db'.tables = db.tables \cup {"threads"} /\ (db'.threadColumn <=> db.threadColumn)
          /\ (db'.leftover <=> db.leftover) /\ db'.version = 1 /\ db'.filed = db.filed
      BY <1>1, <1>2, <2>2, <3>2 DEF Database, ModelTables, RootTables
    <3>6. QED
      BY <1>1, <1>2, <2>2, <3>3, <3>4, <3>5 DEF At, MovedTo
  <2>3. CASE start.step = 2 /\ Moved(db, FALSE, 3, start.fk)
    <3>2. db' = db
      BY <2>3, Zenon DEF Moved
    <3>3. /\ start' = [start EXCEPT !.step = 3, !.fk = start.fk]
          /\ disk' = IF FALSE THEN db' ELSE disk
      BY <2>3, <3>2, Zenon DEF Moved
    <3>4. /\ start' \in StartType /\ start'.stage = "migrating"
          /\ (start'.fresh <=> start.fresh) /\ (start'.failed <=> start.failed)
          /\ start'.step = 3 /\ (start'.fk <=> start.fk)
      <4>1. 3 \in 1 .. 8 /\ start.fk \in BOOLEAN /\ start \in StartType
        BY <1>1 DEF StartType
      <4>2. start' = StartAt(3, start.fk)
        BY <3>3, Zenon DEF StartAt
      <4>3. QED
        BY <1>1, <4>1, <4>2, StartIs
    <3>5. /\ db' \in Database /\ (db'.versionTable <=> db.versionTable) /\ db'.logs = db.logs
          /\ db'.tables = db.tables /\ (db'.threadColumn <=> db.threadColumn)
          /\ (db'.leftover <=> db.leftover) /\ db'.version = 1 /\ db'.filed = db.filed
      BY <1>1, <1>2, <2>3, <3>2 DEF Database, ModelTables, RootTables
    <3>6. QED
      BY <1>1, <1>2, <2>3, <3>3, <3>4, <3>5 DEF At, MovedTo
  <2>4. CASE start.step = 3 /\ "chat_logs" \in db.tables /\ ~ db.threadColumn /\ Moved([db EXCEPT !.threadColumn = TRUE], FALSE, 4, start.fk)
    <3>2. db' = [db EXCEPT !.threadColumn = TRUE]
      BY <2>4, Zenon DEF Moved
    <3>3. /\ start' = [start EXCEPT !.step = 4, !.fk = start.fk]
          /\ disk' = IF FALSE THEN db' ELSE disk
      BY <2>4, <3>2, Zenon DEF Moved
    <3>4. /\ start' \in StartType /\ start'.stage = "migrating"
          /\ (start'.fresh <=> start.fresh) /\ (start'.failed <=> start.failed)
          /\ start'.step = 4 /\ (start'.fk <=> start.fk)
      <4>1. 4 \in 1 .. 8 /\ start.fk \in BOOLEAN /\ start \in StartType
        BY <1>1 DEF StartType
      <4>2. start' = StartAt(4, start.fk)
        BY <3>3, Zenon DEF StartAt
      <4>3. QED
        BY <1>1, <4>1, <4>2, StartIs
    <3>5. /\ db' \in Database /\ (db'.versionTable <=> db.versionTable) /\ db'.logs = db.logs
          /\ db'.tables = db.tables /\ (db'.threadColumn <=> TRUE)
          /\ (db'.leftover <=> db.leftover) /\ db'.version = 1 /\ db'.filed = db.filed
      BY <1>1, <1>2, <2>4, <3>2 DEF Database, ModelTables, RootTables
    <3>6. QED
      BY <1>1, <1>2, <2>4, <3>3, <3>4, <3>5 DEF At, MovedTo
  <2>5. CASE start.step = 4 /\ Moved([db EXCEPT !.filed = db.logs], FALSE, 5, start.fk)
    <3>2. db' = [db EXCEPT !.filed = db.logs]
      BY <2>5, Zenon DEF Moved
    <3>3. /\ start' = [start EXCEPT !.step = 5, !.fk = start.fk]
          /\ disk' = IF FALSE THEN db' ELSE disk
      BY <2>5, <3>2, Zenon DEF Moved
    <3>4. /\ start' \in StartType /\ start'.stage = "migrating"
          /\ (start'.fresh <=> start.fresh) /\ (start'.failed <=> start.failed)
          /\ start'.step = 5 /\ (start'.fk <=> start.fk)
      <4>1. 5 \in 1 .. 8 /\ start.fk \in BOOLEAN /\ start \in StartType
        BY <1>1 DEF StartType
      <4>2. start' = StartAt(5, start.fk)
        BY <3>3, Zenon DEF StartAt
      <4>3. QED
        BY <1>1, <4>1, <4>2, StartIs
    <3>5. /\ db' \in Database /\ (db'.versionTable <=> db.versionTable) /\ db'.logs = db.logs
          /\ db'.tables = db.tables /\ (db'.threadColumn <=> db.threadColumn)
          /\ (db'.leftover <=> db.leftover) /\ db'.version = 1 /\ db'.filed = db.logs
      BY <1>1, <1>2, <2>5, <3>2 DEF Database, ModelTables, RootTables
    <3>6. QED
      BY <1>1, <1>2, <2>5, <3>3, <3>4, <3>5 DEF At, MovedTo
  <2>6. CASE start.step = 5 /\ Moved([db EXCEPT !.version = 2], TRUE, 1, start.fk)
    <3>2. db' = [db EXCEPT !.version = 2]
      BY <2>6, Zenon DEF Moved
    <3>3. /\ start' = [start EXCEPT !.step = 1, !.fk = start.fk]
          /\ disk' = IF TRUE THEN db' ELSE disk
      BY <2>6, <3>2, Zenon DEF Moved
    <3>4. /\ start' \in StartType /\ start'.stage = "migrating"
          /\ (start'.fresh <=> start.fresh) /\ (start'.failed <=> start.failed)
          /\ start'.step = 1 /\ (start'.fk <=> start.fk)
      <4>1. 1 \in 1 .. 8 /\ start.fk \in BOOLEAN /\ start \in StartType
        BY <1>1 DEF StartType
      <4>2. start' = StartAt(1, start.fk)
        BY <3>3, Zenon DEF StartAt
      <4>3. QED
        BY <1>1, <4>1, <4>2, StartIs
    <3>5. /\ db' \in Database /\ (db'.versionTable <=> db.versionTable) /\ db'.logs = db.logs
          /\ db'.tables = db.tables /\ (db'.threadColumn <=> db.threadColumn)
          /\ (db'.leftover <=> db.leftover) /\ db'.version = 2 /\ db'.filed = db.filed
      BY <1>1, <1>2, <2>6, <3>2 DEF Database, ModelTables, RootTables
    <3>6. QED
      BY <1>1, <1>2, <2>6, <3>3, <3>4, <3>5 DEF At, MovedTo
  <2>7. QED
    BY <1>2, <2>1, ExecuteRoot, <2>2, <2>3, <2>4, <2>5, <2>6, Zenon
<1>3. CASE db.version = 2
  <2>1. start.step \in 1 .. 6
    BY <1>1, <1>3 DEF MigrationInOrder
  <2>2. CASE start.step = 1 /\ Moved(db, FALSE, 2, FALSE)
    <3>2. db' = db
      BY <2>2, Zenon DEF Moved
    <3>3. /\ start' = [start EXCEPT !.step = 2, !.fk = FALSE]
          /\ disk' = IF FALSE THEN db' ELSE disk
      BY <2>2, <3>2, Zenon DEF Moved
    <3>4. /\ start' \in StartType /\ start'.stage = "migrating"
          /\ (start'.fresh <=> start.fresh) /\ (start'.failed <=> start.failed)
          /\ start'.step = 2 /\ (start'.fk <=> FALSE)
      <4>1. 2 \in 1 .. 8 /\ FALSE \in BOOLEAN /\ start \in StartType
        BY <1>1 DEF StartType
      <4>2. start' = StartAt(2, FALSE)
        BY <3>3, Zenon DEF StartAt
      <4>3. QED
        BY <1>1, <4>1, <4>2, StartIs
    <3>5. /\ db' \in Database /\ (db'.versionTable <=> db.versionTable) /\ db'.logs = db.logs
          /\ db'.tables = db.tables /\ (db'.threadColumn <=> db.threadColumn)
          /\ (db'.leftover <=> db.leftover) /\ db'.version = 2 /\ db'.filed = db.filed
      BY <1>1, <1>3, <2>2, <3>2 DEF Database, ModelTables, RootTables
    <3>6. QED
      BY <1>1, <1>3, <2>2, <3>2, <3>3, <3>4, <3>5 DEF At, MovedTo
  <2>3. CASE start.step = 2 /\ ~ db.leftover /\ Moved([db EXCEPT !.leftover = TRUE], TRUE, 3, start.fk)
    <3>2. db' = [db EXCEPT !.leftover = TRUE]
      BY <2>3, Zenon DEF Moved
    <3>3. /\ start' = [start EXCEPT !.step = 3, !.fk = start.fk]
          /\ disk' = IF TRUE THEN db' ELSE disk
      BY <2>3, <3>2, Zenon DEF Moved
    <3>4. /\ start' \in StartType /\ start'.stage = "migrating"
          /\ (start'.fresh <=> start.fresh) /\ (start'.failed <=> start.failed)
          /\ start'.step = 3 /\ (start'.fk <=> start.fk)
      <4>1. 3 \in 1 .. 8 /\ start.fk \in BOOLEAN /\ start \in StartType
        BY <1>1 DEF StartType
      <4>2. start' = StartAt(3, start.fk)
        BY <3>3, Zenon DEF StartAt
      <4>3. QED
        BY <1>1, <4>1, <4>2, StartIs
    <3>5. /\ db' \in Database /\ (db'.versionTable <=> db.versionTable) /\ db'.logs = db.logs
          /\ db'.tables = db.tables /\ (db'.threadColumn <=> db.threadColumn)
          /\ (db'.leftover <=> TRUE) /\ db'.version = 2 /\ db'.filed = db.filed
      BY <1>1, <1>3, <2>3, <3>2 DEF Database, ModelTables, RootTables
    <3>6. QED
      BY <1>1, <1>3, <2>3, <3>3, <3>4, <3>5 DEF At, MovedTo
  <2>4. CASE start.step = 3 /\ Moved([db EXCEPT !.leftover = FALSE, !.logs = IF start.fk THEN {} ELSE @,
                           !.filed = IF start.fk THEN {} ELSE @], FALSE, 4, start.fk)
    <3>1. ~ start.fk
      BY <1>1, <1>3, <2>4 DEF MigrationInOrder
    <3>2. db' = [db EXCEPT !.leftover = FALSE, !.logs = @, !.filed = @]
      BY <2>4, <3>1, Zenon DEF Moved
    <3>3. /\ start' = [start EXCEPT !.step = 4, !.fk = start.fk]
          /\ disk' = IF FALSE THEN db' ELSE disk
      BY <2>4, <3>2, Zenon DEF Moved
    <3>4. /\ start' \in StartType /\ start'.stage = "migrating"
          /\ (start'.fresh <=> start.fresh) /\ (start'.failed <=> start.failed)
          /\ start'.step = 4 /\ (start'.fk <=> start.fk)
      <4>1. 4 \in 1 .. 8 /\ start.fk \in BOOLEAN /\ start \in StartType
        BY <1>1 DEF StartType
      <4>2. start' = StartAt(4, start.fk)
        BY <3>3, Zenon DEF StartAt
      <4>3. QED
        BY <1>1, <4>1, <4>2, StartIs
    <3>5. /\ db' \in Database /\ (db'.versionTable <=> db.versionTable) /\ db'.logs = db.logs
          /\ db'.tables = db.tables /\ (db'.threadColumn <=> db.threadColumn)
          /\ (db'.leftover <=> FALSE) /\ db'.version = 2 /\ db'.filed = db.filed
      BY <1>1, <1>3, <2>4, <3>2 DEF Database, ModelTables, RootTables
    <3>6. QED
      BY <1>1, <1>3, <2>4, <3>3, <3>4, <3>5 DEF At, MovedTo
  <2>5. CASE start.step = 4 /\ Moved([db EXCEPT !.logs = IF start.fk THEN @ \ db.filed ELSE @,
                           !.filed = IF start.fk THEN {} ELSE @], FALSE, 5, start.fk)
    <3>1. ~ start.fk
      BY <1>1, <1>3, <2>5 DEF MigrationInOrder
    <3>2. db' = [db EXCEPT !.logs = @, !.filed = @]
      BY <2>5, <3>1, Zenon DEF Moved
    <3>3. /\ start' = [start EXCEPT !.step = 5, !.fk = start.fk]
          /\ disk' = IF FALSE THEN db' ELSE disk
      BY <2>5, <3>2, Zenon DEF Moved
    <3>4. /\ start' \in StartType /\ start'.stage = "migrating"
          /\ (start'.fresh <=> start.fresh) /\ (start'.failed <=> start.failed)
          /\ start'.step = 5 /\ (start'.fk <=> start.fk)
      <4>1. 5 \in 1 .. 8 /\ start.fk \in BOOLEAN /\ start \in StartType
        BY <1>1 DEF StartType
      <4>2. start' = StartAt(5, start.fk)
        BY <3>3, Zenon DEF StartAt
      <4>3. QED
        BY <1>1, <4>1, <4>2, StartIs
    <3>5. /\ db' \in Database /\ (db'.versionTable <=> db.versionTable) /\ db'.logs = db.logs
          /\ db'.tables = db.tables /\ (db'.threadColumn <=> db.threadColumn)
          /\ (db'.leftover <=> db.leftover) /\ db'.version = 2 /\ db'.filed = db.filed
      BY <1>1, <1>3, <2>5, <3>2 DEF Database, ModelTables, RootTables
    <3>6. QED
      BY <1>1, <1>3, <2>5, <3>3, <3>4, <3>5 DEF At, MovedTo
  <2>6. CASE start.step = 5 /\ Moved(db, FALSE, 6, start.fk)
    <3>2. db' = db
      BY <2>6, Zenon DEF Moved
    <3>3. /\ start' = [start EXCEPT !.step = 6, !.fk = start.fk]
          /\ disk' = IF FALSE THEN db' ELSE disk
      BY <2>6, <3>2, Zenon DEF Moved
    <3>4. /\ start' \in StartType /\ start'.stage = "migrating"
          /\ (start'.fresh <=> start.fresh) /\ (start'.failed <=> start.failed)
          /\ start'.step = 6 /\ (start'.fk <=> start.fk)
      <4>1. 6 \in 1 .. 8 /\ start.fk \in BOOLEAN /\ start \in StartType
        BY <1>1 DEF StartType
      <4>2. start' = StartAt(6, start.fk)
        BY <3>3, Zenon DEF StartAt
      <4>3. QED
        BY <1>1, <4>1, <4>2, StartIs
    <3>5. /\ db' \in Database /\ (db'.versionTable <=> db.versionTable) /\ db'.logs = db.logs
          /\ db'.tables = db.tables /\ (db'.threadColumn <=> db.threadColumn)
          /\ (db'.leftover <=> db.leftover) /\ db'.version = 2 /\ db'.filed = db.filed
      BY <1>1, <1>3, <2>6, <3>2 DEF Database, ModelTables, RootTables
    <3>6. QED
      BY <1>1, <1>3, <2>6, <3>3, <3>4, <3>5 DEF At, MovedTo
  <2>7. CASE start.step = 6 /\ Moved([db EXCEPT !.version = 3], TRUE, 1, start.fk)
    <3>2. db' = [db EXCEPT !.version = 3]
      BY <2>7, Zenon DEF Moved
    <3>3. /\ start' = [start EXCEPT !.step = 1, !.fk = start.fk]
          /\ disk' = IF TRUE THEN db' ELSE disk
      BY <2>7, <3>2, Zenon DEF Moved
    <3>4. /\ start' \in StartType /\ start'.stage = "migrating"
          /\ (start'.fresh <=> start.fresh) /\ (start'.failed <=> start.failed)
          /\ start'.step = 1 /\ (start'.fk <=> start.fk)
      <4>1. 1 \in 1 .. 8 /\ start.fk \in BOOLEAN /\ start \in StartType
        BY <1>1 DEF StartType
      <4>2. start' = StartAt(1, start.fk)
        BY <3>3, Zenon DEF StartAt
      <4>3. QED
        BY <1>1, <4>1, <4>2, StartIs
    <3>5. /\ db' \in Database /\ (db'.versionTable <=> db.versionTable) /\ db'.logs = db.logs
          /\ db'.tables = db.tables /\ (db'.threadColumn <=> db.threadColumn)
          /\ (db'.leftover <=> db.leftover) /\ db'.version = 3 /\ db'.filed = db.filed
      BY <1>1, <1>3, <2>7, <3>2 DEF Database, ModelTables, RootTables
    <3>6. QED
      BY <1>1, <1>3, <2>7, <3>3, <3>4, <3>5 DEF At, MovedTo
  <2>8. QED
    BY <1>3, <2>1, ExecuteThreads, <2>2, <2>3, <2>4, <2>5, <2>6, <2>7, Zenon
<1>4. CASE db.version = 3
  <2>1. start.step \in 1 .. 3
    BY <1>1, <1>4 DEF MigrationInOrder
  <2>2. CASE start.step = 1 /\ Moved([db EXCEPT !.tables = @ \cup {"audit_events"}], TRUE, 2, start.fk)
    <3>2. db' = [db EXCEPT !.tables = @ \cup {"audit_events"}]
      BY <2>2, Zenon DEF Moved
    <3>3. /\ start' = [start EXCEPT !.step = 2, !.fk = start.fk]
          /\ disk' = IF TRUE THEN db' ELSE disk
      BY <2>2, <3>2, Zenon DEF Moved
    <3>4. /\ start' \in StartType /\ start'.stage = "migrating"
          /\ (start'.fresh <=> start.fresh) /\ (start'.failed <=> start.failed)
          /\ start'.step = 2 /\ (start'.fk <=> start.fk)
      <4>1. 2 \in 1 .. 8 /\ start.fk \in BOOLEAN /\ start \in StartType
        BY <1>1 DEF StartType
      <4>2. start' = StartAt(2, start.fk)
        BY <3>3, Zenon DEF StartAt
      <4>3. QED
        BY <1>1, <4>1, <4>2, StartIs
    <3>5. /\ db' \in Database /\ (db'.versionTable <=> db.versionTable) /\ db'.logs = db.logs
          /\ db'.tables = db.tables \cup {"audit_events"} /\ (db'.threadColumn <=> db.threadColumn)
          /\ (db'.leftover <=> db.leftover) /\ db'.version = 3 /\ db'.filed = db.filed
      BY <1>1, <1>4, <2>2, <3>2 DEF Database, ModelTables, RootTables
    <3>6. QED
      BY <1>1, <1>4, <2>2, <3>3, <3>4, <3>5 DEF At, MovedTo
  <2>3. CASE start.step = 2 /\ Moved([db EXCEPT !.tables = @ \cup {"request_logs"}], TRUE, 3, start.fk)
    <3>2. db' = [db EXCEPT !.tables = @ \cup {"request_logs"}]
      BY <2>3, Zenon DEF Moved
    <3>3. /\ start' = [start EXCEPT !.step = 3, !.fk = start.fk]
          /\ disk' = IF TRUE THEN db' ELSE disk
      BY <2>3, <3>2, Zenon DEF Moved
    <3>4. /\ start' \in StartType /\ start'.stage = "migrating"
          /\ (start'.fresh <=> start.fresh) /\ (start'.failed <=> start.failed)
          /\ start'.step = 3 /\ (start'.fk <=> start.fk)
      <4>1. 3 \in 1 .. 8 /\ start.fk \in BOOLEAN /\ start \in StartType
        BY <1>1 DEF StartType
      <4>2. start' = StartAt(3, start.fk)
        BY <3>3, Zenon DEF StartAt
      <4>3. QED
        BY <1>1, <4>1, <4>2, StartIs
    <3>5. /\ db' \in Database /\ (db'.versionTable <=> db.versionTable) /\ db'.logs = db.logs
          /\ db'.tables = db.tables \cup {"request_logs"} /\ (db'.threadColumn <=> db.threadColumn)
          /\ (db'.leftover <=> db.leftover) /\ db'.version = 3 /\ db'.filed = db.filed
      BY <1>1, <1>4, <2>3, <3>2 DEF Database, ModelTables, RootTables
    <3>6. QED
      BY <1>1, <1>4, <2>3, <3>3, <3>4, <3>5 DEF At, MovedTo
  <2>4. CASE start.step = 3 /\ Moved([db EXCEPT !.version = 4], TRUE, 1, start.fk)
    <3>2. db' = [db EXCEPT !.version = 4]
      BY <2>4, Zenon DEF Moved
    <3>3. /\ start' = [start EXCEPT !.step = 1, !.fk = start.fk]
          /\ disk' = IF TRUE THEN db' ELSE disk
      BY <2>4, <3>2, Zenon DEF Moved
    <3>4. /\ start' \in StartType /\ start'.stage = "migrating"
          /\ (start'.fresh <=> start.fresh) /\ (start'.failed <=> start.failed)
          /\ start'.step = 1 /\ (start'.fk <=> start.fk)
      <4>1. 1 \in 1 .. 8 /\ start.fk \in BOOLEAN /\ start \in StartType
        BY <1>1 DEF StartType
      <4>2. start' = StartAt(1, start.fk)
        BY <3>3, Zenon DEF StartAt
      <4>3. QED
        BY <1>1, <4>1, <4>2, StartIs
    <3>5. /\ db' \in Database /\ (db'.versionTable <=> db.versionTable) /\ db'.logs = db.logs
          /\ db'.tables = db.tables /\ (db'.threadColumn <=> db.threadColumn)
          /\ (db'.leftover <=> db.leftover) /\ db'.version = 4 /\ db'.filed = db.filed
      BY <1>1, <1>4, <2>4, <3>2 DEF Database, ModelTables, RootTables
    <3>6. QED
      BY <1>1, <1>4, <2>4, <3>3, <3>4, <3>5 DEF At, MovedTo
  <2>5. QED
    BY <1>4, <2>1, ExecuteChecks, <2>2, <2>3, <2>4, Zenon
<1>5. db.version = 1 \/ db.version = 2 \/ db.version = 3
  BY <1>1
<1>6. QED
  BY <1>2, <1>3, <1>4, <1>5, Zenon

\* The other steps of a start, field by field.
LEMMA StoppedIs ==
    /\ Stopped \in StartType /\ Stopped.stage = "down" /\ Stopped.step = 1
    /\ Stopped.fk /\ ~ Stopped.fresh /\ ~ Stopped.failed
BY DEF Stopped, StartType

LEMMA BeginIs ==
    ASSUME SchemaInv, Begin
    PROVE  /\ start' \in StartType /\ start'.step = 1 /\ start'.fk /\ ~ start'.failed
           /\ start'.fresh <=> ~ HasAnyTable(disk)
           /\ start'.stage = IF ~ HasAnyTable(disk) THEN "creating"
                             ELSE IF ~ HasVersionRow(disk) THEN "stamping" ELSE "migrating"
           /\ status' = "pending" /\ db = disk /\ db' = disk /\ UNCHANGED <<disk, faults, first>>
<1> DEFINE stage == IF ~ HasAnyTable(disk) THEN "creating"
                    ELSE IF ~ HasVersionRow(disk) THEN "stamping" ELSE "migrating"
<1>1. ASSUME NEW fresh \in BOOLEAN, NEW r, r = [Stopped EXCEPT !.fresh = fresh, !.stage = stage]
      PROVE  r = [stage |-> stage, step |-> 1, fk |-> TRUE, fresh |-> fresh, failed |-> FALSE]
  <2> HIDE DEF stage
  <2>1. QED
    BY <1>1 DEF Stopped
<1>2. start' = [stage |-> stage, step |-> 1, fk |-> TRUE, fresh |-> ~ HasAnyTable(disk),
                failed |-> FALSE]
  <2>1. (~ HasAnyTable(disk)) \in BOOLEAN
    BY DEF HasAnyTable
  <2>2. start' = [Stopped EXCEPT !.fresh = ~ HasAnyTable(disk), !.stage = stage]
    BY Zenon DEF Begin
  <2>3. QED
    BY <1>1, <2>1, <2>2, Zenon
<1>3. stage \in {"creating", "stamping", "migrating"}
  BY Zenon
<1>4. start' \in StartType /\ start'.step = 1 /\ start'.fk /\ ~ start'.failed
      /\ (start'.fresh <=> ~ HasAnyTable(disk)) /\ start'.stage = stage
  <2> HIDE DEF stage
  <2>1. PICK fresh \in BOOLEAN : /\ fresh <=> ~ HasAnyTable(disk)
           /\ start' = [stage |-> stage, step |-> 1, fk |-> TRUE, fresh |-> fresh,
                        failed |-> FALSE]
    BY <1>2, Zenon DEF HasAnyTable
  <2>2. QED
    BY <1>3, <2>1 DEF StartType
<1>5. status' = "pending" /\ db = disk /\ db' = disk /\ UNCHANGED <<disk, faults, first>>
  BY DEF Begin, SchemaInv, SchemaType, Starting
<1>6. QED
  BY <1>4, <1>5, Zenon

LEMMA MovesIs ==
    ASSUME SchemaInv, NEW stage \in {"creating", "stamping", "migrating", "serving"}, Moves(stage)
    PROVE  /\ start' \in StartType /\ start'.stage = stage /\ start'.step = 1 /\ start'.fk
           /\ (start'.fresh <=> start.fresh) /\ (start'.failed <=> start.failed)
<1>1. start \in StartType
  BY DEF SchemaInv, SchemaType
<1>2. start' = [stage |-> stage, step |-> 1, fk |-> TRUE, fresh |-> start.fresh,
                failed |-> start.failed]
  <2>1. ASSUME NEW s \in StartType, NEW r,
               r = [s EXCEPT !.stage = stage, !.step = 1, !.fk = TRUE]
        PROVE  r = [stage |-> stage, step |-> 1, fk |-> TRUE, fresh |-> s.fresh,
                    failed |-> s.failed]
    BY <2>1 DEF StartType
  <2>2. QED
    BY <1>1, <2>1, Zenon DEF Moves
<1>3. QED
  BY <1>1, <1>2 DEF StartType

LEMMA RaisesIs ==
    ASSUME SchemaInv, NEW injected \in BOOLEAN, Raises(injected)
    PROVE  /\ start' \in StartType /\ start'.stage = "serving" /\ (start'.failed <=> injected)
           /\ status' = "error" /\ db' = disk /\ UNCHANGED <<disk, first>>
<1>1. start \in StartType
  BY DEF SchemaInv, SchemaType
<1>2. start' = [stage |-> "serving", step |-> 1, fk |-> TRUE, fresh |-> start.fresh,
                failed |-> injected]
  <2>1. ASSUME NEW s \in StartType, NEW r,
               r = [s EXCEPT !.stage = "serving", !.step = 1, !.fk = TRUE, !.failed = injected]
        PROVE  r = [stage |-> "serving", step |-> 1, fk |-> TRUE, fresh |-> s.fresh,
                    failed |-> injected]
    BY <2>1 DEF StartType
  <2>2. QED
    BY <1>1, <2>1, Zenon DEF Raises
<1>3. status' = "error" /\ db' = disk /\ UNCHANGED <<disk, first>>
  BY Zenon DEF Raises
<1>4. QED
  BY <1>1, <1>2, <1>3 DEF StartType

\* The table that create_all makes, and where the start is then.
LEMMA CreateIs ==
    ASSUME SchemaInv, Create
    PROVE  /\ CreateOrder[start.step] \in ModelTables
           /\ db' \in Database /\ db'.tables = db.tables \cup {CreateOrder[start.step]}
           /\ (db'.threadColumn <=> start.step = 8) /\ (db'.leftover <=> db.leftover)
           /\ (db'.versionTable <=> db.versionTable) /\ db'.version = db.version
           /\ db'.logs = db.logs /\ db'.filed = db.filed /\ disk' = db'
           /\ start' \in StartType /\ (start'.fresh <=> start.fresh)
           /\ (start'.failed <=> start.failed)
           /\ IF start.step = 8 THEN start'.stage = "stamping" /\ start'.step = 1
              ELSE start'.stage = "creating" /\ start'.step = start.step + 1
           /\ start.stage = "creating" /\ UNCHANGED <<status, faults, first>>
<1>1. db \in Database /\ start \in StartType /\ start.step \in 1 .. 8
  BY DEF SchemaInv, SchemaType, StartType
<1>2. PICK t \in ModelTables : t = CreateOrder[start.step] /\ (t = "chat_logs" <=> start.step = 8)
  <2>1. ASSUME NEW S, S = <<"users", "audit_events", "request_logs", "admin_grants",
                            "password_resets", "session_revocations", "threads", "chat_logs">>,
               NEW n \in 1 .. 8
        PROVE  S[n] \in ModelTables /\ (S[n] = "chat_logs" <=> n = 8)
    <3>1. n = 1 \/ n = 2 \/ n = 3 \/ n = 4 \/ n = 5 \/ n = 6 \/ n = 7 \/ n = 8
      OBVIOUS
    <3>2. QED
      BY <2>1, <3>1 DEF ModelTables, RootTables
  <2>2. CreateOrder[start.step] \in ModelTables
        /\ (CreateOrder[start.step] = "chat_logs" <=> start.step = 8)
    BY <1>1, <2>1, Zenon DEF CreateOrder
  <2>3. QED
    BY <2>2
<1>3. db' = [db EXCEPT !.tables = db.tables \cup {t}, !.threadColumn = t = "chat_logs"]
      /\ disk' = db'
  BY <1>2, Zenon DEF Create
<1>4. /\ db' \in Database /\ db'.tables = db.tables \cup {t}
      /\ (db'.threadColumn <=> t = "chat_logs") /\ (db'.leftover <=> db.leftover)
      /\ (db'.versionTable <=> db.versionTable) /\ db'.version = db.version
      /\ db'.logs = db.logs /\ db'.filed = db.filed
  BY <1>1, <1>2, <1>3 DEF Database
<1>5. Len(CreateOrder) = 8
  BY DEF CreateOrder
<1>6. /\ start' \in StartType /\ (start'.fresh <=> start.fresh)
      /\ (start'.failed <=> start.failed)
      /\ IF start.step = 8 THEN start'.stage = "stamping" /\ start'.step = 1
         ELSE start'.stage = "creating" /\ start'.step = start.step + 1
  <2>1. CASE start.step = 8
    <3>1. Moves("stamping")
      BY <1>5, <2>1, Zenon DEF Create
    <3>2. QED
      BY <2>1, <3>1, MovesIs
  <2>2. CASE start.step # 8
    <3>1. start' = [start EXCEPT !.step = start.step + 1] /\ start.stage = "creating"
      BY <1>5, <2>2, Zenon DEF Create
    <3>2. QED
      BY <1>1, <2>2, <3>1 DEF StartType
  <2>3. QED
    BY <2>1, <2>2, Zenon
<1>7. start.stage = "creating" /\ UNCHANGED <<status, faults, first>>
  BY DEF Create
<1>8. QED
  BY <1>2, <1>3, <1>4, <1>6, <1>7, Zenon

\* The two steps of a stamp.
LEMMA StampIs ==
    ASSUME SchemaInv, Stamp
    PROVE  /\ start.stage = "stamping" /\ UNCHANGED <<faults, first>>
           /\ db' \in Database /\ db'.tables = db.tables
           /\ (db'.threadColumn <=> db.threadColumn) /\ (db'.leftover <=> db.leftover)
           /\ db'.versionTable /\ db'.logs = db.logs /\ db'.filed = db.filed /\ disk' = db'
           /\ start' \in StartType
           /\ \/ ~ db.versionTable /\ db'.version = db.version /\ UNCHANGED <<start, status>>
              \/ /\ db.versionTable /\ db'.version = Adopted(db)
                 /\ start'.step = 1 /\ (start'.failed <=> start.failed)
                 /\ (start'.fresh <=> start.fresh)
                 /\ IF start.fresh THEN start'.stage = "serving" /\ status' = "ok"
                    ELSE start'.stage = "migrating" /\ UNCHANGED status
<1>1. db \in Database /\ start \in StartType
  BY DEF SchemaInv, SchemaType
<1>2. start.stage = "stamping" /\ disk' = db' /\ UNCHANGED <<faults, first>>
  BY DEF Stamp
<1>3. CASE ~ db.versionTable
  <2>1. db' = [db EXCEPT !.versionTable = TRUE] /\ UNCHANGED <<start, status>>
    BY <1>3, Zenon DEF Stamp
  <2>2. /\ db' \in Database /\ db'.tables = db.tables
        /\ (db'.threadColumn <=> db.threadColumn) /\ (db'.leftover <=> db.leftover)
        /\ db'.versionTable /\ db'.logs = db.logs /\ db'.filed = db.filed
        /\ db'.version = db.version
    BY <1>1, <2>1 DEF Database
  <2>3. QED
    BY <1>1, <1>2, <1>3, <2>1, <2>2, Zenon
<1>4. CASE db.versionTable
  <2>1. /\ db' = [db EXCEPT !.version = Adopted(db)]
        /\ IF start.fresh THEN Moves("serving") /\ status' = "ok"
           ELSE Moves("migrating") /\ UNCHANGED status
    BY <1>4, Zenon DEF Stamp
  <2>2. Adopted(db) \in 1 .. 4
    BY DEF Adopted
  <2>3. /\ db' \in Database /\ db'.tables = db.tables
        /\ (db'.threadColumn <=> db.threadColumn) /\ (db'.leftover <=> db.leftover)
        /\ db'.versionTable /\ db'.logs = db.logs /\ db'.filed = db.filed
        /\ db'.version = Adopted(db)
    BY <1>1, <1>4, <2>1, <2>2 DEF Database
  <2>4. /\ start' \in StartType /\ start'.step = 1 /\ (start'.failed <=> start.failed)
        /\ (start'.fresh <=> start.fresh)
        /\ IF start.fresh THEN start'.stage = "serving" /\ status' = "ok"
           ELSE start'.stage = "migrating" /\ UNCHANGED status
    BY <2>1, MovesIs
  <2>5. QED
    BY <1>2, <1>4, <2>3, <2>4, Zenon
<1>5. QED
  BY <1>3, <1>4

\* create_all makes every table.
LEMMA CreatesAll == \A x \in ModelTables : \E n \in 1 .. 8 : CreateOrder[n] = x
<1>1. ASSUME NEW S, S = <<"users", "audit_events", "request_logs", "admin_grants",
                          "password_resets", "session_revocations", "threads", "chat_logs">>
      PROVE  /\ S[1] = "users" /\ S[2] = "audit_events" /\ S[3] = "request_logs"
             /\ S[4] = "admin_grants" /\ S[5] = "password_resets"
             /\ S[6] = "session_revocations" /\ S[7] = "threads" /\ S[8] = "chat_logs"
  BY <1>1
<1>2. /\ CreateOrder[1] = "users" /\ CreateOrder[2] = "audit_events"
      /\ CreateOrder[3] = "request_logs" /\ CreateOrder[4] = "admin_grants"
      /\ CreateOrder[5] = "password_resets" /\ CreateOrder[6] = "session_revocations"
      /\ CreateOrder[7] = "threads" /\ CreateOrder[8] = "chat_logs"
  BY <1>1, Zenon DEF CreateOrder
<1>3. QED
  BY <1>2 DEF ModelTables, RootTables

\* A database from before revisions.
IsUnversioned(d, tables) ==
    /\ d \in Database /\ d.tables = tables /\ ~ d.threadColumn /\ ~ d.leftover
    /\ ~ d.versionTable /\ d.version = None

LEMMA SchemaInvInit == SchemaInit => SchemaInv
<1> SUFFICES ASSUME SchemaInit
             PROVE  SchemaInv
  OBVIOUS
<1>1. /\ first \in Database /\ first.version \in {None, Root} /\ ~ first.leftover
      /\ ~ first.threadColumn /\ (HasVersionRow(first) => first.versionTable)
      /\ ~ HasAnyTable(first) => first.logs = {} /\ first.filed = {}
  <2> DEFINE ts == RootTables \ {"session_revocations"}
  <2>1. /\ Empty \in Database /\ Empty.tables = {} /\ ~ Empty.threadColumn /\ ~ Empty.leftover
        /\ ~ Empty.versionTable /\ Empty.version = None /\ Empty.logs = {} /\ Empty.filed = {}
    BY DEF Empty, Database
  <2>2. ASSUME NEW d \in Database, ~ d.threadColumn, ~ d.leftover, ~ d.versionTable,
               d.version = None, NEW tables \in SUBSET ModelTables, NEW r,
               r = [d EXCEPT !.tables = tables, !.logs = Logs]
        PROVE  IsUnversioned(r, tables)
    BY <2>2 DEF Database, IsUnversioned
  <2>3. ASSUME NEW d \in Database, ~ d.threadColumn, ~ d.leftover, NEW r,
               r = [d EXCEPT !.tables = RootTables, !.versionTable = TRUE,
                             !.version = Root, !.logs = Logs]
        PROVE  /\ r \in Database /\ r.tables = RootTables /\ ~ r.threadColumn /\ ~ r.leftover
               /\ r.versionTable /\ r.version = Root
    <3>1. r = [tables |-> RootTables, threadColumn |-> d.threadColumn, leftover |-> d.leftover,
               versionTable |-> TRUE, version |-> Root, logs |-> Logs, filed |-> d.filed]
      BY <2>3 DEF Database
    <3>2. RootTables \in SUBSET ModelTables /\ Root \in Root .. Latest
      BY DEF ModelTables
    <3>3. QED
      BY <2>3, <3>1, <3>2 DEF Database
  <2>4. ASSUME NEW tables \in SUBSET ModelTables
        PROVE  /\ Unversioned(tables) \in Database /\ Unversioned(tables).tables = tables
               /\ ~ Unversioned(tables).threadColumn /\ ~ Unversioned(tables).leftover
               /\ ~ Unversioned(tables).versionTable /\ Unversioned(tables).version = None
    <3>1. Unversioned(tables) = [Empty EXCEPT !.tables = tables, !.logs = Logs]
      BY Zenon DEF Unversioned
    <3>2. IsUnversioned(Unversioned(tables), tables)
      BY <2>1, <2>2, <3>1, Zenon
    <3>3. QED
      BY <3>2 DEF IsUnversioned
  <2>5. CASE first = Empty
    BY <2>1, <2>5 DEF HasVersionRow, HasAnyTable
  <2>6. CASE first = AtRoot
    <3>1. first = [Empty EXCEPT !.tables = RootTables, !.versionTable = TRUE,
                                !.version = Root, !.logs = Logs]
      BY <2>6, Zenon DEF AtRoot
    <3>2. /\ first \in Database /\ first.tables = RootTables /\ ~ first.threadColumn
          /\ ~ first.leftover /\ first.versionTable /\ first.version = Root
      BY <2>1, <2>3, <3>1, Zenon
    <3>3. QED
      BY <3>2 DEF HasVersionRow, HasAnyTable
  <2>7. ASSUME NEW tables \in SUBSET ModelTables, tables # {}, first = Unversioned(tables)
        PROVE  /\ first \in Database /\ first.version \in {None, Root} /\ ~ first.leftover
               /\ ~ first.threadColumn /\ (HasVersionRow(first) => first.versionTable)
               /\ ~ HasAnyTable(first) => first.logs = {} /\ first.filed = {}
    BY <2>4, <2>7 DEF HasVersionRow, HasAnyTable
  <2>8. RootTables \in SUBSET ModelTables /\ ts \in SUBSET ModelTables
        /\ RootTables # {} /\ ts # {}
    BY DEF RootTables, ModelTables
  <2>9. first \in {Empty, AtRoot, Unversioned(RootTables), Unversioned(ts)}
    BY Zenon DEF SchemaInit
  <2> HIDE DEF ts
  <2>10. QED
    BY <2>5, <2>6, <2>7, <2>8, <2>9, Zenon
<1>2. /\ disk = first /\ db = first /\ start = Stopped /\ status = "pending" /\ faults = 0
  BY DEF SchemaInit
<1>3. SchemaType
  BY <1>1, <1>2, StoppedIs, SchemaAssumption DEF SchemaType
<1>4. StartInOrder
  BY <1>2, StoppedIs DEF StartInOrder, Starting
<1>5. Sound(first)
  BY <1>1, SchemaAssumption DEF Sound, IsCurrent
<1>6. QED
  BY <1>2, <1>3, <1>4, <1>5 DEF SchemaInv

LEMMA ExecuteKeeps == SchemaInv /\ Execute => SchemaInv'
<1> SUFFICES ASSUME SchemaInv, Execute
             PROVE  SchemaInv'
  OBVIOUS
<1>1. /\ SchemaType /\ MigrationInOrder /\ Sound(disk) /\ Sound(db)
      /\ start.stage = "migrating" /\ (start.step = 1 => db = disk) /\ status = "pending"
  BY DEF SchemaInv, StartInOrder, Execute, Starting
<1>2. /\ db' \in Database /\ (db'.versionTable <=> db.versionTable) /\ db'.logs = db.logs
      /\ start' \in StartType /\ start'.stage = "migrating"
      /\ UNCHANGED <<status, faults, first>>
  BY ExecuteIs
<1>3. db.version \in 1 .. 3 /\ db.version # None /\ disk.version = db.version
  BY <1>1, SchemaAssumption DEF Execute, MigrationInOrder
<1>4. /\ disk' \in {db', disk} /\ Sound(db)' /\ Sound(disk)' /\ MigrationInOrder'
      /\ (start'.step = 1 => db' = disk')
  <2>1. CASE /\ At(1, 1) /\ "threads" \notin db.tables
              /\ MovedTo(db.tables \cup {"threads"}, db.threadColumn, db.leftover, 1,
                    db.filed, TRUE, 2, start.fk)
    BY <1>1, <1>2, <1>3, <2>1, SchemaAssumption
       DEF At, MovedTo, Sound, MigrationInOrder, HasVersionRow, HasAnyTable, IsCurrent, SchemaType
  <2>2. CASE /\ At(1, 2)
              /\ MovedTo(db.tables, db.threadColumn, db.leftover, 1,
                    db.filed, FALSE, 3, start.fk)
    BY <1>1, <1>2, <1>3, <2>2, SchemaAssumption
       DEF At, MovedTo, Sound, MigrationInOrder, HasVersionRow, HasAnyTable, IsCurrent, SchemaType
  <2>3. CASE /\ At(1, 3) /\ "chat_logs" \in db.tables /\ ~ db.threadColumn
              /\ MovedTo(db.tables, TRUE, db.leftover, 1,
                    db.filed, FALSE, 4, start.fk)
    BY <1>1, <1>2, <1>3, <2>3, SchemaAssumption
       DEF At, MovedTo, Sound, MigrationInOrder, HasVersionRow, HasAnyTable, IsCurrent, SchemaType
  <2>4. CASE /\ At(1, 4)
              /\ MovedTo(db.tables, db.threadColumn, db.leftover, 1,
                    db.logs, FALSE, 5, start.fk)
    BY <1>1, <1>2, <1>3, <2>4, SchemaAssumption
       DEF At, MovedTo, Sound, MigrationInOrder, HasVersionRow, HasAnyTable, IsCurrent, SchemaType
  <2>5. CASE /\ At(1, 5)
              /\ MovedTo(db.tables, db.threadColumn, db.leftover, 2,
                    db.filed, TRUE, 1, start.fk)
    BY <1>1, <1>2, <1>3, <2>5, SchemaAssumption
       DEF At, MovedTo, Sound, MigrationInOrder, HasVersionRow, HasAnyTable, IsCurrent, SchemaType
  <2>6. CASE /\ At(2, 1) /\ db' = db
              /\ MovedTo(db.tables, db.threadColumn, db.leftover, 2,
                    db.filed, FALSE, 2, FALSE)
    BY <1>1, <1>2, <1>3, <2>6, SchemaAssumption
       DEF At, MovedTo, Sound, MigrationInOrder, HasVersionRow, HasAnyTable, IsCurrent, SchemaType
  <2>7. CASE /\ At(2, 2) /\ ~ db.leftover
              /\ MovedTo(db.tables, db.threadColumn, TRUE, 2,
                    db.filed, TRUE, 3, start.fk)
    BY <1>1, <1>2, <1>3, <2>7, SchemaAssumption
       DEF At, MovedTo, Sound, MigrationInOrder, HasVersionRow, HasAnyTable, IsCurrent, SchemaType
  <2>8. CASE /\ At(2, 3)
              /\ MovedTo(db.tables, db.threadColumn, FALSE, 2,
                    db.filed, FALSE, 4, start.fk)
    BY <1>1, <1>2, <1>3, <2>8, SchemaAssumption
       DEF At, MovedTo, Sound, MigrationInOrder, HasVersionRow, HasAnyTable, IsCurrent, SchemaType
  <2>9. CASE /\ At(2, 4)
              /\ MovedTo(db.tables, db.threadColumn, db.leftover, 2,
                    db.filed, FALSE, 5, start.fk)
    BY <1>1, <1>2, <1>3, <2>9, SchemaAssumption
       DEF At, MovedTo, Sound, MigrationInOrder, HasVersionRow, HasAnyTable, IsCurrent, SchemaType
  <2>10. CASE /\ At(2, 5)
              /\ MovedTo(db.tables, db.threadColumn, db.leftover, 2,
                    db.filed, FALSE, 6, start.fk)
    BY <1>1, <1>2, <1>3, <2>10, SchemaAssumption
       DEF At, MovedTo, Sound, MigrationInOrder, HasVersionRow, HasAnyTable, IsCurrent, SchemaType
  <2>11. CASE /\ At(2, 6)
              /\ MovedTo(db.tables, db.threadColumn, db.leftover, 3,
                    db.filed, TRUE, 1, start.fk)
    BY <1>1, <1>2, <1>3, <2>11, SchemaAssumption
       DEF At, MovedTo, Sound, MigrationInOrder, HasVersionRow, HasAnyTable, IsCurrent, SchemaType
  <2>12. CASE /\ At(3, 1)
              /\ MovedTo(db.tables \cup {"audit_events"}, db.threadColumn, db.leftover, 3,
                    db.filed, TRUE, 2, start.fk)
    BY <1>1, <1>2, <1>3, <2>12, SchemaAssumption
       DEF At, MovedTo, Sound, MigrationInOrder, HasVersionRow, HasAnyTable, IsCurrent, SchemaType
  <2>13. CASE /\ At(3, 2)
              /\ MovedTo(db.tables \cup {"request_logs"}, db.threadColumn, db.leftover, 3,
                    db.filed, TRUE, 3, start.fk)
    BY <1>1, <1>2, <1>3, <2>13, SchemaAssumption
       DEF At, MovedTo, Sound, MigrationInOrder, HasVersionRow, HasAnyTable, IsCurrent, SchemaType
  <2>14. CASE /\ At(3, 3)
              /\ MovedTo(db.tables, db.threadColumn, db.leftover, 4,
                    db.filed, TRUE, 1, start.fk)
    BY <1>1, <1>2, <1>3, <2>14, SchemaAssumption
       DEF At, MovedTo, Sound, MigrationInOrder, HasVersionRow, HasAnyTable, IsCurrent, SchemaType
  <2>15. QED
    BY ExecuteIs, <2>1, <2>2, <2>3, <2>4, <2>5, <2>6, <2>7, <2>8, <2>9, <2>10, <2>11, <2>12, <2>13, <2>14, Zenon
<1>5. SchemaType'
  BY <1>1, <1>2, <1>4 DEF SchemaType, Starting
<1>6. StartInOrder'
  BY <1>1, <1>2, <1>4 DEF StartInOrder, Starting
<1>7. QED
  BY <1>4, <1>5, <1>6 DEF SchemaInv

LEMMA SchemaStep == SchemaInv /\ SchemaNext => SchemaInv'
<1> SUFFICES ASSUME SchemaInv, SchemaNext
             PROVE  SchemaInv'
  OBVIOUS
<1>0. SchemaType /\ StartInOrder /\ Sound(disk) /\ Sound(db)
  BY DEF SchemaInv
<1>1. CASE Begin
  <2>1. SchemaType'
    BY <1>0, <1>1, BeginIs DEF SchemaType, Starting
  <2>2. Sound(disk)' /\ Sound(db)'
    BY <1>0, <1>1, BeginIs DEF Sound, HasAnyTable, HasVersionRow, IsCurrent
  <2>3. MigrationInOrder' \/ start'.stage # "migrating"
    BY <1>0, <1>1, BeginIs DEF MigrationInOrder, HasVersionRow
  <2>4. StartInOrder'
    BY <1>0, <1>1, <2>3, BeginIs
       DEF StartInOrder, Starting, Sound, HasAnyTable, HasVersionRow, IsCurrent, ModelTables
  <2>5. QED
    BY <2>1, <2>2, <2>4 DEF SchemaInv
<1>2. CASE Create
  <2>1. SchemaType'
    BY <1>0, <1>2, CreateIs DEF SchemaType, Starting
  <2>2. db.version = None /\ db.logs = {} /\ db.filed = {} /\ start.fresh
    BY <1>0, <1>2, CreateIs DEF StartInOrder
  <2>3. Sound(disk)' /\ Sound(db)'
    BY <1>0, <1>2, <2>2, CreateIs, SchemaAssumption, ZenonT(60)
       DEF Sound, HasAnyTable, HasVersionRow, IsCurrent
  <2>4. \A n \in 1 .. start.step : CreateOrder[n] \in db'.tables
    BY <1>0, <1>2, CreateIs DEF StartInOrder, SchemaType, StartType
  <2>5. start.step = 8 => IsCurrent(db)'
    BY <1>2, <2>4, CreatesAll, CreateIs DEF IsCurrent
  <2>6. StartInOrder'
    BY <1>0, <1>2, <2>2, <2>4, <2>5, CreateIs DEF StartInOrder, Starting, SchemaType, StartType
  <2>7. QED
    BY <2>1, <2>3, <2>6 DEF SchemaInv
<1>3. CASE Stamp
  <2>1. SchemaType'
    BY <1>0, <1>3, StampIs DEF SchemaType, Starting
  <2>2. db.version = None /\ IF start.fresh THEN IsCurrent(db) ELSE HasAnyTable(db)
    BY <1>0, <1>3, StampIs DEF StartInOrder
  <2>3. Sound(disk)' /\ Sound(db)'
    BY <1>0, <1>3, <2>2, StampIs, SchemaAssumption
       DEF Sound, HasAnyTable, HasVersionRow, IsCurrent, Adopted
  <2>4. start'.stage = "migrating" => MigrationInOrder'
    BY <1>0, <1>3, <2>2, StampIs, SchemaAssumption DEF MigrationInOrder, HasVersionRow, Adopted
  <2>5. StartInOrder'
    BY <1>0, <1>3, <2>2, <2>4, StampIs
       DEF StartInOrder, Starting, HasAnyTable, IsCurrent, SchemaType
  <2>6. QED
    BY <2>1, <2>3, <2>5 DEF SchemaInv
<1>4. CASE Execute
  BY <1>4, ExecuteKeeps
<1>5. ASSUME start' \in StartType, ~ Starting', db' = disk, UNCHANGED <<disk, first>>,
             status' \in {"pending", "ok", "error"}, faults' \in 0 .. MaxFaults
      PROVE  SchemaInv'
  <2>1. SchemaType'
    BY <1>0, <1>5 DEF SchemaType
  <2>2. StartInOrder'
    BY <1>5 DEF StartInOrder, Starting
  <2>3. Sound(disk)' /\ Sound(db)'
    BY <1>0, <1>5 DEF Sound, HasAnyTable, HasVersionRow, IsCurrent
  <2>4. QED
    BY <2>1, <2>2, <2>3 DEF SchemaInv
<1>6. CASE Check
  <2>1. Moves("serving") /\ status' = "ok" /\ UNCHANGED <<disk, db, faults, first>> /\ db = disk
    <3>1. start.stage = "migrating" /\ db.version = 4
      BY <1>6 DEF Check
    <3>2. db = disk
      BY <1>0, <3>1 DEF StartInOrder, MigrationInOrder
    <3>3. QED
      BY <1>6, <3>2 DEF Check
  <2>2. start' \in StartType /\ ~ Starting'
    BY <2>1, MovesIs DEF Starting
  <2>3. QED
    BY <1>0, <1>5, <2>1, <2>2 DEF SchemaType
<1>7. CASE Refused
  <2>1. Raises(FALSE) /\ faults' = faults
    BY <1>7 DEF Refused
  <2>2. QED
    BY <1>0, <1>5, <2>1, RaisesIs DEF SchemaType, Starting
<1>8. CASE StatementFails
  <2>1. Raises(TRUE) /\ faults' = faults + 1 /\ faults < MaxFaults
    BY <1>8 DEF StatementFails
  <2>2. faults' \in 0 .. MaxFaults
    BY <1>0, <2>1, SchemaAssumption DEF SchemaType
  <2>3. QED
    BY <1>5, <2>1, <2>2, RaisesIs DEF Starting
<1>9. CASE Crash
  <2>1. faults' \in 0 .. MaxFaults
    BY <1>0, <1>9, SchemaAssumption DEF SchemaType, Crash
  <2>2. QED
    BY <1>0, <1>5, <1>9, <2>1, StoppedIs DEF SchemaType, Crash, Starting
<1>10. CASE Stop
  BY <1>0, <1>5, <1>10, StoppedIs DEF SchemaType, Stop, Starting
<1>11. QED
  BY <1>1, <1>2, <1>3, <1>4, <1>6, <1>7, <1>8, <1>9, <1>10 DEF SchemaNext

-----------------------------------------------------------------------------
(* The backups: types, and what the complete ones have in them.            *)

FileType == [state : {"none", "partial", "complete"}, mtime : 0 .. MaxWrites,
             content : Database \cup {Nothing}]

CallType == [stage : {"unused", "copying", "removing", "done", "failed"}, old : SUBSET Calls]

BackupType ==
    /\ files \in [Calls -> FileType] /\ calls \in [Calls -> CallType]
    /\ writes \in 0 .. MaxWrites /\ noted \subseteq {"overlap", "crash", "half"}

CopiesSound ==
    \A i \in Calls : files[i].state = "complete" =>
        files[i].content \in Database /\ Sound(files[i].content)

DeploymentInv == SchemaInv /\ BackupType /\ CopiesSound

LEMMA TypeIs == DeploymentTypeOK <=> SchemaType /\ BackupType
BY Zenon DEF DeploymentTypeOK, SchemaType, BackupType, StartType, FileType, CallType

\* What a backup does to the files: one is written, or one is removed.
Write(i, state, content) ==
    files' = [j \in Calls |->
                IF j = i THEN [state |-> state, mtime |-> writes + 1, content |-> content]
                ELSE files[j]]

LEMMA WrittenIs ==
    ASSUME BackupType, NEW i \in Calls, NEW state \in {"partial", "complete"},
           NEW content \in Database \cup {Nothing}, Written(i, state, content)
    PROVE  /\ Write(i, state, content) /\ files' \in [Calls -> FileType]
           /\ writes' = writes + 1 /\ writes' \in 0 .. MaxWrites
<1>1. writes' = writes + 1 /\ writes' \in 0 .. MaxWrites /\ writes + 1 \in 0 .. MaxWrites
  BY BackupAssumption DEF Written, BackupType
<1>2. files' = [files EXCEPT ![i] = [state |-> state, mtime |-> writes + 1, content |-> content]]
  BY <1>1, Zenon DEF Written
<1>3. Write(i, state, content)
  BY <1>2 DEF Write, BackupType
<1>4. [state |-> state, mtime |-> writes + 1, content |-> content] \in FileType
  BY <1>1 DEF FileType
<1>5. files' \in [Calls -> FileType]
  BY <1>3, <1>4 DEF Write, BackupType
<1>6. QED
  BY <1>1, <1>3, <1>5

LEMMA RemovedIs ==
    ASSUME BackupType, NEW i \in Calls, files' = [files EXCEPT ![i] = NoFile]
    PROVE  /\ files' \in [Calls -> FileType]
           /\ files' = [j \in Calls |-> IF j = i THEN NoFile ELSE files[j]]
<1>1. NoFile \in FileType
  BY BackupAssumption DEF NoFile, FileType
<1>2. files' = [j \in Calls |-> IF j = i THEN NoFile ELSE files[j]]
  BY DEF BackupType
<1>3. QED
  BY <1>1, <1>2 DEF BackupType

\* The call goes on to another stage.
Goes(i, stage, old) ==
    calls' = [j \in Calls |-> IF j = i THEN [stage |-> stage, old |-> old] ELSE calls[j]]

LEMMA GoesIs ==
    ASSUME BackupType, NEW i \in Calls, NEW old \in SUBSET Calls,
           NEW stage \in {"unused", "copying", "removing", "done", "failed"}, Goes(i, stage, old)
    PROVE  calls' \in [Calls -> CallType]
<1>1. [stage |-> stage, old |-> old] \in CallType
  BY DEF CallType
<1>2. QED
  BY <1>1 DEF BackupType, Goes

LEMMA ToIs ==
    ASSUME BackupType, NEW i \in Calls, NEW stage \in {"copying", "done", "failed"}, To(i, stage)
    PROVE  Goes(i, stage, calls[i].old) /\ calls[i].old \in SUBSET Calls
<1>1. calls[i] \in CallType
  BY DEF BackupType
<1>2. ASSUME NEW c \in CallType, NEW r, r = [c EXCEPT !.stage = stage]
      PROVE  r = [stage |-> stage, old |-> c.old]
  BY <1>2 DEF CallType
<1>3. calls' = [j \in Calls |-> IF j = i THEN [calls[i] EXCEPT !.stage = stage] ELSE calls[j]]
  BY DEF To, BackupType
<1>4. [calls[i] EXCEPT !.stage = stage] = [stage |-> stage, old |-> calls[i].old]
  BY <1>1, <1>2, Zenon
<1>5. QED
  BY <1>1, <1>3, <1>4 DEF Goes, CallType

\* The steps of a call, in these terms.
LEMMA OpenIs ==
    ASSUME BackupType, NEW i \in Calls, Open(i)
    PROVE  /\ calls[i].stage = "unused" /\ \A j \in Calls : j < i => calls[j].stage # "unused"
           /\ Write(i, "partial", Nothing) /\ writes' = writes + 1
           /\ Goes(i, "copying", calls[i].old)
           /\ noted' = IF Active = {} THEN noted ELSE noted \cup {"overlap"}
           /\ BackupType'
<1>1. /\ calls[i].stage = "unused" /\ \A j \in Calls : j < i => calls[j].stage # "unused"
      /\ Written(i, "partial", Nothing) /\ To(i, "copying")
      /\ noted' = IF Active = {} THEN noted ELSE noted \cup {"overlap"}
  BY DEF Open
<1>2. /\ Write(i, "partial", Nothing) /\ files' \in [Calls -> FileType]
      /\ writes' = writes + 1 /\ writes' \in 0 .. MaxWrites
  BY <1>1, WrittenIs
<1>3. Goes(i, "copying", calls[i].old) /\ calls[i].old \in SUBSET Calls
  BY <1>1, ToIs
<1>4. calls' \in [Calls -> CallType]
  BY <1>3, GoesIs
<1>5. QED
  BY <1>1, <1>2, <1>3, <1>4 DEF BackupType

LEMMA CopyIs ==
    ASSUME BackupType, NEW i \in Calls, NEW state \in {"partial", "complete"},
           NEW content \in Database \cup {Nothing},
           \/ Copy(i) /\ state = "partial" /\ content = Nothing
           \/ Complete(i, content) /\ state = "complete"
    PROVE  /\ calls[i].stage = "copying" /\ files[i].state = "partial"
           /\ Write(i, state, content) /\ writes' = writes + 1
           /\ UNCHANGED <<calls, noted>> /\ BackupType'
<1>1. /\ calls[i].stage = "copying" /\ files[i].state = "partial"
      /\ Written(i, state, content) /\ UNCHANGED <<calls, noted>>
  BY DEF Copy, Complete
<1>2. /\ Write(i, state, content) /\ files' \in [Calls -> FileType]
      /\ writes' = writes + 1 /\ writes' \in 0 .. MaxWrites
  BY <1>1, WrittenIs
<1>3. QED
  BY <1>1, <1>2 DEF BackupType

LEMMA AbortIs ==
    ASSUME BackupType, NEW i \in Calls, Abort(i)
    PROVE  /\ calls[i].stage = "copying"
           /\ files' = [j \in Calls |-> IF j = i THEN NoFile ELSE files[j]]
           /\ Goes(i, "failed", calls[i].old)
           /\ UNCHANGED <<writes, noted>> /\ BackupType'
<1>1. /\ calls[i].stage = "copying" /\ files' = [files EXCEPT ![i] = NoFile]
      /\ To(i, "failed") /\ UNCHANGED <<writes, noted>>
  BY DEF Abort
<1>2. /\ files' \in [Calls -> FileType]
      /\ files' = [j \in Calls |-> IF j = i THEN NoFile ELSE files[j]]
  BY <1>1, RemovedIs
<1>3. Goes(i, "failed", calls[i].old) /\ calls[i].old \in SUBSET Calls
  BY <1>1, ToIs
<1>4. calls' \in [Calls -> CallType]
  BY <1>3, GoesIs
<1>5. QED
  BY <1>1, <1>2, <1>3, <1>4 DEF BackupType

\* The files that the call is to remove.
Past == {j \in Calls :
           Exists(j) /\ Cardinality({k \in Calls : Exists(k) /\ Before(k, j)}) >= Keep}

LEMMA SelectIs ==
    ASSUME BackupType, NEW i \in Calls, Select(i)
    PROVE  /\ calls[i].stage = "copying" /\ files[i].state = "complete"
           /\ Goes(i, "removing", Past)
           /\ UNCHANGED <<files, writes, noted>> /\ BackupType'
<1>1. /\ calls[i].stage = "copying" /\ files[i].state = "complete"
      /\ UNCHANGED <<files, writes, noted>>
  BY DEF Select
<1>2. calls' = [calls EXCEPT ![i] = [stage |-> "removing", old |-> Past]]
  BY Zenon DEF Select, Past
<1>3. Goes(i, "removing", Past)
  BY <1>2 DEF Goes, BackupType
<1>4. calls' \in [Calls -> CallType]
  <2>1. Past \in SUBSET Calls
    BY DEF Past
  <2>2. QED
    BY <1>3, <2>1, GoesIs
<1>5. QED
  BY <1>1, <1>3, <1>4 DEF BackupType

LEMMA RemoveIs ==
    ASSUME BackupType, NEW i \in Calls, Remove(i)
    PROVE  /\ calls[i].stage = "removing" /\ UNCHANGED <<writes, noted>> /\ BackupType'
           /\ \/ calls[i].old = {} /\ Goes(i, "done", {}) /\ UNCHANGED files
              \/ \E j \in calls[i].old :
                    /\ files' = [k \in Calls |-> IF k = j THEN NoFile ELSE files[k]]
                    /\ IF Exists(j) THEN Goes(i, "removing", calls[i].old \ {j})
                       ELSE Goes(i, "failed", calls[i].old)
<1>1. calls[i].stage = "removing" /\ UNCHANGED <<writes, noted>>
  BY DEF Remove
<1>2. calls[i] \in CallType /\ calls[i].old \in SUBSET Calls
  BY DEF BackupType, CallType
<1>3. CASE calls[i].old = {}
  <2>1. To(i, "done") /\ UNCHANGED files
    BY <1>3 DEF Remove
  <2>2. Goes(i, "done", {})
    BY <1>3, <2>1, ToIs
  <2>3. calls' \in [Calls -> CallType]
    BY <2>2, GoesIs
  <2>4. QED
    BY <1>1, <1>3, <2>1, <2>2, <2>3 DEF BackupType
<1>4. CASE calls[i].old # {}
  <2>1. PICK j \in calls[i].old :
              /\ files' = [files EXCEPT ![j] = NoFile]
              /\ IF Exists(j) THEN calls' = [calls EXCEPT ![i].old = @ \ {j}] ELSE To(i, "failed")
    BY <1>4, Zenon DEF Remove
  <2>2. /\ files' \in [Calls -> FileType]
        /\ files' = [k \in Calls |-> IF k = j THEN NoFile ELSE files[k]]
    BY <1>2, <2>1, RemovedIs
  <2>3. CASE Exists(j)
    <3>1. calls' = [calls EXCEPT ![i].old = @ \ {j}]
      BY <2>1, <2>3
    <3>2. ASSUME NEW c \in CallType, c.stage = "removing", NEW r, r = [c EXCEPT !.old = c.old \ {j}]
          PROVE  r = [stage |-> "removing", old |-> c.old \ {j}]
      BY <3>2 DEF CallType
    <3>3. calls' = [k \in Calls |->
                      IF k = i THEN [calls[i] EXCEPT !.old = calls[i].old \ {j}] ELSE calls[k]]
      BY <3>1 DEF BackupType
    <3>4. [calls[i] EXCEPT !.old = calls[i].old \ {j}]
            = [stage |-> "removing", old |-> calls[i].old \ {j}]
      BY <1>1, <1>2, <3>2, Zenon
    <3>5. Goes(i, "removing", calls[i].old \ {j})
      BY <3>3, <3>4 DEF Goes
    <3>6. calls' \in [Calls -> CallType]
      BY <1>2, <3>5, GoesIs
    <3>7. QED
      BY <1>1, <2>2, <2>3, <3>5, <3>6 DEF BackupType
  <2>4. CASE ~ Exists(j)
    <3>1. Goes(i, "failed", calls[i].old)
      BY <2>1, <2>4, ToIs
    <3>2. calls' \in [Calls -> CallType]
      BY <1>2, <3>1, GoesIs
    <3>3. QED
      BY <1>1, <2>2, <2>4, <3>1, <3>2 DEF BackupType
  <2>5. QED
    BY <2>3, <2>4
<1>5. QED
  BY <1>3, <1>4

LEMMA KilledIs ==
    ASSUME BackupType, NEW i \in Calls, Killed(i)
    PROVE  /\ i \in Active /\ Goes(i, "failed", calls[i].old)
           /\ noted' = noted \cup {"crash"} /\ UNCHANGED <<files, writes>> /\ BackupType'
<1>1. /\ i \in Active /\ To(i, "failed") /\ noted' = noted \cup {"crash"}
      /\ UNCHANGED <<files, writes>>
  BY DEF Killed
<1>2. Goes(i, "failed", calls[i].old) /\ calls[i].old \in SUBSET Calls
  BY <1>1, ToIs
<1>3. calls' \in [Calls -> CallType]
  BY <1>2, GoesIs
<1>4. QED
  BY <1>1, <1>2, <1>3 DEF BackupType

-----------------------------------------------------------------------------
(* The inductive invariant.                                                *)

LEMMA BackupsAre ==
    ASSUME DeploymentInv, Backups
    PROVE  /\ UNCHANGED schemaVars
           /\ \E i \in Calls :
                 \/ Open(i) \/ Abort(i) \/ Select(i) \/ Remove(i) \/ Killed(i)
                 \/ \E state \in {"partial", "complete"}, content \in Database \cup {Nothing} :
                       \/ Copy(i) /\ state = "partial" /\ content = Nothing
                       \/ /\ Complete(i, content) /\ state = "complete"
                          /\ disk # Empty /\ content = disk
BY DEF Backups, BackupStep, DeploymentInv, SchemaInv, SchemaType

LEMMA DeploymentInvInit == DeploymentInit => DeploymentInv
<1> SUFFICES ASSUME DeploymentInit
             PROVE  DeploymentInv
  OBVIOUS
<1>1. SchemaInv
  BY SchemaInvInit DEF DeploymentInit
<1>2. /\ files = [i \in Calls |-> NoFile] /\ calls = [i \in Calls |-> [stage |-> "unused", old |-> {}]]
      /\ writes = 0 /\ noted = {}
  BY DEF DeploymentInit, BackupInit
<1>3. NoFile \in FileType /\ NoFile.state = "none"
  BY BackupAssumption DEF NoFile, FileType
<1>4. [stage |-> "unused", old |-> {}] \in CallType
  BY DEF CallType
<1>5. BackupType
  BY <1>2, <1>3, <1>4, BackupAssumption DEF BackupType
<1>6. CopiesSound
  BY <1>2, <1>3 DEF CopiesSound
<1>7. QED
  BY <1>1, <1>5, <1>6 DEF DeploymentInv

\* A file that is written has nothing in it, or the database as committed.
LEMMA CopiesStay ==
    ASSUME CopiesSound, first' = first,
           \A i \in Calls : files'[i].state = "complete" =>
               \/ files[i].state = "complete" /\ files'[i].content = files[i].content
               \/ files'[i].content \in Database /\ Sound(files'[i].content)
    PROVE  CopiesSound'
BY DEF CopiesSound, Sound

LEMMA RestoreIs ==
    ASSUME DeploymentInv, NEW i \in Calls, Restore(i)
    PROVE  SchemaInv' /\ BackupType' /\ UNCHANGED <<files, calls, writes, first, faults, start, status>>
<1>1. /\ start.stage = "down" /\ disk' = files[i].content /\ db' = disk'
      /\ UNCHANGED <<start, status, faults, first, files, calls, writes>>
      /\ noted' \in {noted, noted \cup {"half"}}
      /\ files[i].content \in Database /\ Sound(files[i].content)
  BY DEF Restore, DeploymentInv, CopiesSound
<1>2. SchemaType'
  BY <1>1 DEF DeploymentInv, SchemaInv, SchemaType
<1>3. StartInOrder'
  BY <1>1 DEF StartInOrder, Starting
<1>4. Sound(disk)' /\ Sound(db)'
  BY <1>1 DEF Sound, HasAnyTable, HasVersionRow, IsCurrent
<1>5. BackupType'
  BY <1>1 DEF DeploymentInv, BackupType
<1>6. QED
  BY <1>1, <1>2, <1>3, <1>4, <1>5 DEF SchemaInv

LEMMA SchemaSame == ASSUME SchemaInv, UNCHANGED schemaVars PROVE SchemaInv'
BY DEF schemaVars, SchemaInv, SchemaType, StartInOrder, MigrationInOrder, Starting,
       Sound, HasAnyTable, HasVersionRow, IsCurrent

LEMMA FirstStays == ASSUME SchemaNext PROVE first' = first
BY DEF SchemaNext, Begin, Create, Stamp, Execute, Check, Refused, StatementFails, Crash, Stop, Raises

LEMMA DeploymentStep == DeploymentInv /\ [DeploymentNext]_deploymentVars => DeploymentInv'
<1> SUFFICES ASSUME DeploymentInv, [DeploymentNext]_deploymentVars
             PROVE  DeploymentInv'
  OBVIOUS
<1>0. SchemaInv /\ BackupType /\ CopiesSound
  BY DEF DeploymentInv
<1>1. CASE SchemaNext /\ UNCHANGED backupVars
  <2>1. SchemaInv'
    BY <1>0, <1>1, SchemaStep
  <2>2. BackupType'
    BY <1>0, <1>1 DEF backupVars, BackupType
  <2>3. CopiesSound'
    BY <1>0, <1>1, CopiesStay, FirstStays DEF backupVars
  <2>4. QED
    BY <2>1, <2>2, <2>3 DEF DeploymentInv
<1>2. CASE Backups
  <2>0. UNCHANGED schemaVars /\ SchemaInv' /\ first' = first
    BY <1>0, <1>2, BackupsAre, SchemaSame DEF schemaVars
  <2>1. ASSUME BackupType',
               \A j \in Calls : files'[j].state = "complete" =>
                 \/ files[j].state = "complete" /\ files'[j].content = files[j].content
                 \/ files'[j].content \in Database /\ Sound(files'[j].content)
        PROVE  DeploymentInv'
    BY <1>0, <2>0, <2>1, CopiesStay DEF DeploymentInv
  <2>2. NoFile.state = "none"
    BY DEF NoFile
  <2>3. PICK i \in Calls :
                 \/ Open(i) \/ Abort(i) \/ Select(i) \/ Remove(i) \/ Killed(i)
                 \/ \E state \in {"partial", "complete"}, content \in Database \cup {Nothing} :
                       \/ Copy(i) /\ state = "partial" /\ content = Nothing
                       \/ /\ Complete(i, content) /\ state = "complete"
                          /\ disk # Empty /\ content = disk
    BY <1>2, BackupsAre
  <2>4. CASE Open(i)
    BY <1>0, <2>1, <2>4, OpenIs DEF Write
  <2>5. CASE Abort(i)
    BY <1>0, <2>1, <2>2, <2>5, AbortIs
  <2>6. CASE Select(i)
    BY <1>0, <2>1, <2>6, SelectIs
  <2>7. CASE Remove(i)
    <3>1. BackupType' /\ calls[i].old \in SUBSET Calls
      BY <1>0, <2>7, RemoveIs DEF BackupType, CallType
    <3>2. CASE UNCHANGED files
      BY <2>1, <3>1, <3>2
    <3>3. ASSUME NEW j \in Calls, files' = [k \in Calls |-> IF k = j THEN NoFile ELSE files[k]]
          PROVE  DeploymentInv'
      BY <2>1, <2>2, <3>1, <3>3
    <3>4. QED
      BY <1>0, <2>7, <3>1, <3>2, <3>3, RemoveIs
  <2>8. CASE Killed(i)
    BY <1>0, <2>1, <2>8, KilledIs
  <2>9. ASSUME NEW state \in {"partial", "complete"}, NEW content \in Database \cup {Nothing},
               \/ Copy(i) /\ state = "partial" /\ content = Nothing
               \/ /\ Complete(i, content) /\ state = "complete"
                  /\ disk # Empty /\ content = disk
        PROVE  DeploymentInv'
    <3>1. Write(i, state, content) /\ BackupType'
      BY <1>0, <2>9, CopyIs
    <3>2. state = "complete" => content \in Database /\ Sound(content)
      BY <1>0, <2>9 DEF SchemaInv, SchemaType
    <3>3. QED
      BY <2>1, <3>1, <3>2 DEF Write
  <2>10. QED
    BY <2>3, <2>4, <2>5, <2>6, <2>7, <2>8, <2>9
<1>3. ASSUME NEW i \in Calls, Restore(i)
      PROVE  DeploymentInv'
  <2>1. SchemaInv' /\ BackupType' /\ UNCHANGED <<files, first>>
    BY <1>3, RestoreIs
  <2>2. CopiesSound'
    BY <1>0, <2>1, CopiesStay
  <2>3. QED
    BY <2>1, <2>2 DEF DeploymentInv
<1>4. CASE UNCHANGED deploymentVars
  <2>1. UNCHANGED schemaVars /\ UNCHANGED backupVars
    BY <1>4 DEF deploymentVars
  <2>2. SchemaInv'
    BY <1>0, <2>1, SchemaSame
  <2>3. BackupType' /\ CopiesSound'
    BY <1>0, <2>1, CopiesStay DEF backupVars, schemaVars, BackupType
  <2>4. QED
    BY <2>2, <2>3 DEF DeploymentInv
<1>5. QED
  BY <1>1, <1>2, <1>3, <1>4 DEF DeploymentNext

LEMMA DeploymentInvariant == DeploymentSpec => []DeploymentInv
BY DeploymentInvInit, DeploymentStep, PTL DEF DeploymentSpec

\* The databases, the start, the files and the calls of the backups have their types, and
\* no change is left uncommitted outside a start.
THEOREM DeploymentTypeCorrect == DeploymentSpec => []DeploymentTypeOK
<1>1. DeploymentInv => DeploymentTypeOK
  BY TypeIs DEF DeploymentInv, SchemaInv
<1>2. QED
  BY <1>1, DeploymentInvariant, PTL

\* Whatever starts, migrations, crashes, failed statements and restores of any backup a
\* database goes through, it has the chat logs it began with, and from the revision with
\* threads on each of them is in a thread.
THEOREM NoLogIsLost == DeploymentSpec => []LogsSafe
<1>1. DeploymentInv => LogsSafe
  BY DEF DeploymentInv, SchemaInv, Sound, LogsSafe
<1>2. QED
  BY <1>1, DeploymentInvariant, PTL

-----------------------------------------------------------------------------
(* What /readyz says.                                                      *)

\* The statements that a database can refuse.
LEMMA RefusedIs ==
    ASSUME SchemaInv, Refused
    PROVE  /\ Raises(FALSE) /\ UNCHANGED faults /\ start.stage = "migrating" /\ MigrationInOrder
           /\ \/ At(1, 1) /\ "threads" \in db.tables
              \/ At(1, 3) /\ ("chat_logs" \notin db.tables \/ db.threadColumn)
              \/ At(2, 2) /\ db.leftover
              \/ At(4, 1) /\ ~ IsCurrent(db)
<1>1. /\ start.stage = "migrating" /\ MigrationInOrder /\ Raises(FALSE) /\ UNCHANGED faults
      /\ start.step \in 1 .. 8 /\ db.version \in 1 .. 4
  BY DEF Refused, SchemaInv, SchemaType, StartType, StartInOrder, Database, MigrationInOrder,
         HasVersionRow
<1>2. db.version \in 1 .. 3 => ~ Accepts(Script[db.version][start.step], db)
  BY DEF Refused
<1>3. db.version = 4 => ~ IsCurrent(db)
  BY <1>1 DEF Refused, Passes
<1>4. CASE db.version = 1
  <2>1. ~ Accepts(Script[1][start.step], db) /\ start.step \in 1 .. 5
    BY <1>1, <1>2, <1>4 DEF MigrationInOrder
  <2>2. start.step = 1 \/ start.step = 2 \/ start.step = 3 \/ start.step = 4 \/ start.step = 5
    BY <2>1
  <2>3. start.step \notin {2, 4, 5}
    BY <2>1, ScriptIs, AcceptsIs
  <2>4. CASE start.step = 1
    BY <1>1, <1>4, <2>1, <2>4, ScriptIs, AcceptsIs DEF At
  <2>5. CASE start.step = 3
    BY <1>1, <1>4, <2>1, <2>5, ScriptIs, AcceptsIs DEF At
  <2>6. QED
    BY <2>2, <2>3, <2>4, <2>5
<1>5. CASE db.version = 2
  <2>1. ~ Accepts(Script[2][start.step], db) /\ start.step \in 1 .. 6
    BY <1>1, <1>2, <1>5 DEF MigrationInOrder
  <2>2. /\ start.step = 1 \/ start.step = 2 \/ start.step = 3 \/ start.step = 4 \/ start.step = 5
           \/ start.step = 6
    BY <2>1
  <2>3. start.step \notin {1, 3, 4, 5, 6}
    BY <2>1, ScriptIs, AcceptsIs
  <2>4. CASE start.step = 2
    BY <1>1, <1>5, <2>1, <2>4, ScriptIs, AcceptsIs DEF At
  <2>5. QED
    BY <2>2, <2>3, <2>4
<1>6. CASE db.version = 3
  <2>1. ~ Accepts(Script[3][start.step], db) /\ start.step \in 1 .. 3
    BY <1>1, <1>2, <1>6 DEF MigrationInOrder
  <2>2. start.step = 1 \/ start.step = 2 \/ start.step = 3
    BY <2>1
  <2>3. QED
    BY <2>1, <2>2, ScriptIs, AcceptsIs
<1>7. CASE db.version = 4
  BY <1>1, <1>3, <1>7 DEF At, MigrationInOrder
<1>8. db.version = 1 \/ db.version = 2 \/ db.version = 3 \/ db.version = 4
  BY <1>1
<1>9. QED
  BY <1>4, <1>5, <1>6, <1>7, <1>8

\* A database that refuses a statement was not whole when the start found it, ...
LEMMA RefusedIsNotWhole == ASSUME SchemaInv, Refused PROVE ~ Whole(disk)
<1>1. /\ start.stage = "migrating" /\ MigrationInOrder /\ (start.step = 1 => db = disk)
      /\ disk.version = db.version
  BY RefusedIs DEF SchemaInv, StartInOrder, MigrationInOrder
<1>2. CASE At(1, 1) /\ "threads" \in db.tables
  BY <1>1, <1>2, SchemaAssumption DEF At, Whole, Empty, RootTables, MigrationInOrder
<1>3. CASE At(1, 3)
  BY <1>1, <1>3, SchemaAssumption DEF At, Whole, Empty, RootTables, MigrationInOrder
<1>4. CASE At(2, 2) /\ db.leftover
  BY <1>1, <1>4, SchemaAssumption DEF At, Whole, Empty, MigrationInOrder
<1>5. CASE At(4, 1) /\ ~ IsCurrent(db)
  BY <1>1, <1>5, SchemaAssumption DEF At, Whole, Empty
<1>6. QED
  BY <1>2, <1>3, <1>4, <1>5, RefusedIs

\* ... and does not arise without a fault.
LEMMA RefusedNeedsFault ==
    ASSUME SchemaInv, WholeWithoutFault, Refused
    PROVE  faults # 0 \/ ~ Whole(first) \/ "half" \in noted
<1> SUFFICES ASSUME faults = 0, Whole(first), "half" \notin noted
             PROVE  FALSE
  OBVIOUS
<1>1. /\ start.stage = "migrating" /\ MigrationInOrder /\ (start.step = 1 => db = disk)
      /\ ~ Whole(disk)
  BY RefusedIs, RefusedIsNotWhole DEF SchemaInv, StartInOrder
<1>2. start.step # 1
  BY <1>1, Zenon DEF WholeWithoutFault
<1>3. start.step > 1
  BY <1>2 DEF SchemaInv, SchemaType, StartType
<1>4. \/ At(1, 3) /\ ("chat_logs" \notin db.tables \/ db.threadColumn)
      \/ At(2, 2) /\ db.leftover
  BY <1>2, RefusedIs DEF At
<1>5. QED
  BY <1>1, <1>3, <1>4 DEF At, WholeWithoutFault, TablesAt, RootTables

\* The shapes of the databases, by their revision.
LEMMA WholeIs ==
    ASSUME NEW d
    PROVE  /\ Whole(d) /\ d.version = 1 => d.tables = RootTables /\ ~ d.threadColumn
           /\ Whole(d) /\ d.version = 2 =>
                 d.tables = TablesAt(2) /\ d.threadColumn /\ ~ d.leftover
           /\ Whole(d) /\ d.version = 3 => TablesAt(2) \subseteq d.tables /\ d.threadColumn
BY SchemaAssumption DEF Whole, Empty, IsCurrent, TablesAt, ModelTables, RootTables

LEMMA ExecuteKeepsWhole ==
    ASSUME SchemaInv, Execute, WholeWithoutFault, noted' = noted
    PROVE  WholeWithoutFault'
<1> SUFFICES ASSUME faults = 0, Whole(first), "half" \notin noted
             PROVE  WholeWithoutFault'
  <2>1. faults' = faults /\ first' = first
    BY DEF Execute
  <2>2. (faults = 0 /\ Whole(first) /\ "half" \notin noted) \/ WholeWithoutFault'
    BY <2>1 DEF WholeWithoutFault, Whole, IsCurrent
  <2>3. QED
    BY <2>2
<1>1. /\ start.stage = "migrating" /\ MigrationInOrder /\ Sound(db)
      /\ start'.stage = "migrating" /\ start'.step \in 1 .. 8
  BY ExecuteIs DEF SchemaInv, StartInOrder, Execute, StartType
<1>2. start.step = 1 => Whole(db)
  BY <1>1, Zenon DEF WholeWithoutFault
<1>3. start.step > 1 =>
              /\ TablesAt(2) \subseteq db.tables
              /\ db.version = 1 =>
                    db.tables = TablesAt(2) /\ (db.threadColumn <=> start.step > 3)
              /\ db.version = 2 =>
                    /\ db.tables = TablesAt(2) /\ db.threadColumn
                    /\ db.leftover <=> start.step = 3
              /\ db.version = 3 =>
                    /\ db.threadColumn /\ "audit_events" \in db.tables
                    /\ start.step > 2 => "request_logs" \in db.tables
  BY <1>1 DEF WholeWithoutFault
<1>4. /\ start'.step = 1 => Whole(db)'
      /\ start'.step > 1 =>
              /\ TablesAt(2) \subseteq db'.tables
              /\ db'.version = 1 =>
                    db'.tables = TablesAt(2) /\ (db'.threadColumn <=> start'.step > 3)
              /\ db'.version = 2 =>
                    /\ db'.tables = TablesAt(2) /\ db'.threadColumn
                    /\ db'.leftover <=> start'.step = 3
              /\ db'.version = 3 =>
                    /\ db'.threadColumn /\ "audit_events" \in db'.tables
                    /\ start'.step > 2 => "request_logs" \in db'.tables
  <2>0. db.version = 1 => ~ db.leftover
    BY <1>1 DEF Sound
  <2>1. CASE /\ At(1, 1) /\ "threads" \notin db.tables
              /\ MovedTo(db.tables \cup {"threads"}, db.threadColumn, db.leftover, 1,
                    db.filed, TRUE, 2, start.fk)
    BY <1>2, <1>3, <2>0, <2>1, WholeIs
       DEF At, MovedTo, Whole, IsCurrent, TablesAt, ModelTables, RootTables
  <2>2. CASE /\ At(1, 2)
              /\ MovedTo(db.tables, db.threadColumn, db.leftover, 1,
                    db.filed, FALSE, 3, start.fk)
    BY <1>2, <1>3, <2>0, <2>2, WholeIs
       DEF At, MovedTo, Whole, IsCurrent, TablesAt, ModelTables, RootTables
  <2>3. CASE /\ At(1, 3) /\ "chat_logs" \in db.tables /\ ~ db.threadColumn
              /\ MovedTo(db.tables, TRUE, db.leftover, 1,
                    db.filed, FALSE, 4, start.fk)
    BY <1>2, <1>3, <2>0, <2>3, WholeIs
       DEF At, MovedTo, Whole, IsCurrent, TablesAt, ModelTables, RootTables
  <2>4. CASE /\ At(1, 4)
              /\ MovedTo(db.tables, db.threadColumn, db.leftover, 1,
                    db.logs, FALSE, 5, start.fk)
    BY <1>2, <1>3, <2>0, <2>4, WholeIs
       DEF At, MovedTo, Whole, IsCurrent, TablesAt, ModelTables, RootTables
  <2>5. CASE /\ At(1, 5)
              /\ MovedTo(db.tables, db.threadColumn, db.leftover, 2,
                    db.filed, TRUE, 1, start.fk)
    BY <1>2, <1>3, <2>0, <2>5, WholeIs
       DEF At, MovedTo, Whole, IsCurrent, TablesAt, ModelTables, RootTables
  <2>6. CASE /\ At(2, 1) /\ db' = db
              /\ MovedTo(db.tables, db.threadColumn, db.leftover, 2,
                    db.filed, FALSE, 2, FALSE)
    BY <1>2, <1>3, <2>0, <2>6, WholeIs
       DEF At, MovedTo, Whole, IsCurrent, TablesAt, ModelTables, RootTables
  <2>7. CASE /\ At(2, 2) /\ ~ db.leftover
              /\ MovedTo(db.tables, db.threadColumn, TRUE, 2,
                    db.filed, TRUE, 3, start.fk)
    BY <1>2, <1>3, <2>0, <2>7, WholeIs
       DEF At, MovedTo, Whole, IsCurrent, TablesAt, ModelTables, RootTables
  <2>8. CASE /\ At(2, 3)
              /\ MovedTo(db.tables, db.threadColumn, FALSE, 2,
                    db.filed, FALSE, 4, start.fk)
    BY <1>2, <1>3, <2>0, <2>8, WholeIs
       DEF At, MovedTo, Whole, IsCurrent, TablesAt, ModelTables, RootTables
  <2>9. CASE /\ At(2, 4)
              /\ MovedTo(db.tables, db.threadColumn, db.leftover, 2,
                    db.filed, FALSE, 5, start.fk)
    BY <1>2, <1>3, <2>0, <2>9, WholeIs
       DEF At, MovedTo, Whole, IsCurrent, TablesAt, ModelTables, RootTables
  <2>10. CASE /\ At(2, 5)
              /\ MovedTo(db.tables, db.threadColumn, db.leftover, 2,
                    db.filed, FALSE, 6, start.fk)
    BY <1>2, <1>3, <2>0, <2>10, WholeIs
       DEF At, MovedTo, Whole, IsCurrent, TablesAt, ModelTables, RootTables
  <2>11. CASE /\ At(2, 6)
              /\ MovedTo(db.tables, db.threadColumn, db.leftover, 3,
                    db.filed, TRUE, 1, start.fk)
    BY <1>2, <1>3, <2>0, <2>11, WholeIs
       DEF At, MovedTo, Whole, IsCurrent, TablesAt, ModelTables, RootTables
  <2>12. CASE /\ At(3, 1)
              /\ MovedTo(db.tables \cup {"audit_events"}, db.threadColumn, db.leftover, 3,
                    db.filed, TRUE, 2, start.fk)
    BY <1>2, <1>3, <2>0, <2>12, WholeIs
       DEF At, MovedTo, Whole, IsCurrent, TablesAt, ModelTables, RootTables
  <2>13. CASE /\ At(3, 2)
              /\ MovedTo(db.tables \cup {"request_logs"}, db.threadColumn, db.leftover, 3,
                    db.filed, TRUE, 3, start.fk)
    BY <1>2, <1>3, <2>0, <2>13, WholeIs
       DEF At, MovedTo, Whole, IsCurrent, TablesAt, ModelTables, RootTables
  <2>14. CASE /\ At(3, 3)
              /\ MovedTo(db.tables, db.threadColumn, db.leftover, 4,
                    db.filed, TRUE, 1, start.fk)
    BY <1>2, <1>3, <2>0, <2>14, WholeIs
       DEF At, MovedTo, Whole, IsCurrent, TablesAt, ModelTables, RootTables
  <2>15. QED
    BY ExecuteIs, <2>1, <2>2, <2>3, <2>4, <2>5, <2>6, <2>7, <2>8, <2>9, <2>10, <2>11, <2>12, <2>13, <2>14, Zenon
<1>5. QED
  BY <1>1, <1>4 DEF WholeWithoutFault, Starting

StatusInv ==
    /\ Ready => IsCurrent(disk)
    /\ status = "error" => start.stage = "down" \/ start.failed \/ ~ Whole(disk)
    /\ WholeWithoutFault

LEMMA StatusSchemaStep ==
    ASSUME SchemaInv, StatusInv, SchemaNext, noted' = noted
    PROVE  StatusInv'
<1>0. /\ SchemaType /\ StartInOrder /\ WholeWithoutFault /\ Sound(db)
      /\ ~ Starting => db = disk
  BY DEF SchemaInv, SchemaType, StatusInv
<1> DEFINE clean == faults = 0 /\ Whole(first) /\ "half" \notin noted
<1>1. CASE Begin
  <2>1. status' = "pending" /\ db' = db /\ disk' = disk /\ db = disk /\ start'.step = 1
        /\ UNCHANGED <<faults, first>> /\ ~ Starting /\ start' \in StartType
        /\ start'.stage \in {"creating", "stamping", "migrating"}
    BY <1>1, BeginIs DEF Begin, Starting
  <2>2. clean => Whole(db)
    BY <1>0, <2>1 DEF WholeWithoutFault
  <2>3. WholeWithoutFault'
    BY <2>1, <2>2 DEF WholeWithoutFault, Whole, IsCurrent
  <2>4. QED
    BY <2>1, <2>3 DEF StatusInv, Ready
<1>2. CASE Create
  <2>1. /\ start'.stage \in {"creating", "stamping"} /\ status' = "pending"
        /\ start'.fresh
    BY <1>0, <1>2, CreateIs DEF StartInOrder, Starting
  <2>2. WholeWithoutFault'
    BY <2>1 DEF WholeWithoutFault, Starting
  <2>3. QED
    BY <2>1, <2>2 DEF StatusInv, Ready
<1>3. CASE Stamp
  <2>1. /\ db.version = None /\ status = "pending"
        /\ IF start.fresh THEN IsCurrent(db) ELSE HasAnyTable(db)
    BY <1>0, <1>3, StampIs DEF StartInOrder, Starting
  <2>2. ~ start.fresh /\ clean => Whole(db)
    BY <1>0, <1>3, StampIs DEF WholeWithoutFault
  <2>3. CASE ~ db.versionTable
    <3>1. /\ db'.version = None /\ db'.tables = db.tables /\ (db'.threadColumn <=> db.threadColumn)
          /\ UNCHANGED <<start, status, faults, first>> /\ start.stage = "stamping"
          /\ (db'.leftover <=> db.leftover)
      BY <1>3, <2>1, <2>3, StampIs
    <3>2. Whole(db) /\ ~ start.fresh => Whole(db')
      BY <2>1, <2>3, <3>1, SchemaAssumption
         DEF Whole, IsCurrent, HasAnyTable, Empty, TablesAt, ModelTables, RootTables
    <3>3. WholeWithoutFault'
      BY <2>2, <3>1, <3>2 DEF WholeWithoutFault, Whole, IsCurrent, Starting
    <3>4. QED
      BY <2>1, <3>1, <3>3 DEF StatusInv, Ready
  <2>4. CASE db.versionTable
    <3>1. /\ db'.version = Adopted(db) /\ db'.tables = db.tables
          /\ (db'.threadColumn <=> db.threadColumn) /\ disk' = db'
          /\ UNCHANGED <<faults, first>> /\ start' \in StartType /\ start'.step = 1
          /\ IF start.fresh THEN start'.stage = "serving" /\ status' = "ok"
             ELSE start'.stage = "migrating" /\ UNCHANGED status
      BY <1>3, <2>4, StampIs
    <3>2. IsCurrent(db) => IsCurrent(db') /\ Whole(db')
      BY <3>1 DEF Whole, IsCurrent, Adopted
    <3>3. Whole(db) /\ ~ start.fresh => Whole(db')
      <4>1. CASE IsCurrent(db)
        BY <3>2, <4>1
      <4>2. CASE ~ IsCurrent(db)
        <5>1. db'.version = 1
          BY <3>1, <4>2 DEF Adopted
        <5>2. Whole(db) /\ ~ start.fresh => db.tables = RootTables /\ ~ db.threadColumn
          BY <2>1, <4>2, SchemaAssumption DEF Whole, HasAnyTable, Empty
        <5>3. QED
          BY <3>1, <5>1, <5>2 DEF Whole
      <4>3. QED
        BY <4>1, <4>2
    <3>4. WholeWithoutFault'
      <4>1. (faults = 0 /\ Whole(first) /\ "half" \notin noted)' <=> clean
        BY <3>1 DEF Whole, IsCurrent
      <4>2. clean => Whole(db')
        BY <2>1, <2>2, <3>2, <3>3
      <4>3. start'.step = 1
        BY <3>1
      <4>4. QED
        BY <4>1, <4>2, <4>3 DEF WholeWithoutFault
    <3>5. QED
      BY <2>1, <3>1, <3>2, <3>4 DEF StatusInv, Ready, IsCurrent
  <2>5. QED
    BY <2>3, <2>4
<1>4. CASE Execute
  <2>1. start'.stage = "migrating" /\ status' = "pending"
    BY <1>0, <1>4, ExecuteIs DEF Execute, StartInOrder, Starting
  <2>2. QED
    BY <1>0, <1>4, <2>1, ExecuteKeepsWhole DEF StatusInv, Ready
<1>5. ASSUME UNCHANGED <<db, disk, faults, first>>, start' \in StartType, ~ Starting',
             clean => Whole(db)
      PROVE  WholeWithoutFault'
  BY <1>5 DEF WholeWithoutFault, Whole, IsCurrent, Starting
<1>6. CASE Check
  <2>1. /\ Moves("serving") /\ status' = "ok" /\ UNCHANGED <<disk, db, faults, first>>
        /\ start.stage = "migrating" /\ db.version = 4 /\ IsCurrent(db)
    BY <1>6 DEF Check, Passes
  <2>2. start.step = 1 /\ db = disk
    BY <1>0, <2>1 DEF StartInOrder, MigrationInOrder
  <2>3. start' \in StartType /\ ~ Starting'
    BY <2>1, MovesIs DEF Starting
  <2>4. clean => Whole(db)
    BY <1>0, <2>1, <2>2 DEF WholeWithoutFault
  <2>5. WholeWithoutFault'
    BY <1>5, <2>1, <2>3, <2>4
  <2>6. QED
    BY <2>1, <2>2, <2>5 DEF StatusInv, Ready, IsCurrent
<1>7. CASE Refused
  <2>1. /\ start' \in StartType /\ start'.stage = "serving" /\ (start'.failed <=> FALSE)
        /\ status' = "error" /\ db' = disk /\ UNCHANGED <<disk, first, faults>>
    BY <1>7, RefusedIs, RaisesIs
  <2>2. ~ Whole(disk)'
    BY <1>7, <2>1, RefusedIsNotWhole DEF Whole, IsCurrent
  <2>3. WholeWithoutFault'
    BY <1>0, <1>7, <2>1, RefusedNeedsFault DEF WholeWithoutFault, Whole, IsCurrent
  <2>4. QED
    BY <2>1, <2>2, <2>3 DEF StatusInv, Ready
<1>8. CASE StatementFails
  <2>1. Raises(TRUE) /\ faults' = faults + 1
    BY <1>8 DEF StatementFails
  <2>2. faults' # 0
    BY <1>0, <2>1, SchemaAssumption DEF SchemaType
  <2>3. WholeWithoutFault'
    BY <2>2 DEF WholeWithoutFault
  <2>4. QED
    BY <2>1, <2>3, RaisesIs DEF StatusInv, Ready
<1>9. CASE Crash
  <2>1. start'.stage = "down"
    BY <1>9, StoppedIs DEF Crash
  <2>2. faults' # 0
    BY <1>0, <1>9, SchemaAssumption DEF SchemaType, Crash
  <2>3. WholeWithoutFault'
    BY <2>2 DEF WholeWithoutFault
  <2>4. QED
    BY <2>1, <2>3 DEF StatusInv, Ready
<1>10. CASE Stop
  <2>1. /\ start' = Stopped /\ ~ Starting /\ UNCHANGED <<disk, db, status, faults, first>>
    BY <1>10 DEF Stop, Starting
  <2>2. clean => Whole(db)
    BY <1>0, <2>1 DEF WholeWithoutFault
  <2>3. WholeWithoutFault'
    BY <1>5, <2>1, <2>2, StoppedIs DEF Starting
  <2>4. QED
    BY <2>1, <2>3, StoppedIs DEF StatusInv, Ready
<1>11. QED
  BY <1>1, <1>2, <1>3, <1>4, <1>6, <1>7, <1>8, <1>9, <1>10 DEF SchemaNext

LEMMA StatusSame ==
    ASSUME StatusInv, UNCHANGED schemaVars, noted \subseteq noted'
    PROVE  StatusInv'
<1>1. UNCHANGED <<disk, db, start, status, faults, first>>
  BY DEF schemaVars
<1>2. WholeWithoutFault'
  BY <1>1 DEF StatusInv, WholeWithoutFault, Whole, IsCurrent, Starting
<1>3. QED
  BY <1>1, <1>2 DEF StatusInv, Ready, Whole, IsCurrent

LEMMA StatusStep ==
    DeploymentInv /\ StatusInv /\ [DeploymentNext]_deploymentVars => StatusInv'
<1> SUFFICES ASSUME DeploymentInv, StatusInv, [DeploymentNext]_deploymentVars
             PROVE  StatusInv'
  OBVIOUS
<1>0. SchemaInv /\ BackupType
  BY DEF DeploymentInv
<1>1. CASE SchemaNext /\ UNCHANGED backupVars
  BY <1>0, <1>1, StatusSchemaStep DEF backupVars
<1>2. CASE Backups
  <2>1. PICK i \in Calls :
                 \/ Open(i) \/ Abort(i) \/ Select(i) \/ Remove(i) \/ Killed(i)
                 \/ \E state \in {"partial", "complete"}, content \in Database \cup {Nothing} :
                       \/ Copy(i) /\ state = "partial" /\ content = Nothing
                       \/ /\ Complete(i, content) /\ state = "complete"
                          /\ disk # Empty /\ content = disk
    BY <1>2, BackupsAre
  <2>2. noted \subseteq noted'
    BY <2>1 DEF Open, Abort, Select, Remove, Killed, Copy, Complete
  <2>3. QED
    BY <1>2, <2>2, BackupsAre, StatusSame
<1>3. ASSUME NEW i \in Calls, Restore(i)
      PROVE  StatusInv'
  <2>1. /\ start.stage = "down" /\ db' = disk' /\ UNCHANGED <<start, status, faults, first>>
        /\ noted \subseteq noted' /\ (~ Whole(disk') => "half" \in noted')
    BY <1>3 DEF Restore
  <2>2. WholeWithoutFault'
    BY <2>1 DEF WholeWithoutFault, Whole, IsCurrent, Starting
  <2>3. QED
    BY <2>1, <2>2 DEF StatusInv, Ready
<1>4. CASE UNCHANGED deploymentVars
  BY <1>4, StatusSame DEF deploymentVars, backupVars
<1>5. QED
  BY <1>1, <1>2, <1>3, <1>4 DEF DeploymentNext

LEMMA StatusInvInit == DeploymentInit => StatusInv
<1> SUFFICES ASSUME DeploymentInit
             PROVE  StatusInv
  OBVIOUS
<1>1. start = Stopped /\ status = "pending" /\ db = first
  BY DEF DeploymentInit, SchemaInit
<1>2. QED
  BY <1>1, StoppedIs DEF StatusInv, Ready, WholeWithoutFault, Starting

\* /readyz says ready only of a database with the tables and columns of the models, and
\* says it is not only after a failed statement or of a schema left half-made; that needs
\* a fault, a backup made in the middle of a start, or a database of no release.
THEOREM ReadinessIsTrue == DeploymentSpec => []StatusTruthful
<1>1. DeploymentInv /\ StatusInv => StatusTruthful
  <2> SUFFICES ASSUME DeploymentInv, StatusInv
               PROVE  StatusTruthful
    OBVIOUS
  <2>1. ~ Starting => db = disk
    BY DEF DeploymentInv, SchemaInv, SchemaType
  <2>2. faults \in Nat
    BY SchemaAssumption DEF DeploymentInv, SchemaInv, SchemaType
  <2>3. ~ Starting /\ ~ Whole(disk) => faults > 0 \/ ~ Whole(first) \/ "half" \in noted
    BY <2>1, <2>2 DEF StatusInv, WholeWithoutFault
  <2>4. QED
    BY <2>3 DEF StatusInv, StatusTruthful
<1>2. QED
  BY <1>1, StatusInvInit, StatusStep, DeploymentInvariant, PTL DEF DeploymentSpec

-----------------------------------------------------------------------------
(* The backups that stand.                                                 *)

Finished == {"removing", "done", "failed"}

\* The call and its file, once a call goes from one stage to the next.
LEMMA GoneIs ==
    ASSUME BackupType, NEW i \in Calls, NEW stage, NEW old, Goes(i, stage, old)
    PROVE  /\ calls'[i].stage = stage /\ calls'[i].old = old
           /\ \A j \in Calls : j # i => calls'[j] = calls[j]
BY DEF Goes

LEMMA WroteIs ==
    ASSUME BackupType, NEW i \in Calls, NEW state, NEW content, Write(i, state, content)
    PROVE  /\ files'[i].state = state /\ files'[i].mtime = writes + 1
           /\ \A j \in Calls : j # i => files'[j] = files[j]
BY DEF Write

LEMMA CountIs ==
    ASSUME NEW S \in SUBSET Calls, NEW T \in SUBSET Calls, S \subseteq T
    PROVE  /\ IsFiniteSet(S) /\ Cardinality(S) \in Nat /\ Cardinality(S) <= Cardinality(T)
           /\ Cardinality(T) \in Nat
<1>1. IsFiniteSet(Calls)
  BY BackupAssumption, FS_Interval DEF Calls
<1>2. IsFiniteSet(T) /\ IsFiniteSet(S)
  BY <1>1, FS_Subset
<1>3. QED
  BY <1>2, FS_Subset, FS_CardinalityType

\* Without overlap, the call that is active is the last, ...
LEMMA OneActive ==
    ASSUME BackupType, CallsInTurn, "overlap" \notin noted, NEW i \in Active
    PROVE  \A j \in Calls : j # i => j \notin Active /\ (j > i => ~ Exists(j))
<1> SUFFICES ASSUME NEW j \in Calls, j # i
             PROVE  j \notin Active /\ (j > i => ~ Exists(j))
  OBVIOUS
<1>1. i \in Calls /\ i \in Int /\ j \in Int
  BY DEF Active, Calls
<1>2. i < j \/ j < i
  BY <1>1
<1>3. CASE i < j
  <2>1. calls[j].stage = "unused"
    BY <1>1, <1>3 DEF CallsInTurn
  <2>2. QED
    BY <1>1, <1>3, <2>1 DEF CallsInTurn, Active
<1>4. CASE j < i
  <2>1. j \in Active => calls[i].stage = "unused"
    BY <1>1, <1>4 DEF CallsInTurn
  <2>2. QED
    BY <1>1, <1>4, <2>1 DEF Active
<1>5. QED
  BY <1>2, <1>3, <1>4

\* ... and its file the newest; a file is newer than those of the calls before.
LEMMA LaterIsNewer ==
    ASSUME BackupType, CallsInTurn, "overlap" \notin noted, NEW i \in Calls, NEW j \in Calls,
           Exists(i), Exists(j), Newer(j, i)
    PROVE  j > i
<1>1. i \in Int /\ j \in Int /\ files[i].mtime \in Int /\ files[j].mtime \in Int
  BY DEF Calls, BackupType, FileType
<1>2. ~ (j = i) /\ ~ (j < i)
  BY <1>1 DEF CallsInTurn, Newer
<1>3. QED
  BY <1>1, <1>2

LEMMA TurnOpen ==
    ASSUME BackupType, CallsInTurn, NEW i \in Calls, Open(i) PROVE CallsInTurn'
<1>1. /\ calls[i].stage = "unused" /\ \A j \in Calls : j < i => calls[j].stage # "unused"
      /\ writes' = writes + 1
      /\ noted' = IF Active = {} THEN noted ELSE noted \cup {"overlap"}
  BY OpenIs
<1>2. /\ files'[i].state = "partial" /\ files'[i].mtime = writes + 1
      /\ \A j \in Calls : j # i => files'[j] = files[j]
      /\ calls'[i].stage = "copying" /\ calls'[i].old = calls[i].old
      /\ \A j \in Calls : j # i => calls'[j] = calls[j]
  BY OpenIs, WroteIs, GoneIs
<1>3. /\ writes \in Nat /\ \A j \in Calls : j \in Int /\ files[j].mtime \in Nat
  BY BackupAssumption DEF BackupType, FileType, Calls
<1>4. \A j \in Calls : j > i => calls[j].stage = "unused"
  BY <1>1 DEF CallsInTurn
<1>5. \A a, b \in Calls : a < b /\ calls'[a].stage = "unused" => calls'[b].stage = "unused"
  <2> SUFFICES ASSUME NEW a \in Calls, NEW b \in Calls, a < b, calls'[a].stage = "unused"
               PROVE  calls'[b].stage = "unused"
    OBVIOUS
  <2>1. a # i /\ calls[a].stage = "unused" /\ ~ (a < i)
    BY <1>1, <1>2
  <2>2. b > i /\ b # i
    BY <1>3, <2>1
  <2>3. QED
    BY <1>2, <1>4, <2>2
<1>6. \A a \in Calls : files'[a].mtime <= writes'
  BY <1>1, <1>2, <1>3 DEF CallsInTurn
<1>7. \A a \in Calls : calls'[a].stage = "unused" => ~ Exists(a)'
  BY <1>2 DEF CallsInTurn, Exists
<1>8. ASSUME "overlap" \notin noted'
      PROVE  /\ \A a \in Active', b \in Calls : a < b => calls'[b].stage = "unused"
             /\ \A a, b \in Calls : a < b /\ Exists(a)' /\ Exists(b)' => Newer(b, a)'
             /\ \A a \in Calls : calls'[a].stage = "removing" => \A b \in calls'[a].old : Exists(b)'
  <2>1. Active = {} /\ "overlap" \notin noted
    BY <1>1, <1>8
  <2>2. \A a \in Calls : a \in Active' <=> a = i
    BY <1>2, <2>1 DEF Active
  <2>3. \A a \in Active', b \in Calls : a < b => calls'[b].stage = "unused"
    <3> SUFFICES ASSUME NEW a \in Active', NEW b \in Calls, a < b
                 PROVE  calls'[b].stage = "unused"
      OBVIOUS
    <3>1. a = i /\ b # i /\ b > i
      BY <1>3, <2>2 DEF Active
    <3>2. QED
      BY <1>2, <1>4, <3>1
  <2>4. \A a, b \in Calls : a < b /\ Exists(a)' /\ Exists(b)' => Newer(b, a)'
    <3> SUFFICES ASSUME NEW a \in Calls, NEW b \in Calls, a < b, Exists(a)', Exists(b)'
                 PROVE  Newer(b, a)'
      OBVIOUS
    <3>1. CASE a = i
      BY <1>2, <1>4, <3>1, <1>3 DEF CallsInTurn, Exists
    <3>2. CASE b = i
      BY <1>2, <1>3, <3>2 DEF CallsInTurn, Newer
    <3>3. CASE a # i /\ b # i
      BY <1>2, <2>1, <3>3 DEF CallsInTurn, Exists, Newer
    <3>4. QED
      BY <3>1, <3>2, <3>3
  <2>5. \A a \in Calls : calls'[a].stage # "removing"
    BY <2>2 , <1>2 DEF Active
  <2>6. QED
    BY <2>3, <2>4, <2>5
<1>9. QED
  BY <1>5, <1>6, <1>7, <1>8 DEF CallsInTurn

\* A write by the call that is copying.
LEMMA TurnCopy ==
    ASSUME BackupType, CallsInTurn, NEW i \in Calls, NEW state \in {"partial", "complete"},
           NEW content, calls[i].stage = "copying", Write(i, state, content),
           writes' = writes + 1, UNCHANGED <<calls, noted>>
    PROVE  CallsInTurn'
<1>1. /\ files'[i].state = state /\ files'[i].mtime = writes + 1
      /\ \A j \in Calls : j # i => files'[j] = files[j]
  BY WroteIs
<1>2. /\ writes \in Nat /\ \A j \in Calls : j \in Int /\ files[j].mtime \in Nat
  BY BackupAssumption DEF BackupType, FileType, Calls
<1>3. \A a \in Calls : files'[a].mtime <= writes'
  BY <1>1, <1>2 DEF CallsInTurn
<1>4. \A a \in Calls : calls'[a].stage = "unused" => ~ Exists(a)'
  BY <1>1 DEF CallsInTurn, Exists
<1>5. ASSUME "overlap" \notin noted
      PROVE  /\ \A a, b \in Calls : a < b /\ Exists(a)' /\ Exists(b)' => Newer(b, a)'
             /\ \A a \in Calls : calls[a].stage # "removing"
  <2>1. i \in Active
    BY DEF Active
  <2>2. \A j \in Calls : j # i => j \notin Active /\ (j > i => ~ Exists(j))
    BY <1>5, <2>1, OneActive
  <2>3. \A a, b \in Calls : a < b /\ Exists(a)' /\ Exists(b)' => Newer(b, a)'
    <3> SUFFICES ASSUME NEW a \in Calls, NEW b \in Calls, a < b, Exists(a)', Exists(b)'
                 PROVE  Newer(b, a)'
      OBVIOUS
    <3>1. CASE a = i
      BY <1>1, <1>2, <2>2, <3>1 DEF Exists
    <3>2. CASE b = i
      BY <1>1, <1>2, <3>2 DEF CallsInTurn, Newer
    <3>3. CASE a # i /\ b # i
      BY <1>1, <1>5, <3>3 DEF CallsInTurn, Exists, Newer
    <3>4. QED
      BY <3>1, <3>2, <3>3
  <2>4. QED
    BY <2>2, <2>3 DEF Active
<1>6. QED
  BY <1>3, <1>4, <1>5 DEF CallsInTurn, Active

\* A step that writes no file: some may go, and a call that is active goes on.
LEMMA TurnOn ==
    ASSUME BackupType, CallsInTurn, NEW i \in Active, writes' = writes,
           "overlap" \notin noted' => "overlap" \notin noted,
           calls'[i].stage \in Finished, \A j \in Calls : j # i => calls'[j] = calls[j],
           \A j \in Calls : files'[j] = files[j] \/ files'[j] = NoFile,
           "overlap" \notin noted' /\ calls'[i].stage = "removing" =>
               \A b \in calls'[i].old : Exists(b)'
    PROVE  CallsInTurn'
<1>1. i \in Calls /\ calls[i].stage # "unused" /\ NoFile.mtime = 0 /\ NoFile.state = "none"
      /\ writes \in Nat
  BY BackupAssumption DEF Active, NoFile, BackupType
<1>2. \A j \in Calls : files'[j].mtime <= writes /\ (Exists(j)' => Exists(j) /\ files'[j] = files[j])
  BY <1>1 DEF CallsInTurn, Exists
<1>3. \A j \in Calls : (calls'[j].stage = "unused" <=> calls[j].stage = "unused")
                       /\ (j \in Active' => j \in Active)
  BY <1>1 DEF Active, Finished
<1>4. /\ \A a, b \in Calls : a < b /\ calls'[a].stage = "unused" => calls'[b].stage = "unused"
      /\ \A a \in Calls : files'[a].mtime <= writes'
      /\ \A a \in Calls : calls'[a].stage = "unused" => ~ Exists(a)'
  BY <1>2, <1>3 DEF CallsInTurn
<1>5. ASSUME "overlap" \notin noted'
      PROVE  /\ \A a \in Active', b \in Calls : a < b => calls'[b].stage = "unused"
             /\ \A a, b \in Calls : a < b /\ Exists(a)' /\ Exists(b)' => Newer(b, a)'
             /\ \A a \in Calls : calls'[a].stage = "removing" => \A b \in calls'[a].old : Exists(b)'
  <2>1. "overlap" \notin noted
    BY <1>5
  <2>2. \A a \in Active', b \in Calls : a < b => calls'[b].stage = "unused"
    <3> SUFFICES ASSUME NEW a \in Active', NEW b \in Calls, a < b
                 PROVE  calls'[b].stage = "unused"
      OBVIOUS
    <3>1. a \in Calls
      BY DEF Active
    <3>2. a \in Active
      BY <1>3, <3>1
    <3>3. calls[b].stage = "unused"
      BY <2>1, <3>2 DEF CallsInTurn
    <3>4. QED
      BY <1>3, <3>3
  <2>3. \A a, b \in Calls : a < b /\ Exists(a)' /\ Exists(b)' => Newer(b, a)'
    BY <1>2, <2>1 DEF CallsInTurn, Newer
  <2>4. \A a \in Calls : calls'[a].stage = "removing" => a = i
    BY <1>1, <2>1, OneActive DEF Active
  <2>5. QED
    BY <1>5, <2>2, <2>3, <2>4
<1>6. QED
  BY <1>4, <1>5 DEF CallsInTurn

LEMMA TurnRest ==
    ASSUME BackupType, CallsInTurn, NEW i \in Calls,
           Abort(i) \/ Select(i) \/ Remove(i) \/ Killed(i)
    PROVE  CallsInTurn'
<1>1. CASE Abort(i)
  <2>1. /\ calls[i].stage = "copying" /\ calls'[i].stage = "failed"
        /\ \A j \in Calls : j # i => calls'[j] = calls[j]
        /\ files' = [j \in Calls |-> IF j = i THEN NoFile ELSE files[j]]
        /\ UNCHANGED <<writes, noted>>
    BY <1>1, AbortIs, GoneIs
  <2>2. i \in Active
    BY <2>1 DEF Active
  <2>3. QED
    BY <2>1, <2>2, TurnOn DEF Finished
<1>2. CASE Select(i)
  <2>1. /\ calls[i].stage = "copying" /\ calls'[i].stage = "removing" /\ calls'[i].old = Past
        /\ \A j \in Calls : j # i => calls'[j] = calls[j]
        /\ UNCHANGED <<files, writes, noted>>
    BY <1>2, SelectIs, GoneIs
  <2>2. i \in Active /\ \A b \in Past : Exists(b)'
    BY <2>1 DEF Active, Past, Exists
  <2>3. QED
    BY <2>1, <2>2, TurnOn DEF Finished
<1>3. CASE Remove(i)
  <2>1. calls[i].stage = "removing" /\ UNCHANGED <<writes, noted>> /\ i \in Active
        /\ calls[i].old \in SUBSET Calls
    BY <1>3, RemoveIs DEF Active, BackupType, CallType
  <2>2. CASE Goes(i, "done", {}) /\ UNCHANGED files
    <3>1. /\ calls'[i].stage = "done" /\ \A j \in Calls : j # i => calls'[j] = calls[j]
      BY <2>2, GoneIs
    <3>2. QED
      BY <2>1, <2>2, <3>1, TurnOn DEF Finished
  <2>3. ASSUME NEW j \in calls[i].old,
               files' = [k \in Calls |-> IF k = j THEN NoFile ELSE files[k]],
               IF Exists(j) THEN Goes(i, "removing", calls[i].old \ {j})
                            ELSE Goes(i, "failed", calls[i].old)
        PROVE  CallsInTurn'
    <3>1. CASE Exists(j)
      <4>1. /\ calls'[i].stage = "removing" /\ calls'[i].old = calls[i].old \ {j}
            /\ \A k \in Calls : k # i => calls'[k] = calls[k]
        BY <2>3, <3>1, GoneIs
      <4>2. "overlap" \notin noted => \A b \in calls'[i].old : Exists(b)'
        BY <2>1, <2>3, <4>1 DEF CallsInTurn, Exists
      <4>3. QED
        BY <2>1, <2>3, <4>1, <4>2, TurnOn DEF Finished
    <3>2. CASE ~ Exists(j)
      <4>1. /\ calls'[i].stage = "failed" /\ \A k \in Calls : k # i => calls'[k] = calls[k]
        BY <2>3, <3>2, GoneIs
      <4>2. QED
        BY <2>1, <2>3, <4>1, TurnOn DEF Finished
    <3>3. QED
      BY <3>1, <3>2
  <2>4. QED
    BY <1>3, <2>2, <2>3, RemoveIs
<1>4. CASE Killed(i)
  <2>1. /\ i \in Active /\ calls'[i].stage = "failed" /\ noted \subseteq noted'
        /\ \A j \in Calls : j # i => calls'[j] = calls[j]
        /\ UNCHANGED <<files, writes>>
    BY <1>4, KilledIs, GoneIs
  <2>2. QED
    BY <2>1, TurnOn DEF Finished
<1>5. QED
  BY <1>1, <1>2, <1>3, <1>4

\* What stands goes on standing where no call selects and no file of it goes.
LEMMA StandsStay ==
    ASSUME NEW k \in Calls, Stands(k), files'[k].state = "complete",
           calls'[k].stage \in Finished,
           \A j \in Calls : calls'[j].stage = "removing" =>
               \/ k \notin calls'[j].old
               \/ calls[j].stage = "removing" /\ calls'[j].old \subseteq calls[j].old
    PROVE  Stands(k)'
BY DEF Stands, Finished

\* A step of a call that does not select: what has been copied stays, or fewer have.
LEMMA StandOn ==
    ASSUME BackupType, NewestStand, NEW i \in Calls, noted \subseteq noted',
           \A j \in Calls : j # i => calls'[j] = calls[j],
           calls'[i].stage = "removing" => calls[i].stage = "removing" /\ calls'[i].old \subseteq calls[i].old,
           i \in Copied' => i \in Copied, i \in Copied => calls'[i].stage \in Finished,
           i \in Copied => i \in Copied' \/ "crash" \in noted',
           calls[i].stage = "failed" => calls'[i].stage = "failed",
           \A k \in Calls : "overlap" \notin noted' /\ files[k].state = "complete" /\ calls[k].stage \in Finished
               => \/ files'[k].state = "complete"
                  \/ calls[i].stage = "removing" /\ k \in calls[i].old,
           "overlap" \notin noted' /\ "crash" \notin noted' =>
               \A k \in Calls : Exists(k)' => Exists(k) \/ calls'[k].stage = "copying",
           calls[i].stage = "copying" /\ calls'[i].stage # "copying" =>
               ~ Exists(i)' \/ "crash" \in noted'
    PROVE  NewestStand'
<1> SUFFICES ASSUME "overlap" \notin noted'
             PROVE  /\ Copied' # {} => \E k \in Calls : Stands(k)'
                    /\ "crash" \notin noted' =>
                          /\ \A k \in Calls : Exists(k)' => k \in Copied' \/ calls'[k].stage = "copying"
                          /\ \A k \in Copied' :
                                Cardinality({j \in Copied' : j > k}) < Keep => files'[k].state = "complete"
                          /\ \A k \in Calls : calls'[k].stage = "removing" =>
                                \A j \in calls'[k].old : Cardinality({l \in Copied' : l > j}) >= Keep
  BY Zenon DEF NewestStand
<1>1. "overlap" \notin noted
  OBVIOUS
<1>2. Copied' \subseteq Copied
  BY DEF Copied
<1>3. Copied' # {} => \E k \in Calls : Stands(k)'
  <2> SUFFICES ASSUME Copied' # {}
               PROVE  \E k \in Calls : Stands(k)'
    OBVIOUS
  <2>1. PICK k \in Calls : Stands(k)
    BY <1>1, <1>2 DEF NewestStand
  <2>2. files'[k].state = "complete" /\ calls'[k].stage \in Finished
    BY <2>1 DEF Stands, Finished, Copied
  <2>3. Stands(k)'
    BY <2>1, <2>2, StandsStay
  <2>4. QED
    BY <2>3
<1>4. ASSUME "crash" \notin noted'
      PROVE  /\ \A k \in Calls : Exists(k)' => k \in Copied' \/ calls'[k].stage = "copying"
             /\ \A k \in Copied' :
                   Cardinality({j \in Copied' : j > k}) < Keep => files'[k].state = "complete"
             /\ \A k \in Calls : calls'[k].stage = "removing" =>
                   \A j \in calls'[k].old : Cardinality({l \in Copied' : l > j}) >= Keep
  <2>1. Copied' = Copied /\ "crash" \notin noted
    BY <1>4 DEF Copied
  <2>2. /\ \A k \in Calls : Exists(k) => k \in Copied \/ calls[k].stage = "copying"
        /\ \A k \in Copied :
              Cardinality({j \in Copied : j > k}) < Keep => files[k].state = "complete"
        /\ \A k \in Calls : calls[k].stage = "removing" =>
              \A j \in calls[k].old : Cardinality({l \in Copied : l > j}) >= Keep
    BY <1>1, <2>1, Zenon DEF NewestStand
  <2>3. \A k \in Calls : Exists(k)' => k \in Copied' \/ calls'[k].stage = "copying"
    BY <1>4, <2>1, <2>2
  <2> DEFINE later(k) == Cardinality({j \in Copied : j > k})
  <2>4. \A k \in Calls : later(k) \in Nat
    <3> SUFFICES ASSUME NEW k \in Calls
                 PROVE  later(k) \in Nat
      OBVIOUS
    <3>1. {j \in Copied : j > k} \in SUBSET Calls
      BY DEF Copied
    <3>2. QED
      BY <3>1, CountIs
  <2>5. /\ \A k \in Copied : later(k) < Keep => files[k].state = "complete"
        /\ \A k \in Calls : calls[k].stage = "removing" => \A j \in calls[k].old : later(j) >= Keep
    BY <2>2, Zenon
  <2>6. \A k \in Copied : k \in Calls /\ calls[k].stage \in Finished
    BY DEF Copied, Finished
  <2>7. Keep \in Nat
    BY BackupAssumption
  <2>8. \A k \in Calls : calls'[k].stage = "removing" =>
              calls[k].stage = "removing" /\ calls'[k].old \subseteq calls[k].old
    OBVIOUS
  <2> HIDE DEF later
  <2>9. \A k \in Copied : later(k) < Keep => files'[k].state = "complete"
    BY <2>4, <2>5, <2>6, <2>7
  <2>10. \A k \in Calls : calls'[k].stage = "removing" => \A j \in calls'[k].old : later(j) >= Keep
    BY <2>5, <2>8
  <2>11. QED
    BY <2>1, <2>3, <2>9, <2>10, Zenon DEF later
<1>5. QED
  BY <1>3, <1>4

\* The call that selects is the last, its file the newest, and of the files it selects each
\* has `Keep` that were copied after it.
LEMMA StandSelect ==
    ASSUME BackupType, CallsInTurn, NewestStand, NEW i \in Calls, Select(i)
    PROVE  NewestStand'
<1> SUFFICES ASSUME "overlap" \notin noted'
             PROVE  /\ Copied' # {} => \E k \in Calls : Stands(k)'
                    /\ "crash" \notin noted' =>
                          /\ \A k \in Calls : Exists(k)' => k \in Copied' \/ calls'[k].stage = "copying"
                          /\ \A k \in Copied' :
                                Cardinality({j \in Copied' : j > k}) < Keep => files'[k].state = "complete"
                          /\ \A k \in Calls : calls'[k].stage = "removing" =>
                                \A j \in calls'[k].old : Cardinality({l \in Copied' : l > j}) >= Keep
  BY Zenon DEF NewestStand
<1>1. /\ calls[i].stage = "copying" /\ files[i].state = "complete"
      /\ calls'[i].stage = "removing" /\ calls'[i].old = Past
      /\ \A j \in Calls : j # i => calls'[j] = calls[j]
      /\ UNCHANGED <<files, writes, noted>>
  BY SelectIs, GoneIs
<1>2. i \in Active /\ "overlap" \notin noted
  BY <1>1 DEF Active
<1>3. \A j \in Calls : j # i => j \notin Active /\ (j > i => ~ Exists(j))
  BY <1>2, OneActive
<1>4. Keep \in Nat \ {0} /\ \A j \in Calls : j \in Int
  BY BackupAssumption DEF Calls
<1>5. i \notin Past
  <2>1. ASSUME NEW k \in Calls, Exists(k), Newer(k, i)
        PROVE  FALSE
    <3>1. Exists(i)
      BY <1>1 DEF Exists
    <3>2. k > i
      BY <1>2, <2>1, <3>1, LaterIsNewer
    <3>3. QED
      BY <1>3, <1>4, <2>1, <3>2
  <2>2. {k \in Calls : Exists(k) /\ Before(k, i)} = {}
    BY <2>1 DEF Before
  <2>3. Cardinality({k \in Calls : Exists(k) /\ Before(k, i)}) = 0
    BY <2>2, FS_EmptySet
  <2>4. QED
    BY <1>4, <2>3 DEF Past
<1>6. Stands(i)'
  BY <1>1, <1>3, <1>5 DEF Stands, Active
<1>7. Copied' = Copied \cup {i} /\ i \notin Copied
  BY <1>1 DEF Copied
<1>8. ASSUME "crash" \notin noted'
      PROVE  /\ \A k \in Calls : Exists(k)' => k \in Copied' \/ calls'[k].stage = "copying"
             /\ \A k \in Copied' :
                   Cardinality({j \in Copied' : j > k}) < Keep => files'[k].state = "complete"
             /\ \A k \in Calls : calls'[k].stage = "removing" =>
                   \A j \in calls'[k].old : Cardinality({l \in Copied' : l > j}) >= Keep
  <2>1. "crash" \notin noted
    BY <1>1, <1>8
  <2>2. /\ \A k \in Calls : Exists(k) => k \in Copied \/ calls[k].stage = "copying"
        /\ \A k \in Copied :
              Cardinality({j \in Copied : j > k}) < Keep => files[k].state = "complete"
    BY <1>2, <2>1, Zenon DEF NewestStand
  <2>3. \A k \in Calls : Exists(k) => k \in Copied'
    BY <1>3, <1>7, <2>2 DEF Active
  <2>4. \A k \in Calls : Exists(k)' => k \in Copied' \/ calls'[k].stage = "copying"
    BY <1>1, <2>3 DEF Exists
  <2>5. ASSUME NEW k \in Copied', Cardinality({j \in Copied' : j > k}) < Keep
        PROVE  files'[k].state = "complete"
    <3>1. CASE k = i
      BY <1>1, <3>1
    <3>2. CASE k # i
      <4>1. k \in Copied
        BY <1>7, <3>2
      <4> DEFINE S == {j \in Copied : j > k}
                 T == {j \in Copied' : j > k}
      <4>2. S \in SUBSET Calls /\ T \in SUBSET Calls /\ S \subseteq T
        BY <1>7 DEF Copied
      <4>3. Cardinality(T) < Keep
        BY <2>5
      <4> HIDE DEF S, T
      <4>4. Cardinality(S) < Keep
        BY <1>4, <4>2, <4>3, CountIs
      <4>5. files[k].state = "complete"
        BY <2>2, <4>1, <4>4 DEF S
      <4>6. QED
        BY <1>1, <4>5
    <3>3. QED
      BY <3>1, <3>2
  <2>6. ASSUME NEW k \in Calls, calls'[k].stage = "removing", NEW j \in calls'[k].old
        PROVE  Cardinality({l \in Copied' : l > j}) >= Keep
    <3>1. j \in Past
      BY <1>1, <1>3, <2>6 DEF Active
    <3>2. /\ j \in Calls /\ Exists(j)
          /\ Cardinality({l \in Calls : Exists(l) /\ Before(l, j)}) >= Keep
      BY <3>1 DEF Past
    <3> DEFINE S == {l \in Calls : Exists(l) /\ Before(l, j)}
               T == {l \in Copied' : l > j}
    <3>3. S \subseteq T
      <4> SUFFICES ASSUME NEW l \in S
                   PROVE  l \in T
        OBVIOUS
      <4>1. l \in Calls /\ Exists(l) /\ Newer(l, j)
        BY DEF Before
      <4>2. l > j
        BY <1>2, <3>2, <4>1, LaterIsNewer
      <4>3. QED
        BY <2>3, <4>1, <4>2
    <3>4. S \in SUBSET Calls /\ T \in SUBSET Calls
      BY DEF Copied
    <3>5. Cardinality(S) >= Keep
      BY <3>2
    <3> HIDE DEF S, T
    <3>6. Cardinality(T) >= Keep
      BY <1>4, <3>3, <3>4, <3>5, CountIs
    <3>7. QED
      BY <3>6 DEF T
  <2>7. QED
    BY <2>4, <2>5, <2>6
<1>9. QED
  BY <1>6, <1>8

LEMMA StandStep ==
    ASSUME BackupType, CallsInTurn, NewestStand, NEW i \in Calls,
           \/ Open(i) \/ Abort(i) \/ Select(i) \/ Remove(i) \/ Killed(i)
           \/ \E state \in {"partial", "complete"}, content \in Database \cup {Nothing} :
                 \/ Copy(i) /\ state = "partial" /\ content = Nothing
                 \/ /\ Complete(i, content) /\ state = "complete"
                    /\ disk # Empty /\ content = disk
    PROVE  NewestStand'
<1>0. NoFile.state = "none"
  BY DEF NoFile
<1>1. CASE Open(i)
  <2>1. /\ calls[i].stage = "unused" /\ calls'[i].stage = "copying" /\ noted \subseteq noted'
        /\ files'[i].state = "partial" /\ \A j \in Calls : j # i => files'[j] = files[j]
        /\ \A j \in Calls : j # i => calls'[j] = calls[j]
    BY <1>1, OpenIs, WroteIs, GoneIs
  <2>2. i \notin Copied /\ i \notin Copied'
    BY <2>1 DEF Copied
  <2>3. QED
    BY <2>1, <2>2, StandOn DEF Finished, Exists
<1>2. CASE Abort(i)
  <2>1. /\ calls[i].stage = "copying" /\ calls'[i].stage = "failed" /\ noted' = noted
        /\ files'[i].state = "none" /\ \A j \in Calls : j # i => files'[j] = files[j]
        /\ \A j \in Calls : j # i => calls'[j] = calls[j]
    BY <1>0, <1>2, AbortIs, GoneIs
  <2>2. i \notin Copied /\ i \notin Copied'
    BY <2>1 DEF Copied
  <2>3. QED
    BY <2>1, <2>2, StandOn DEF Finished, Exists
<1>3. CASE Select(i)
  BY <1>3, StandSelect
<1>4. CASE Remove(i)
  <2>1. /\ calls[i].stage = "removing" /\ noted' = noted /\ i \in Copied
    BY <1>4, RemoveIs DEF Copied
  <2>2. CASE calls[i].old = {} /\ Goes(i, "done", {}) /\ UNCHANGED files
    <3>1. calls'[i].stage = "done" /\ \A j \in Calls : j # i => calls'[j] = calls[j]
      BY <2>2, GoneIs
    <3>2. i \in Copied'
      BY <3>1 DEF Copied
    <3>3. QED
      BY <2>1, <2>2, <3>1, <3>2, StandOn DEF Finished, Exists
  <2>3. ASSUME NEW j \in calls[i].old,
               files' = [k \in Calls |-> IF k = j THEN NoFile ELSE files[k]],
               IF Exists(j) THEN Goes(i, "removing", calls[i].old \ {j})
                            ELSE Goes(i, "failed", calls[i].old)
        PROVE  NewestStand'
    <3>1. CASE Exists(j)
      <4>1. /\ calls'[i].stage = "removing" /\ calls'[i].old = calls[i].old \ {j}
            /\ \A k \in Calls : k # i => calls'[k] = calls[k]
        BY <2>3, <3>1, GoneIs
      <4>2. i \in Copied'
        BY <4>1 DEF Copied
      <4>3. \A k \in Calls : k # j => files'[k] = files[k]
        BY <2>3
      <4>4. j \in Calls /\ files'[j].state = "none"
        BY <1>0, <2>3 DEF BackupType, CallType
      <4>5. QED
        BY <2>1, <4>1, <4>2, <4>3, <4>4, StandOn DEF Finished, Exists
    <3>2. CASE ~ Exists(j)
      <4>1. "overlap" \in noted
        BY <2>1, <3>2 DEF CallsInTurn
      <4>2. QED
        BY <2>1, <4>1 DEF NewestStand
    <3>3. QED
      BY <3>1, <3>2
  <2>4. QED
    BY <1>4, <2>2, <2>3, RemoveIs
<1>5. CASE Killed(i)
  <2>1. /\ i \in Active /\ calls'[i].stage = "failed" /\ noted' = noted \cup {"crash"}
        /\ UNCHANGED <<files, writes>>
        /\ \A j \in Calls : j # i => calls'[j] = calls[j]
    BY <1>5, KilledIs, GoneIs
  <2>2. i \notin Copied'
    BY <2>1 DEF Copied
  <2>3. QED
    BY <2>1, <2>2, StandOn DEF Finished, Exists
<1>6. ASSUME NEW state \in {"partial", "complete"}, NEW content \in Database \cup {Nothing},
             \/ Copy(i) /\ state = "partial" /\ content = Nothing
             \/ /\ Complete(i, content) /\ state = "complete"
                /\ disk # Empty /\ content = disk
      PROVE  NewestStand'
  <2>1. calls[i].stage = "copying" /\ Write(i, state, content) /\ UNCHANGED <<calls, noted>>
    BY <1>6, CopyIs
  <2>2. \A j \in Calls : j # i => files'[j] = files[j]
    BY <2>1, WroteIs
  <2>3. i \notin Copied /\ i \notin Copied'
    BY <2>1 DEF Copied
  <2>4. QED
    BY <2>1, <2>2, <2>3, StandOn DEF Finished, Exists
<1>7. QED
  BY <1>1, <1>2, <1>3, <1>4, <1>5, <1>6

LEMMA StandSame ==
    ASSUME CallsInTurn, NewestStand, UNCHANGED <<files, calls, writes>>,
           noted' \in {noted, noted \cup {"half"}}
    PROVE  CallsInTurn' /\ NewestStand'
<1>1. ("overlap" \in noted' <=> "overlap" \in noted) /\ ("crash" \in noted' <=> "crash" \in noted)
  OBVIOUS
<1>2. CallsInTurn'
  BY <1>1 DEF CallsInTurn, Exists, Active, Newer
<1>3. Copied' = Copied /\ \A i \in Calls : Stands(i)' <=> Stands(i)
  BY DEF Copied, Stands
<1>4. NewestStand'
  BY <1>1, <1>3 DEF NewestStand, Exists
<1>5. QED
  BY <1>2, <1>4

LEMMA TurnAndStandStep ==
    DeploymentInv /\ CallsInTurn /\ NewestStand /\ [DeploymentNext]_deploymentVars
        => CallsInTurn' /\ NewestStand'
<1> SUFFICES ASSUME DeploymentInv, CallsInTurn, NewestStand, [DeploymentNext]_deploymentVars
             PROVE  CallsInTurn' /\ NewestStand'
  OBVIOUS
<1>0. BackupType
  BY DEF DeploymentInv
<1>1. CASE UNCHANGED backupVars
  BY <1>1, StandSame DEF backupVars
<1>2. CASE Backups
  <2>1. PICK i \in Calls :
                 \/ Open(i) \/ Abort(i) \/ Select(i) \/ Remove(i) \/ Killed(i)
                 \/ \E state \in {"partial", "complete"}, content \in Database \cup {Nothing} :
                       \/ Copy(i) /\ state = "partial" /\ content = Nothing
                       \/ /\ Complete(i, content) /\ state = "complete"
                          /\ disk # Empty /\ content = disk
    BY <1>2, BackupsAre
  <2>2. NewestStand'
    BY <1>0, <2>1, StandStep
  <2>3. ASSUME NEW state \in {"partial", "complete"}, NEW content \in Database \cup {Nothing},
               \/ Copy(i) /\ state = "partial" /\ content = Nothing
               \/ /\ Complete(i, content) /\ state = "complete"
                  /\ disk # Empty /\ content = disk
        PROVE  CallsInTurn'
    <3>1. /\ calls[i].stage = "copying" /\ Write(i, state, content)
          /\ writes' = writes + 1 /\ UNCHANGED <<calls, noted>>
      BY <1>0, <2>3, CopyIs
    <3>2. QED
      BY <1>0, <3>1, TurnCopy
  <2>4. CallsInTurn'
    BY <1>0, <2>1, <2>3, TurnOpen, TurnRest
  <2>5. QED
    BY <2>2, <2>4
<1>3. ASSUME NEW i \in Calls, Restore(i)
      PROVE  CallsInTurn' /\ NewestStand'
  <2>1. UNCHANGED <<files, calls, writes>> /\ noted' \in {noted, noted \cup {"half"}}
    BY <1>3 DEF Restore
  <2>2. QED
    BY <2>1, StandSame
<1>4. QED
  BY <1>1, <1>2, <1>3 DEF DeploymentNext, deploymentVars, backupVars

LEMMA TurnAndStandInit == DeploymentInit => CallsInTurn /\ NewestStand
<1> SUFFICES ASSUME DeploymentInit
             PROVE  CallsInTurn /\ NewestStand
  OBVIOUS
<1>1. /\ files = [i \in Calls |-> NoFile] /\ calls = [i \in Calls |-> [stage |-> "unused", old |-> {}]]
      /\ writes = 0 /\ noted = {}
  BY DEF DeploymentInit, BackupInit
<1>2. NoFile.state = "none" /\ NoFile.mtime = 0
  BY DEF NoFile
<1>3. CallsInTurn
  BY <1>1, <1>2 DEF CallsInTurn, Exists, Active
<1>4. Copied = {}
  BY <1>1 DEF Copied
<1>5. NewestStand
  BY <1>1, <1>2, <1>4 DEF NewestStand, Exists
<1>6. QED
  BY <1>3, <1>5

\* Unless two calls of the backup overlap, a backup that was reported done leaves a complete
\* one for good, and without a crash the newest `Keep` of those that were copied are
\* complete, whatever other calls fail, run out of time or are repeated.
THEOREM BackupsStand == DeploymentSpec => []BackupStands
<1>1. NewestStand => BackupStands
  <2> SUFFICES ASSUME NewestStand, "overlap" \notin noted
               PROVE  BackupStands
    BY DEF BackupStands
  <2>1. (\E i \in Calls : calls[i].stage = "done") => Copied # {}
    BY DEF Copied
  <2>2. (\E i \in Calls : Stands(i)) => \E i \in Calls : files[i].state = "complete"
    BY DEF Stands
  <2>3. Copied # {} => \E i \in Calls : Stands(i)
    BY DEF NewestStand
  <2>4. "crash" \notin noted => \A i \in Copied :
            Cardinality({j \in Copied : j > i}) < Keep => files[i].state = "complete"
    BY Zenon DEF NewestStand
  <2>5. QED
    BY <2>1, <2>2, <2>3, <2>4, Zenon DEF BackupStands
<1>2. QED
  BY <1>1, TurnAndStandInit, TurnAndStandStep, DeploymentInvariant, PTL DEF DeploymentSpec

=============================================================================
