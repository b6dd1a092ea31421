------------------------------- MODULE Backup -------------------------------
(***************************************************************************)
(* Backups of the database (src/scripts/backup_db.py): each call makes a   *)
(* file of its own, copies the database into it, checks it, and then       *)
(* removes all but the newest `Keep` files, newest by the time of their    *)
(* last write.  Calls may overlap, fail and crash.                         *)
(***************************************************************************)
EXTENDS Naturals, FiniteSets

CONSTANTS
    Nothing,     \* what is in a file that is not complete
    Keep,        \* --keep
    MaxBackups,  \* bound: calls of backup()
    MaxWrites    \* bound: writes to backup files

ASSUME BackupAssumption == Keep \in Nat \ {0} /\ MaxBackups \in Nat /\ MaxWrites \in Nat

Calls == 1 .. MaxBackups

VARIABLES
    files,   \* [Calls -> the file the call made: its state, mtime and content]
    calls,   \* [Calls -> where the call is; `old`: the files it is to remove]
    writes,  \* the number of writes so far, the clock of the mtimes
    noted    \* history: "overlap" of two calls, "crash" of one, "half": a schema that was
             \* not whole was restored

backupVars == <<files, calls, writes, noted>>

NoFile == [state |-> "none", mtime |-> 0, content |-> Nothing]

BackupInit ==
    /\ files = [i \in Calls |-> NoFile]
    /\ calls = [i \in Calls |-> [stage |-> "unused", old |-> {}]]
    /\ writes = 0 /\ noted = {}

Exists(i) == files[i].state # "none"
Active    == {i \in Calls : calls[i].stage \in {"copying", "removing"}}

\* A write of the file of call `i`.
Written(i, state, content) ==
    /\ writes < MaxWrites /\ writes' = writes + 1
    /\ files' = [files EXCEPT ![i] = [state |-> state, mtime |-> writes', content |-> content]]

To(i, stage) == calls' = [calls EXCEPT ![i].stage = stage]

\* The file is made, empty.
Open(i) ==
    /\ calls[i].stage = "unused"
    /\ \A j \in Calls : j < i => calls[j].stage # "unused"
    /\ Written(i, "partial", Nothing)
    /\ To(i, "copying")
    /\ noted' = IF Active = {} THEN noted ELSE noted \cup {"overlap"}

\* Some pages are copied.
Copy(i) ==
    /\ calls[i].stage = "copying" /\ files[i].state = "partial"
    /\ Written(i, "partial", Nothing)
    /\ UNCHANGED <<calls, noted>>

\* The last pages are copied, and the file passes the check.  The copy is the database
\* as it is committed by then.
Complete(i, content) ==
    /\ calls[i].stage = "copying" /\ files[i].state = "partial"
    /\ Written(i, "complete", content)
    /\ UNCHANGED <<calls, noted>>

\* Out of time, an error or a failed check: the file is removed.
Abort(i) ==
    /\ calls[i].stage = "copying"
    /\ files' = [files EXCEPT ![i] = NoFile]
    /\ To(i, "failed")
    /\ UNCHANGED <<writes, noted>>

Newer(i, j) == files[i].mtime > files[j].mtime

\* Fault: the oldest files are kept.
Older(i, j) == files[i].mtime < files[j].mtime

\* The order of the generations, the ones to keep first.
Before(i, j) == Newer(i, j)

\* The files past the first `Keep`, half-made ones counted.
Select(i) ==
    /\ calls[i].stage = "copying" /\ files[i].state = "complete"
    /\ calls' = [calls EXCEPT ![i] =
                   [stage |-> "removing",
                    old |-> {j \in Calls :
                               Exists(j) /\ Cardinality({k \in Calls : Exists(k) /\ Before(k, j)}) >= Keep}]]
    /\ UNCHANGED <<files, writes, noted>>

\* A file that another call has removed makes this one fail.
Remove(i) ==
    /\ calls[i].stage = "removing"
    /\ IF calls[i].old = {} THEN To(i, "done") /\ UNCHANGED files
       ELSE \E j \in calls[i].old :
              /\ \A k \in calls[i].old : k # j => Before(j, k)
              /\ files' = [files EXCEPT ![j] = NoFile]
              /\ IF Exists(j) THEN calls' = [calls EXCEPT ![i].old = @ \ {j}] ELSE To(i, "failed")
    /\ UNCHANGED <<writes, noted>>

\* The call is killed; its file stays as it is.
Killed(i) ==
    /\ i \in Active
    /\ To(i, "failed")
    /\ noted' = noted \cup {"crash"}
    /\ UNCHANGED <<files, writes>>

BackupStep(i) == Open(i) \/ Copy(i) \/ Abort(i) \/ Select(i) \/ Remove(i) \/ Killed(i)

=============================================================================
