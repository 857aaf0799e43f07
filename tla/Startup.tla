------------------------------- MODULE Startup -------------------------------
(***************************************************************************)
(* bootstrap_databases of db_bootstrap.py.  Every process that builds a    *)
(* runtime, the daemon (main.py) and the commands of the administrator     *)
(* (admin.py), brings queue.db and control.db up to date first, and        *)
(* nothing keeps two of them from doing so together.                       *)
(*                                                                         *)
(* sqlite3 of Python opens a transaction before an INSERT only.  A CREATE  *)
(* or ALTER commits by itself when no transaction is open, and             *)
(* executescript commits an open one before it runs its script: the row of *)
(* a version stays uncommitted, and the write lock held, until the script  *)
(* of the next version or the commit at the end.                           *)
(***************************************************************************)
EXTENDS Naturals, Sequences

CONSTANTS
    Process,    \* the daemon and the administrator's commands
    Release     \* the number of migrations of queue.db each one's code has

ASSUME ReleaseAssumption == Release \in [Process -> 1..8]

QueueDb   == "queue.db"
ControlDb == "control.db"

\* What a script creates, and whether it is run by executescript with IF NOT
\* EXISTS in each statement, or column by column (_queue_migration_0003).
Migration(file, name, objects, script) ==
    [db |-> file, version |-> name, creates |-> objects, scripted |-> script]

QUEUE_MIGRATION_0001 == Migration(QueueDb, "0001_initial",
    <<"tasks", "task_edges", "task_events", "approvals",
      "files", "ingestion_runs", "chunks">>, TRUE)
QUEUE_MIGRATION_0002 == Migration(QueueDb, "0002_active_partition_memory",
    <<"memory_projects", "active_partitions", "conversation_events",
      "memory_records">>, TRUE)
QUEUE_MIGRATION_0003 == Migration(QueueDb, "0003_memory_index_state",
    <<"index_status", "indexed_at", "index_error">>, FALSE)
QUEUE_MIGRATION_0004 == Migration(QueueDb, "0004_skill_manifests",
    <<"skill_manifests">>, TRUE)
QUEUE_MIGRATION_0005 == Migration(QueueDb, "0005_snapshot_patch_records",
    <<"snapshot_records">>, TRUE)
QUEUE_MIGRATION_0006 == Migration(QueueDb, "0006_patch_artifacts",
    <<"patch_artifacts">>, TRUE)
QUEUE_MIGRATION_0007 == Migration(QueueDb, "0007_patch_apply_approvals",
    <<"approval_records", "patch_apply_runs", "file_snapshots">>, TRUE)
QUEUE_MIGRATION_0008 == Migration(QueueDb, "0008_capability_registry",
    <<"capability_manifests">>, TRUE)
CONTROL_MIGRATION_0001 == Migration(ControlDb, "0001_initial",
    <<"leases", "process_registry", "dead_letters">>, TRUE)

QUEUE_MIGRATIONS ==
    <<QUEUE_MIGRATION_0001, QUEUE_MIGRATION_0002, QUEUE_MIGRATION_0003,
      QUEUE_MIGRATION_0004, QUEUE_MIGRATION_0005, QUEUE_MIGRATION_0006,
      QUEUE_MIGRATION_0007, QUEUE_MIGRATION_0008>>

Migrations ==
    [p \in Process |-> SubSeq(QUEUE_MIGRATIONS, 1, Release[p]) \o <<CONTROL_MIGRATION_0001>>]

Row(m)     == [db |-> m.db, version |-> m.version]
Creates(m) == {m.creates[k] : k \in DOMAIN m.creates}
Known      == [p \in Process |-> {Row(Migrations[p][k]) : k \in DOMAIN Migrations[p]}]

VARIABLES
    versions,   \* the committed rows of the two schema_migrations tables
    schema,     \* the committed tables and columns
    stage,      \* of each process: "down", "connect", "migrate", "alter" or "up"
    file,       \* the database it has open
    applied,    \* the rows it read when it opened it
    next,       \* the migration it has come to
    done,       \* how many statements of that migration it has executed
    columns,    \* the columns it found before the first ALTER
    rows,       \* the rows of its open transaction, and
    altered     \* the columns added in it

dbVars    == <<versions, schema>>
placeVars == <<applied, next, done, columns>>
openVars  == <<rows, altered>>
startVars == <<dbVars, stage, file, placeVars, openVars>>

\* What a process has to do in the database it has open.
Todo(p, read) ==
    {k \in DOMAIN Migrations[p] :
        Migrations[p][k].db = file[p] /\ Row(Migrations[p][k]) \notin read}
First(ks)  == CHOOSE k \in ks : \A l \in ks : k <= l
Current(p) == Migrations[p][next[p]]
Pending(p) == done[p] < Len(Current(p).creates)
Statement(p) == Current(p).creates[done[p] + 1]

\* An open transaction, which begins with the row of a version, holds the
\* write lock of its database.
Locked(p) == \E q \in Process \ {p} : rows[q] # {} /\ file[q] = file[p]

Forget(p) ==
    /\ applied' = [applied EXCEPT ![p] = {}]
    /\ next' = [next EXCEPT ![p] = 1]
    /\ done' = [done EXCEPT ![p] = 0]
    /\ columns' = [columns EXCEPT ![p] = {}]
    /\ rows' = [rows EXCEPT ![p] = {}]
    /\ altered' = [altered EXCEPT ![p] = {}]

\* An exception, or the death of the process: the transaction is rolled back.
Fall(p) ==
    /\ stage' = [stage EXCEPT ![p] = "down"]
    /\ file' = [file EXCEPT ![p] = QueueDb]
    /\ Forget(p)
    /\ UNCHANGED dbVars

\* A database is done: on to control.db, or ready.
Close(p) ==
    /\ IF file[p] = QueueDb
         THEN /\ file' = [file EXCEPT ![p] = ControlDb]
              /\ stage' = [stage EXCEPT ![p] = "connect"]
         ELSE /\ stage' = [stage EXCEPT ![p] = "up"]
              /\ UNCHANGED file
    /\ Forget(p)

-----------------------------------------------------------------------------

StartupInit ==
    /\ versions = {}
    /\ schema = {}
    /\ stage = [p \in Process |-> "down"]
    /\ file = [p \in Process |-> QueueDb]
    /\ applied = [p \in Process |-> {}]
    /\ next = [p \in Process |-> 1]
    /\ done = [p \in Process |-> 0]
    /\ columns = [p \in Process |-> {}]
    /\ rows = [p \in Process |-> {}]
    /\ altered = [p \in Process |-> {}]

Boot(p) ==
    /\ stage[p] = "down"
    /\ stage' = [stage EXCEPT ![p] = "connect"]
    /\ UNCHANGED <<dbVars, file, placeVars, openVars>>

\* schema_migrations is created if need be, and read once.
Connect(p) ==
    LET read == {r \in versions : r.db = file[p]}
        todo == Todo(p, read)
    IN
    /\ stage[p] = "connect"
    /\ \/ /\ ~(read \subseteq Known[p])
          /\ Fall(p)
       \/ /\ read \subseteq Known[p]
          /\ todo = {}
          /\ Close(p)
          /\ UNCHANGED dbVars
       \/ /\ read \subseteq Known[p]
          /\ todo # {}
          /\ stage' = [stage EXCEPT ![p] = "migrate"]
          /\ applied' = [applied EXCEPT ![p] = read]
          /\ next' = [next EXCEPT ![p] = First(todo)]
          /\ UNCHANGED <<dbVars, file, done, columns, openVars>>

\* executescript commits what is open, and then each statement by itself.
CommitOpen(p) ==
    /\ stage[p] = "migrate"
    /\ Current(p).scripted
    /\ done[p] = 0
    /\ rows[p] # {}
    /\ versions' = versions \cup rows[p]
    /\ schema' = schema \cup altered[p]
    /\ rows' = [rows EXCEPT ![p] = {}]
    /\ altered' = [altered EXCEPT ![p] = {}]
    /\ UNCHANGED <<stage, file, placeVars>>

RunStatement(p) ==
    /\ stage[p] = "migrate"
    /\ Current(p).scripted
    /\ Pending(p)
    /\ rows[p] = {}
    /\ ~Locked(p)
    /\ schema' = schema \cup {Statement(p)}
    /\ done' = [done EXCEPT ![p] = @ + 1]
    /\ UNCHANGED <<versions, stage, file, applied, next, columns, openVars>>

\* Mutant of ReadColumns: the columns that are there are not looked up.
ReadNoColumns(p) ==
    /\ stage[p] = "migrate"
    /\ ~Current(p).scripted
    /\ stage' = [stage EXCEPT ![p] = "alter"]
    /\ columns' = [columns EXCEPT ![p] = {}]
    /\ UNCHANGED <<dbVars, file, applied, next, done, openVars>>

\* PRAGMA table_info, before the first ALTER.
ReadColumns(p) ==
    /\ stage[p] = "migrate"
    /\ ~Current(p).scripted
    /\ stage' = [stage EXCEPT ![p] = "alter"]
    /\ columns' = [columns EXCEPT ![p] = schema \cap Creates(Current(p))]
    /\ UNCHANGED <<dbVars, file, applied, next, done, openVars>>

\* A column that was not there is added, inside the transaction of the row
\* before it or by itself.  ALTER has no IF NOT EXISTS: when another process
\* has added the column meanwhile, it raises.
AlterTable(p) ==
    /\ stage[p] = "alter"
    /\ Pending(p)
    /\ \/ /\ Statement(p) \in columns[p]
          /\ done' = [done EXCEPT ![p] = @ + 1]
          /\ UNCHANGED <<dbVars, stage, file, applied, next, columns, openVars>>
       \/ /\ Statement(p) \in schema \ columns[p]
          /\ Fall(p)
       \/ /\ Statement(p) \notin columns[p] \cup schema
          /\ ~Locked(p)
          /\ IF rows[p] = {}
               THEN /\ schema' = schema \cup {Statement(p)}
                    /\ UNCHANGED altered
               ELSE /\ altered' = [altered EXCEPT ![p] = @ \cup {Statement(p)}]
                    /\ UNCHANGED schema
          /\ done' = [done EXCEPT ![p] = @ + 1]
          /\ UNCHANGED <<versions, stage, file, applied, next, columns, rows>>

\* Mutant of InsertVersion: the row may come before the statements.
InsertVersionFirst(p) ==
    LET later == {k \in Todo(p, applied[p]) : k > next[p]}
    IN
    /\ stage[p] \in {"migrate", "alter"}
    /\ Row(Current(p)) \notin rows[p]
    /\ \/ /\ Row(Current(p)) \in versions
          /\ Fall(p)
       \/ /\ Row(Current(p)) \notin versions
          /\ ~Locked(p)
          /\ stage' = [stage EXCEPT ![p] = "migrate"]
          /\ rows' = [rows EXCEPT ![p] = @ \cup {Row(Current(p))}]
          /\ IF later = {}
               THEN UNCHANGED <<next, done>>
               ELSE /\ next' = [next EXCEPT ![p] = First(later)]
                    /\ done' = [done EXCEPT ![p] = 0]
          /\ UNCHANGED <<dbVars, file, applied, columns, altered>>

\* The row of the version.  It is the key of the table: when another process
\* has inserted it since Connect, the INSERT raises.
InsertVersion(p) ==
    LET later == {k \in Todo(p, applied[p]) : k > next[p]}
    IN
    /\ stage[p] \in {"migrate", "alter"}
    /\ ~Pending(p)
    /\ Row(Current(p)) \notin rows[p]
    /\ \/ /\ Row(Current(p)) \in versions
          /\ Fall(p)
       \/ /\ Row(Current(p)) \notin versions
          /\ ~Locked(p)
          /\ stage' = [stage EXCEPT ![p] = "migrate"]
          /\ rows' = [rows EXCEPT ![p] = @ \cup {Row(Current(p))}]
          /\ IF later = {}
               THEN UNCHANGED <<next, done>>
               ELSE /\ next' = [next EXCEPT ![p] = First(later)]
                    /\ done' = [done EXCEPT ![p] = 0]
          /\ UNCHANGED <<dbVars, file, applied, columns, altered>>

\* conn.commit() after the last migration, and the connection is closed.
CommitFile(p) ==
    /\ stage[p] = "migrate"
    /\ Row(Current(p)) \in rows[p]
    /\ versions' = versions \cup rows[p]
    /\ schema' = schema \cup altered[p]
    /\ Close(p)

\* A statement that writes waits for the lock of another process for the five
\* seconds of busy_timeout, and then raises "database is locked".
LockTimeout(p) ==
    /\ stage[p] \in {"migrate", "alter"}
    /\ rows[p] = {}
    /\ Locked(p)
    /\ Fall(p)

\* The process dies, or a command that is done ends.
Die(p) ==
    /\ stage[p] # "down"
    /\ Fall(p)

Bootstrap(p) ==
    \/ Connect(p)
    \/ CommitOpen(p)
    \/ RunStatement(p)
    \/ ReadColumns(p)
    \/ AlterTable(p)
    \/ InsertVersion(p)
    \/ CommitFile(p)

StartupStep(p) == Boot(p) \/ Bootstrap(p) \/ LockTimeout(p) \/ Die(p)

StartupNext == \E p \in Process : StartupStep(p)
StartupSpec == StartupInit /\ [][StartupNext]_startVars

\* A process that does not run is started again, and one that runs comes on.
StartupFairness == \A p \in Process : WF_startVars(Boot(p) \/ Bootstrap(p))
FairStartup     == StartupSpec /\ StartupFairness

-----------------------------------------------------------------------------

Objects == UNION {UNION {Creates(Migrations[p][k]) : k \in DOMAIN Migrations[p]} : p \in Process}
AllRows == UNION {Known[p] : p \in Process}

StartupTypeOK ==
    /\ versions \subseteq AllRows
    /\ schema \subseteq Objects
    /\ stage \in [Process -> {"down", "connect", "migrate", "alter", "up"}]
    /\ file \in [Process -> {QueueDb, ControlDb}]
    /\ applied \in [Process -> SUBSET AllRows]
    /\ rows \in [Process -> SUBSET AllRows]
    /\ altered \in [Process -> SUBSET Objects]
    /\ columns \in [Process -> SUBSET Objects]
    /\ \A p \in Process :
        /\ next[p] \in DOMAIN Migrations[p]
        /\ done[p] \in 0..Len(Current(p).creates)

\* A version that is recorded is there in full, although its row and its
\* statements are separate commits, made by several processes at a time and
\* cut short by deaths: a migration is passed over only if it is complete.  A
\* process that is up finds every version its code knows.
VersionMeansSchema ==
    \A p \in Process : \A k \in DOMAIN Migrations[p] :
        /\ Row(Migrations[p][k]) \in versions => Creates(Migrations[p][k]) \subseteq schema
        /\ stage[p] = "up" => Row(Migrations[p][k]) \in versions

\* If nobody is killed any more, every process of the latest release comes up
\* and stays up, however many of them start together on whatever the dead left
\* behind.
Kill(p)   == stage[p] # "down" /\ Fall(p) /\ ~Bootstrap(p) /\ ~LockTimeout(p)
KillsStop == <>[][\A p \in Process : ~Kill(p)]_startVars
Latest    == {p \in Process : Release[p] = Len(QUEUE_MIGRATIONS)}
StartsSucceed == KillsStop => \A p \in Latest : <>[](stage[p] = "up")
=============================================================================
