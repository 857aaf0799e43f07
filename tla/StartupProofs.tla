---------------------------- MODULE StartupProofs ----------------------------
(***************************************************************************)
(* VersionMeansSchema and the types, for any number of processes of any    *)
(* releases.                                                               *)
(*                                                                         *)
(* A row is committed together with, or after, what it stands for: so the  *)
(* rows of an open transaction stand for what is in the schema or altered  *)
(* in the same transaction (RowsAreBacked), and for the migration a        *)
(* process is in, the statements it has passed (StatementsAreDone).  That  *)
(* a process which is up has passed over nothing follows from the order in *)
(* which it comes to its migrations (InOrder).                             *)
(***************************************************************************)
EXTENDS Startup, SequenceTheorems, TLAPS

AllMigrations ==
    {QUEUE_MIGRATION_0001, QUEUE_MIGRATION_0002, QUEUE_MIGRATION_0003,
     QUEUE_MIGRATION_0004, QUEUE_MIGRATION_0005, QUEUE_MIGRATION_0006,
     QUEUE_MIGRATION_0007, QUEUE_MIGRATION_0008, CONTROL_MIGRATION_0001}

-----------------------------------------------------------------------------
(* The migrations. *)

\* The rows of the migrations.
LEMMA RowsOfMigrations ==
  /\ Row(QUEUE_MIGRATION_0001) = [db |-> QueueDb, version |-> "0001_initial"]
  /\ Row(QUEUE_MIGRATION_0002) = [db |-> QueueDb, version |-> "0002_active_partition_memory"]
  /\ Row(QUEUE_MIGRATION_0003) = [db |-> QueueDb, version |-> "0003_memory_index_state"]
  /\ Row(QUEUE_MIGRATION_0004) = [db |-> QueueDb, version |-> "0004_skill_manifests"]
  /\ Row(QUEUE_MIGRATION_0005) = [db |-> QueueDb, version |-> "0005_snapshot_patch_records"]
  /\ Row(QUEUE_MIGRATION_0006) = [db |-> QueueDb, version |-> "0006_patch_artifacts"]
  /\ Row(QUEUE_MIGRATION_0007) = [db |-> QueueDb, version |-> "0007_patch_apply_approvals"]
  /\ Row(QUEUE_MIGRATION_0008) = [db |-> QueueDb, version |-> "0008_capability_registry"]
  /\ Row(CONTROL_MIGRATION_0001) = [db |-> ControlDb, version |-> "0001_initial"]
  BY DEF Row, Migration, QUEUE_MIGRATION_0001, QUEUE_MIGRATION_0002,
     QUEUE_MIGRATION_0003, QUEUE_MIGRATION_0004, QUEUE_MIGRATION_0005,
     QUEUE_MIGRATION_0006, QUEUE_MIGRATION_0007, QUEUE_MIGRATION_0008,
     CONTROL_MIGRATION_0001

\* The row of a version identifies its migration.
LEMMA RowsIdentify ==
  ASSUME NEW m \in AllMigrations, NEW n \in AllMigrations, Row(m) = Row(n)
  PROVE  m = n
  <1> DEFINE d == Row(m).db
             v == Row(m).version
  <1>1. d = Row(n).db /\ v = Row(n).version
    OBVIOUS
  <1> QED
    BY <1>1, RowsOfMigrations DEF AllMigrations, QueueDb, ControlDb

\* What a migration creates is a sequence.
LEMMA CreatesAreSequences ==
  ASSUME NEW m \in AllMigrations
  PROVE  /\ Len(m.creates) \in Nat /\ DOMAIN m.creates = 1..Len(m.creates)
         /\ m.db \in {QueueDb, ControlDb}
  <1>1. CASE m = QUEUE_MIGRATION_0001
    BY <1>1 DEF QUEUE_MIGRATION_0001, Migration
  <1>2. CASE m = QUEUE_MIGRATION_0002
    BY <1>2 DEF QUEUE_MIGRATION_0002, Migration
  <1>3. CASE m = QUEUE_MIGRATION_0003
    BY <1>3 DEF QUEUE_MIGRATION_0003, Migration
  <1>4. CASE m = QUEUE_MIGRATION_0004
    BY <1>4 DEF QUEUE_MIGRATION_0004, Migration
  <1>5. CASE m = QUEUE_MIGRATION_0005
    BY <1>5 DEF QUEUE_MIGRATION_0005, Migration
  <1>6. CASE m = QUEUE_MIGRATION_0006
    BY <1>6 DEF QUEUE_MIGRATION_0006, Migration
  <1>7. CASE m = QUEUE_MIGRATION_0007
    BY <1>7 DEF QUEUE_MIGRATION_0007, Migration
  <1>8. CASE m = QUEUE_MIGRATION_0008
    BY <1>8 DEF QUEUE_MIGRATION_0008, Migration
  <1>9. CASE m = CONTROL_MIGRATION_0001
    BY <1>9 DEF CONTROL_MIGRATION_0001, Migration
  <1> QED
    BY <1>1, <1>2, <1>3, <1>4, <1>5, <1>6, <1>7, <1>8, <1>9 DEF AllMigrations

\* Those of queue.db, in their order.
LEMMA QueueMigrations ==
  /\ QUEUE_MIGRATIONS \in Seq(AllMigrations)
  /\ \A k \in 1..8 : QUEUE_MIGRATIONS[k] \in AllMigrations
  /\ Len(QUEUE_MIGRATIONS) = 8
  /\ \A k, l \in 1..8 : QUEUE_MIGRATIONS[k] = QUEUE_MIGRATIONS[l] => k = l
  /\ \A k \in 1..8 : QUEUE_MIGRATIONS[k].db = QueueDb
  BY RowsOfMigrations DEF AllMigrations, QUEUE_MIGRATIONS, Row, QueueDb, ControlDb

\* Each process has some of them, in an order.
LEMMA MigrationsOfProcess ==
  ASSUME NEW p \in Process
  PROVE  /\ Len(Migrations[p]) \in 2..9
         /\ Migrations[p] \in Seq(AllMigrations)
         /\ DOMAIN Migrations[p] = 1..Len(Migrations[p])
         /\ \A k, l \in DOMAIN Migrations[p] :
              Row(Migrations[p][k]) = Row(Migrations[p][l]) => k = l
  <1>1. Release[p] \in 1..8
    BY ReleaseAssumption
  <1> DEFINE Q == SubSeq(QUEUE_MIGRATIONS, 1, Release[p])
             C == <<CONTROL_MIGRATION_0001>>
  <1>2. /\ Q \in Seq(AllMigrations) /\ Len(Q) = Release[p]
        /\ \A k \in 1..Release[p] : Q[k] = QUEUE_MIGRATIONS[k]
    <2>1. \A k \in 1..Release[p] : QUEUE_MIGRATIONS[k] \in AllMigrations
      BY <1>1, QueueMigrations
    <2>2. /\ SubSeq(QUEUE_MIGRATIONS, 1, Release[p]) \in Seq(AllMigrations)
          /\ Len(SubSeq(QUEUE_MIGRATIONS, 1, Release[p])) = Release[p] - 1 + 1
          /\ \A k \in 1..Release[p] - 1 + 1 :
               SubSeq(QUEUE_MIGRATIONS, 1, Release[p])[k] = QUEUE_MIGRATIONS[1 + k - 1]
      BY <1>1, <2>1, SubSeqProperties
    <2> QED
      BY <1>1, <2>2
  <1>3. C \in Seq(AllMigrations) /\ Len(C) = 1 /\ C[1] = CONTROL_MIGRATION_0001
    BY DEF AllMigrations
  <1> DEFINE S == Migrations[p]
  <1>4. S = Q \o C
    BY DEF Migrations
  <1> HIDE DEF Q, C, S
  <1>5. /\ S \in Seq(AllMigrations) /\ Len(S) = Release[p] + 1
        /\ \A k \in 1..Release[p] + 1 :
             S[k] = IF k <= Release[p] THEN QUEUE_MIGRATIONS[k] ELSE CONTROL_MIGRATION_0001
    <2>1. /\ Q \o C \in Seq(AllMigrations) /\ Len(Q \o C) = Len(Q) + Len(C)
          /\ \A k \in 1..Len(Q) + Len(C) :
               (Q \o C)[k] = IF k <= Len(Q) THEN Q[k] ELSE C[k - Len(Q)]
      BY <1>2, <1>3, ConcatProperties
    <2>2. ASSUME NEW k \in 1..Release[p] + 1
          PROVE  S[k] = IF k <= Release[p] THEN QUEUE_MIGRATIONS[k] ELSE CONTROL_MIGRATION_0001
      BY <1>1, <1>2, <1>3, <1>4, <2>1, <2>2
    <2> QED
      BY <1>2, <1>3, <1>4, <2>1, <2>2
  <1>6. \A k \in 1..8 : QUEUE_MIGRATIONS[k] # CONTROL_MIGRATION_0001
    BY QueueMigrations DEF Migration, CONTROL_MIGRATION_0001, QueueDb, ControlDb
  <1>7. ASSUME NEW k \in 1..Release[p] + 1, NEW l \in 1..Release[p] + 1, S[k] = S[l]
        PROVE  k = l
    <2>1. k \in Nat /\ l \in Nat /\ Release[p] \in Nat
      BY <1>1
    <2>2. CASE k <= Release[p] /\ l <= Release[p]
      <3>1. S[k] = QUEUE_MIGRATIONS[k] /\ S[l] = QUEUE_MIGRATIONS[l]
        BY <1>5, <2>2
      <3>2. k \in 1..8 /\ l \in 1..8
        BY <1>1, <2>1, <2>2
      <3> QED
        BY <1>7, <3>1, <3>2, QueueMigrations
    <2>3. CASE k > Release[p] /\ l > Release[p]
      BY <2>1, <2>3
    <2>4. CASE k <= Release[p] /\ l > Release[p]
      <3>1. S[k] = QUEUE_MIGRATIONS[k] /\ S[l] = CONTROL_MIGRATION_0001 /\ k \in 1..8
        BY <1>1, <1>5, <2>1, <2>4
      <3> QED
        BY <1>6, <1>7, <3>1
    <2>5. CASE k > Release[p] /\ l <= Release[p]
      <3>1. S[l] = QUEUE_MIGRATIONS[l] /\ S[k] = CONTROL_MIGRATION_0001 /\ l \in 1..8
        BY <1>1, <1>5, <2>1, <2>5
      <3> QED
        BY <1>6, <1>7, <3>1
    <2> QED
      BY <2>1, <2>2, <2>3, <2>4, <2>5
  <1>8. DOMAIN S = 1..Len(S) /\ Len(S) \in 2..9
    BY <1>1, <1>5
  <1>9. \A k \in DOMAIN S : S[k] \in AllMigrations
    BY <1>5, <1>8
  <1>10. ASSUME NEW k \in DOMAIN S, NEW l \in DOMAIN S, Row(S[k]) = Row(S[l])
         PROVE  k = l
    <2>1. S[k] = S[l]
      BY <1>9, <1>10, RowsIdentify
    <2> QED
      BY <1>5, <1>7, <1>8, <2>1
  <1>11. /\ Len(S) \in 2..9 /\ S \in Seq(AllMigrations) /\ DOMAIN S = 1..Len(S)
         /\ \A k, l \in DOMAIN S : Row(S[k]) = Row(S[l]) => k = l
    BY <1>5, <1>8, <1>10
  <1> QED
    BY <1>11 DEF S

\* A set of places of migrations has a first.
LEMMA FirstIsLeast ==
  ASSUME NEW ks, ks \subseteq 1..9, ks # {}
  PROVE  First(ks) \in ks /\ \A l \in ks : First(ks) <= l
  <1>1. ASSUME NEW k \in ks, \A l \in ks : k <= l
        PROVE  First(ks) \in ks /\ \A l \in ks : First(ks) <= l
    BY <1>1 DEF First
  <1>2. CASE 1 \in ks
    BY <1>1, <1>2
  <1>3. CASE 1 \notin ks /\ 2 \in ks
    BY <1>1, <1>3
  <1>4. CASE ks \cap {1, 2} = {} /\ 3 \in ks
    BY <1>1, <1>4
  <1>5. CASE ks \cap {1, 2, 3} = {} /\ 4 \in ks
    BY <1>1, <1>5
  <1>6. CASE ks \cap {1, 2, 3, 4} = {} /\ 5 \in ks
    BY <1>1, <1>6
  <1>7. CASE ks \cap {1, 2, 3, 4, 5} = {} /\ 6 \in ks
    BY <1>1, <1>7
  <1>8. CASE ks \cap {1, 2, 3, 4, 5, 6} = {} /\ 7 \in ks
    BY <1>1, <1>8
  <1>9. CASE ks \cap {1, 2, 3, 4, 5, 6, 7} = {} /\ 8 \in ks
    BY <1>1, <1>9
  <1>10. CASE ks \cap {1, 2, 3, 4, 5, 6, 7, 8} = {} /\ 9 \in ks
    BY <1>1, <1>10
  <1>11. \/ 1 \in ks \/ 2 \in ks \/ 3 \in ks \/ 4 \in ks \/ 5 \in ks
         \/ 6 \in ks \/ 7 \in ks \/ 8 \in ks \/ 9 \in ks
    <2>1. PICK k \in ks : k \in 1..9
      OBVIOUS
    <2>2. \/ k = 1 \/ k = 2 \/ k = 3 \/ k = 4 \/ k = 5
          \/ k = 6 \/ k = 7 \/ k = 8 \/ k = 9
      BY <2>1
    <2> QED
      BY <2>2
  <1> QED
    BY <1>2, <1>3, <1>4, <1>5, <1>6, <1>7, <1>8, <1>9, <1>10, <1>11

-----------------------------------------------------------------------------
(* The invariant. *)

\* What the proofs need of the types.
PlacesAreTyped ==
    /\ stage \in [Process -> {"down", "connect", "migrate", "alter", "up"}]
    /\ file \in [Process -> {QueueDb, ControlDb}]
    /\ DOMAIN applied = Process /\ DOMAIN columns = Process
    /\ DOMAIN rows = Process /\ DOMAIN altered = Process
    /\ next \in [Process -> Nat] /\ done \in [Process -> Nat]
    /\ \A p \in Process : next[p] \in DOMAIN Migrations[p]

\* What is recorded is there.
RecordedIsThere ==
    \A m \in AllMigrations : Row(m) \in versions => Creates(m) \subseteq schema

\* What an open transaction records is there, or in it.
RowsAreBacked(p) ==
    \A m \in AllMigrations :
        Row(m) \in rows[p] => Creates(m) \subseteq schema \cup altered[p]

\* The statements a process has passed have had their effect.
StatementsAreDone(p) ==
    /\ columns[p] \subseteq schema
    /\ \A k \in 1..done[p] : Current(p).creates[k] \in schema \cup altered[p]

\* A transaction is open among migrations only.
OpenInside(p) ==
    stage[p] \notin {"migrate", "alter"} =>
        rows[p] = {} /\ altered[p] = {} /\ done[p] = 0

\* A process comes to each migration it has to do, in their order.
InOrder(p) ==
    stage[p] \in {"migrate", "alter"} =>
        /\ next[p] \in Todo(p, applied[p])
        /\ applied[p] \subseteq versions
        /\ \A k \in Todo(p, applied[p]) :
              k < next[p] => Row(Migrations[p][k]) \in versions \cup rows[p]
        /\ \A k \in DOMAIN Migrations[p] :
              Row(Migrations[p][k]) \in rows[p] => k <= next[p]
        /\ Row(Current(p)) \in rows[p] => \A k \in Todo(p, applied[p]) : k <= next[p]

\* A database that a process has left is complete.
FilesAreDone(p) ==
    \A k \in DOMAIN Migrations[p] :
        (\/ Migrations[p][k].db = QueueDb /\ file[p] = ControlDb
         \/ stage[p] = "up") => Row(Migrations[p][k]) \in versions

ProcessInv(p) ==
    /\ RowsAreBacked(p)
    /\ StatementsAreDone(p)
    /\ OpenInside(p)
    /\ InOrder(p)
    /\ FilesAreDone(p)

StartupInv ==
    /\ PlacesAreTyped
    /\ RecordedIsThere
    /\ \A p \in Process : ProcessInv(p)

\* The databases are new, and nothing runs.
LEMMA StartupInitInv == StartupInit => StartupInv
  <1> SUFFICES ASSUME StartupInit PROVE StartupInv
    OBVIOUS
  <1> USE DEF StartupInit
  <1>1. PlacesAreTyped
    BY MigrationsOfProcess DEF PlacesAreTyped, QueueDb
  <1>2. RecordedIsThere
    BY DEF RecordedIsThere
  <1>3. ASSUME NEW p \in Process PROVE ProcessInv(p)
    BY <1>3 DEF ProcessInv, RowsAreBacked, StatementsAreDone, OpenInside, InOrder,
       FilesAreDone, QueueDb, ControlDb
  <1> QED
    BY <1>1, <1>2, <1>3 DEF StartupInv

-----------------------------------------------------------------------------
(* The steps. *)

\* Nothing that was committed is undone, and a process changes only its own
\* place and its own transaction.
LEMMA StepsAreLocal ==
  ASSUME PlacesAreTyped, NEW p \in Process, StartupStep(p)
  PROVE  /\ versions \subseteq versions' /\ schema \subseteq schema'
         /\ \A q \in Process \ {p} :
              /\ stage'[q] = stage[q] /\ file'[q] = file[q]
              /\ applied'[q] = applied[q] /\ next'[q] = next[q]
              /\ done'[q] = done[q] /\ columns'[q] = columns[q]
              /\ rows'[q] = rows[q] /\ altered'[q] = altered[q]
  <1> USE DEF PlacesAreTyped
  <1>1. CASE Fall(p)
    BY <1>1 DEF Fall, Forget, dbVars
  <1>2. CASE Boot(p)
    BY <1>2 DEF Boot, dbVars, placeVars, openVars
  <1>3. CASE Connect(p) /\ ~Fall(p)
    BY <1>3 DEF Connect, Close, Forget, dbVars, openVars
  <1>4. CASE CommitOpen(p)
    BY <1>4 DEF CommitOpen, placeVars
  <1>5. CASE RunStatement(p)
    BY <1>5 DEF RunStatement, openVars
  <1>6. CASE ReadColumns(p)
    BY <1>6 DEF ReadColumns, dbVars, openVars
  <1>7. CASE AlterTable(p) /\ ~Fall(p)
    BY <1>7 DEF AlterTable, dbVars, openVars
  <1>8. CASE InsertVersion(p) /\ ~Fall(p)
    BY <1>8 DEF InsertVersion, dbVars
  <1>9. CASE CommitFile(p)
    BY <1>9 DEF CommitFile, Close, Forget
  <1> QED
    BY <1>1, <1>2, <1>3, <1>4, <1>5, <1>6, <1>7, <1>8, <1>9
       DEF StartupStep, Bootstrap, LockTimeout, Die

\* So the invariant of the others is kept.
LEMMA OthersKeep ==
  ASSUME NEW q \in Process, ProcessInv(q),
         versions \subseteq versions', schema \subseteq schema',
         stage'[q] = stage[q], file'[q] = file[q],
         applied'[q] = applied[q], next'[q] = next[q],
         done'[q] = done[q], columns'[q] = columns[q],
         rows'[q] = rows[q], altered'[q] = altered[q]
  PROVE  ProcessInv(q)'
  <1> USE DEF ProcessInv
  <1>1. RowsAreBacked(q)'
    BY DEF RowsAreBacked
  <1>2. StatementsAreDone(q)'
    BY DEF StatementsAreDone, Current
  <1>3. OpenInside(q)'
    BY DEF OpenInside
  <1>4. InOrder(q)'
    BY DEF InOrder, Todo, Current
  <1>5. FilesAreDone(q)'
    BY DEF FilesAreDone
  <1> QED
    BY <1>1, <1>2, <1>3, <1>4, <1>5

\* A process that has forgotten its place keeps the parts about it.
LEMMA Forgotten ==
  ASSUME PlacesAreTyped, NEW p \in Process, Forget(p),
         stage'[p] \notin {"migrate", "alter"}
  PROVE  /\ RowsAreBacked(p)' /\ StatementsAreDone(p)'
         /\ OpenInside(p)' /\ InOrder(p)'
  <1>1. columns'[p] = {} /\ rows'[p] = {} /\ altered'[p] = {} /\ done'[p] = 0
    BY DEF Forget, PlacesAreTyped
  <1> QED
    BY <1>1 DEF RowsAreBacked, StatementsAreDone, OpenInside, InOrder

\* What a falling process leaves.
LEMMA FallInv ==
  ASSUME StartupInv, NEW p \in Process, Fall(p)
  PROVE  PlacesAreTyped' /\ RecordedIsThere' /\ ProcessInv(p)'
  <1>1. PlacesAreTyped'
    BY MigrationsOfProcess DEF StartupInv, PlacesAreTyped, Fall, Forget
  <1>2. RecordedIsThere'
    BY DEF StartupInv, RecordedIsThere, Fall, dbVars
  <1>3. stage'[p] = "down" /\ file'[p] = QueueDb
    BY DEF StartupInv, PlacesAreTyped, Fall
  <1>4. FilesAreDone(p)'
    BY <1>3 DEF FilesAreDone, QueueDb, ControlDb
  <1>5. Forget(p) /\ PlacesAreTyped
    BY DEF Fall, StartupInv
  <1> QED
    BY <1>1, <1>2, <1>3, <1>4, <1>5, Forgotten DEF ProcessInv

\* A database may be closed when all of it is recorded.
LEMMA CloseInv ==
  ASSUME StartupInv, NEW p \in Process, Close(p), versions \subseteq versions',
         \A k \in DOMAIN Migrations[p] :
            Migrations[p][k].db = file[p] => Row(Migrations[p][k]) \in versions'
  PROVE  PlacesAreTyped' /\ ProcessInv(p)'
  <1>1. PlacesAreTyped'
    <2>1. /\ stage' \in [Process -> {"down", "connect", "migrate", "alter", "up"}]
          /\ file' \in [Process -> {QueueDb, ControlDb}]
      BY DEF StartupInv, PlacesAreTyped, Close
    <2>2. Forget(p) /\ PlacesAreTyped
      BY DEF StartupInv, Close
    <2> QED
      BY <2>1, <2>2, MigrationsOfProcess DEF PlacesAreTyped, Forget
  <1>2. stage'[p] \in {"connect", "up"} /\ Forget(p) /\ PlacesAreTyped
    BY DEF StartupInv, PlacesAreTyped, Close
  <1>3. FilesAreDone(p)'
    <2>1. \A k \in DOMAIN Migrations[p] : Migrations[p][k].db \in {QueueDb, ControlDb}
      BY MigrationsOfProcess, CreatesAreSequences
    <2>2. CASE file[p] = QueueDb
      BY <2>2 DEF Close, StartupInv, PlacesAreTyped, FilesAreDone
    <2>3. CASE file[p] # QueueDb
      <3>1. file[p] = ControlDb /\ FilesAreDone(p)
        BY <2>3 DEF StartupInv, PlacesAreTyped, ProcessInv
      <3> QED
        BY <2>1, <3>1 DEF FilesAreDone
    <2> QED
      BY <2>2, <2>3
  <1> QED
    BY <1>1, <1>2, <1>3, Forgotten DEF ProcessInv

\* A process that opens a database finds what it has to do there.
LEMMA ConnectInv ==
  ASSUME StartupInv, NEW p \in Process, Connect(p)
  PROVE  PlacesAreTyped' /\ RecordedIsThere' /\ ProcessInv(p)'
  <1> DEFINE read == {r \in versions : r.db = file[p]}
             todo == Todo(p, read)
  <1>1. CASE Fall(p)
    BY <1>1, FallInv
  <1>2. CASE todo = {} /\ Close(p) /\ UNCHANGED dbVars
    <2>1. \A k \in DOMAIN Migrations[p] :
             Migrations[p][k].db = file[p] => Row(Migrations[p][k]) \in versions
      BY <1>2 DEF Todo
    <2>2. RecordedIsThere'
      BY <1>2 DEF StartupInv, RecordedIsThere, dbVars
    <2> QED
      BY <1>2, <2>1, <2>2, CloseInv DEF dbVars
  <1>3. CASE /\ todo # {}
             /\ stage' = [stage EXCEPT ![p] = "migrate"]
             /\ applied' = [applied EXCEPT ![p] = read]
             /\ next' = [next EXCEPT ![p] = First(todo)]
             /\ UNCHANGED <<dbVars, file, done, columns, openVars>>
    <2>1. todo \subseteq DOMAIN Migrations[p] /\ todo \subseteq 1..9
      BY MigrationsOfProcess DEF Todo
    <2>2. First(todo) \in todo /\ \A l \in todo : First(todo) <= l
      BY <1>3, <2>1, FirstIsLeast
    <2>3. /\ stage'[p] = "migrate" /\ applied'[p] = read /\ next'[p] = First(todo)
          /\ UNCHANGED <<versions, schema, file, done, columns, rows, altered>>
      BY <1>3 DEF StartupInv, PlacesAreTyped, dbVars, openVars
    <2>4. rows[p] = {} /\ altered[p] = {} /\ done[p] = 0
      BY DEF Connect, StartupInv, ProcessInv, OpenInside
    <2>5. PlacesAreTyped'
      <3>1. First(todo) \in Nat /\ First(todo) \in DOMAIN Migrations[p]
        BY <2>1, <2>2
      <3>2. PlacesAreTyped
        BY DEF StartupInv
      <3>3. next' \in [Process -> Nat] /\ \A q \in Process : next'[q] \in DOMAIN Migrations[q]
        BY <1>3, <3>1, <3>2 DEF PlacesAreTyped
      <3> QED
        BY <1>3, <3>2, <3>3 DEF PlacesAreTyped, dbVars, openVars
    <2>6. RecordedIsThere'
      BY <2>3 DEF StartupInv, RecordedIsThere
    <2>7. RowsAreBacked(p)' /\ StatementsAreDone(p)' /\ OpenInside(p)'
      BY <2>3, <2>4 DEF StartupInv, ProcessInv, RowsAreBacked, StatementsAreDone, OpenInside
    <2>8. Todo(p, applied[p])' = todo
      BY <2>3 DEF Todo
    <2>9. InOrder(p)'
      <3>1. \A k \in todo : ~(k < First(todo))
        BY <2>1, <2>2
      <3>2. read \subseteq versions'
        BY <2>3
      <3> QED
        BY <2>2, <2>3, <2>4, <2>8, <3>1, <3>2 DEF InOrder
    <2>10. FilesAreDone(p)'
      BY <2>3 DEF StartupInv, ProcessInv, FilesAreDone
    <2> QED
      BY <2>5, <2>6, <2>7, <2>9, <2>10 DEF ProcessInv
  <1> QED
    BY <1>1, <1>2, <1>3 DEF Connect

\* The migration a process is in.
LEMMA CurrentMigration ==
  ASSUME PlacesAreTyped, NEW p \in Process
  PROVE  /\ Current(p) \in AllMigrations
         /\ Len(Current(p).creates) \in Nat
         /\ DOMAIN Current(p).creates = 1..Len(Current(p).creates)
         /\ done[p] \in Nat
  <1>1. next[p] \in DOMAIN Migrations[p] /\ done[p] \in Nat
    BY DEF PlacesAreTyped
  <1>2. Current(p) \in AllMigrations
    BY <1>1, MigrationsOfProcess DEF Current
  <1> QED
    BY <1>1, <1>2, CreatesAreSequences

\* Each commit makes the rows and what they stand for durable together.
LEMMA CommitOpenInv ==
  ASSUME StartupInv, NEW p \in Process, CommitOpen(p)
  PROVE  PlacesAreTyped' /\ RecordedIsThere' /\ ProcessInv(p)'
  <1>1. /\ versions' = versions \cup rows[p] /\ schema' = schema \cup altered[p]
        /\ rows'[p] = {} /\ altered'[p] = {}
        /\ UNCHANGED <<stage, file, applied, next, done, columns>>
        /\ stage[p] = "migrate"
    BY DEF CommitOpen, StartupInv, PlacesAreTyped, placeVars
  <1>2. PlacesAreTyped'
    BY <1>1 DEF CommitOpen, StartupInv, PlacesAreTyped
  <1>3. RecordedIsThere'
    BY <1>1 DEF StartupInv, ProcessInv, RecordedIsThere, RowsAreBacked
  <1>4. RowsAreBacked(p)' /\ OpenInside(p)'
    BY <1>1 DEF RowsAreBacked, OpenInside
  <1>5. StatementsAreDone(p)'
    BY <1>1 DEF StartupInv, ProcessInv, StatementsAreDone, Current
  <1>6. InOrder(p)'
    BY <1>1 DEF StartupInv, ProcessInv, InOrder, Todo, Current
  <1>7. FilesAreDone(p)'
    BY <1>1 DEF StartupInv, ProcessInv, FilesAreDone
  <1> QED
    BY <1>2, <1>3, <1>4, <1>5, <1>6, <1>7 DEF ProcessInv

\* A step that executes a statement, or looks up the columns, and stays in its
\* migration.
LEMMA StayInv ==
  ASSUME StartupInv, NEW p \in Process, PlacesAreTyped',
         stage[p] \in {"migrate", "alter"}, stage'[p] \in {"migrate", "alter"},
         UNCHANGED <<versions, file, applied, next, rows>>,
         schema \subseteq schema', altered[p] \subseteq altered'[p],
         StatementsAreDone(p)'
  PROVE  PlacesAreTyped' /\ RecordedIsThere' /\ ProcessInv(p)'
  <1>1. RecordedIsThere'
    BY DEF StartupInv, RecordedIsThere
  <1>2. RowsAreBacked(p)' /\ OpenInside(p)'
    BY DEF StartupInv, ProcessInv, RowsAreBacked, OpenInside
  <1>3. InOrder(p)'
    BY DEF StartupInv, ProcessInv, InOrder, Todo, Current
  <1>4. FilesAreDone(p)'
    BY DEF StartupInv, ProcessInv, FilesAreDone
  <1> QED
    BY <1>1, <1>2, <1>3, <1>4 DEF ProcessInv

\* A statement of a script commits by itself.
LEMMA RunStatementInv ==
  ASSUME StartupInv, NEW p \in Process, RunStatement(p)
  PROVE  PlacesAreTyped' /\ RecordedIsThere' /\ ProcessInv(p)'
  <1>1. done[p] \in Nat
    BY CurrentMigration DEF StartupInv
  <1>2. /\ schema' = schema \cup {Statement(p)} /\ done'[p] = done[p] + 1
        /\ UNCHANGED <<versions, stage, file, applied, next, columns, rows, altered>>
        /\ stage[p] = "migrate"
    BY DEF RunStatement, StartupInv, PlacesAreTyped, openVars
  <1>3. PlacesAreTyped'
    BY <1>2 DEF RunStatement, StartupInv, PlacesAreTyped
  <1>4. Current(p)' = Current(p)
    BY <1>2 DEF Current
  <1>5. StatementsAreDone(p)'
    <2>1. ASSUME NEW k \in 1..done[p] + 1
          PROVE  Current(p).creates[k] \in schema' \cup altered[p]
      <3>1. CASE k = done[p] + 1
        BY <1>2, <3>1 DEF Statement
      <3>2. CASE k # done[p] + 1
        <4>1. k \in 1..done[p]
          BY <1>1, <3>2
        <4> QED
          BY <1>2, <4>1 DEF StartupInv, ProcessInv, StatementsAreDone
      <3> QED
        BY <3>1, <3>2
    <2> QED
      BY <1>2, <1>4, <2>1 DEF StartupInv, ProcessInv, StatementsAreDone
  <1> QED
    BY <1>2, <1>3, <1>5, StayInv

\* The columns a process has found are there.
LEMMA ReadColumnsInv ==
  ASSUME StartupInv, NEW p \in Process, ReadColumns(p)
  PROVE  PlacesAreTyped' /\ RecordedIsThere' /\ ProcessInv(p)'
  <1>1. /\ stage[p] = "migrate" /\ stage'[p] = "alter" /\ columns'[p] \subseteq schema
        /\ UNCHANGED <<versions, schema, file, applied, next, done, rows, altered>>
    BY DEF ReadColumns, StartupInv, PlacesAreTyped, dbVars, openVars
  <1>2. PlacesAreTyped'
    BY <1>1 DEF ReadColumns, StartupInv, PlacesAreTyped
  <1>3. StatementsAreDone(p)'
    BY <1>1 DEF StartupInv, ProcessInv, StatementsAreDone, Current
  <1> QED
    BY <1>1, <1>2, <1>3, StayInv

\* A column is added in the open transaction, or commits by itself.
LEMMA AlterTableInv ==
  ASSUME StartupInv, NEW p \in Process, AlterTable(p)
  PROVE  PlacesAreTyped' /\ RecordedIsThere' /\ ProcessInv(p)'
  <1>1. CASE Fall(p)
    BY <1>1, FallInv
  <1>2. CASE ~Fall(p)
    <2>1. done[p] \in Nat
      BY CurrentMigration DEF StartupInv
    <2>2. /\ done'[p] = done[p] + 1 /\ stage[p] = "alter"
          /\ UNCHANGED <<versions, stage, file, applied, next, columns, rows>>
          /\ schema \subseteq schema' /\ altered[p] \subseteq altered'[p]
          /\ Statement(p) \in columns[p] \cup schema' \cup altered'[p]
      BY <1>2 DEF AlterTable, StartupInv, PlacesAreTyped, dbVars, openVars
    <2>3. PlacesAreTyped'
      BY <1>2 DEF AlterTable, StartupInv, PlacesAreTyped, dbVars, openVars
    <2>4. Current(p)' = Current(p)
      BY <2>2 DEF Current
    <2>5. StatementsAreDone(p)'
      <3>1. ASSUME NEW k \in 1..done[p] + 1
            PROVE  Current(p).creates[k] \in schema' \cup altered'[p]
        <4>1. CASE k = done[p] + 1
          BY <2>2, <4>1 DEF Statement, StartupInv, ProcessInv, StatementsAreDone
        <4>2. CASE k # done[p] + 1
          <5>1. k \in 1..done[p]
            BY <2>1, <4>2
          <5> QED
            BY <2>2, <5>1 DEF StartupInv, ProcessInv, StatementsAreDone
        <4> QED
          BY <4>1, <4>2
      <3> QED
        BY <2>2, <2>4, <3>1 DEF StartupInv, ProcessInv, StatementsAreDone
    <2> QED
      BY <2>2, <2>3, <2>5, StayInv
  <1> QED
    BY <1>1, <1>2

\* A row is inserted when every statement of its migration has been passed,
\* and the process comes to the first of those it has left.
LEMMA InsertVersionInv ==
  ASSUME StartupInv, NEW p \in Process, InsertVersion(p)
  PROVE  PlacesAreTyped' /\ RecordedIsThere' /\ ProcessInv(p)'
  <1> DEFINE todo == Todo(p, applied[p])
             later == {k \in todo : k > next[p]}
  <1>1. CASE Fall(p)
    BY <1>1, FallInv
  <1>2. CASE ~Fall(p)
    <2>1. /\ stage[p] \in {"migrate", "alter"} /\ stage'[p] = "migrate"
          /\ rows' = [rows EXCEPT ![p] = @ \cup {Row(Current(p))}]
          /\ rows'[p] = rows[p] \cup {Row(Current(p))}
          /\ UNCHANGED <<versions, schema, file, applied, columns, altered>>
      BY <1>2 DEF InsertVersion, StartupInv, PlacesAreTyped, dbVars
    <2>2. /\ todo \subseteq DOMAIN Migrations[p] /\ todo \subseteq 1..9
          /\ DOMAIN Migrations[p] \subseteq 1..9
          /\ next[p] \in Nat /\ next[p] \in DOMAIN Migrations[p]
      <3>1. DOMAIN Migrations[p] \subseteq 1..9
        BY MigrationsOfProcess
      <3>2. todo \subseteq DOMAIN Migrations[p]
        BY DEF Todo
      <3> QED
        BY <3>1, <3>2 DEF StartupInv, PlacesAreTyped
    <2>3. todo' = todo
      BY <2>1 DEF Todo
    <2>4. Creates(Current(p)) \subseteq schema \cup altered[p]
      <3>1. ~(done[p] < Len(Current(p).creates)) /\ done[p] \in Nat
            /\ Len(Current(p).creates) \in Nat
            /\ DOMAIN Current(p).creates = 1..Len(Current(p).creates)
        BY <1>2, CurrentMigration DEF InsertVersion, Pending, StartupInv
      <3>2. \A k \in 1..Len(Current(p).creates) : k \in 1..done[p]
        BY <3>1
      <3>3. StatementsAreDone(p)
        BY DEF StartupInv, ProcessInv
      <3> QED
        BY <3>1, <3>2, <3>3 DEF Creates, StatementsAreDone
    <2>5. RowsAreBacked(p)'
      <3>1. ASSUME NEW m \in AllMigrations, Row(m) \in rows'[p]
            PROVE  Creates(m) \subseteq schema \cup altered[p]
        <4>1. CASE Row(m) \in rows[p]
          BY <4>1 DEF StartupInv, ProcessInv, RowsAreBacked
        <4>2. CASE Row(m) = Row(Current(p))
          <5>1. m = Current(p)
            BY <4>2, CurrentMigration, RowsIdentify DEF StartupInv
          <5> QED
            BY <2>4, <5>1
        <4> QED
          BY <2>1, <3>1, <4>1, <4>2
      <3> QED
        BY <2>1, <3>1 DEF RowsAreBacked
    <2>6. OpenInside(p)' /\ FilesAreDone(p)'
      BY <2>1 DEF StartupInv, ProcessInv, OpenInside, FilesAreDone
    <2>7. RecordedIsThere'
      BY <2>1 DEF StartupInv, RecordedIsThere
    <2>8. /\ next[p] \in todo /\ applied[p] \subseteq versions
          /\ \A k \in todo : k < next[p] => Row(Migrations[p][k]) \in versions \cup rows[p]
          /\ \A k \in DOMAIN Migrations[p] : Row(Migrations[p][k]) \in rows'[p] => k <= next[p]
      <3>1. /\ next[p] \in todo /\ applied[p] \subseteq versions
            /\ \A k \in todo : k < next[p] => Row(Migrations[p][k]) \in versions \cup rows[p]
            /\ \A k \in DOMAIN Migrations[p] : Row(Migrations[p][k]) \in rows[p] => k <= next[p]
        BY <2>1 DEF StartupInv, ProcessInv, InOrder
      <3>2. ASSUME NEW k \in DOMAIN Migrations[p], Row(Migrations[p][k]) = Row(Current(p))
            PROVE  k <= next[p]
        <4>1. k = next[p]
          BY <2>2, <3>2, MigrationsOfProcess DEF Current
        <4> QED
          BY <2>2, <4>1
      <3> QED
        BY <2>1, <3>1, <3>2
    <2>9. CASE later = {}
      <3>1. UNCHANGED <<next, done>> /\ UNCHANGED <<file, applied, columns, altered>>
            /\ stage' = [stage EXCEPT ![p] = "migrate"]
        BY <1>2, <2>9 DEF InsertVersion
      <3>2. PlacesAreTyped'
        BY <2>1, <3>1 DEF StartupInv, PlacesAreTyped
      <3>3. StatementsAreDone(p)'
        BY <2>1, <3>1 DEF StartupInv, ProcessInv, StatementsAreDone, Current
      <3>4. \A k \in todo : k <= next[p]
        BY <2>2, <2>9
      <3>5. InOrder(p)'
        BY <2>1, <2>3, <2>8, <3>1, <3>4 DEF InOrder
      <3> QED
        BY <2>5, <2>6, <2>7, <3>2, <3>3, <3>5 DEF ProcessInv
    <2>10. CASE later # {}
      <3>1. /\ next' = [next EXCEPT ![p] = First(later)]
            /\ done' = [done EXCEPT ![p] = 0]
            /\ UNCHANGED <<file, applied, columns, altered>>
            /\ stage' = [stage EXCEPT ![p] = "migrate"]
        BY <1>2, <2>10 DEF InsertVersion
      <3>2. later \subseteq 1..9
        BY <2>2
      <3> DEFINE f == First(later)
      <3> HIDE DEF f
      <3>3. f \in later /\ \A k \in later : f <= k
        BY <2>10, <3>2, FirstIsLeast DEF f
      <3>4. f \in todo /\ f \in Nat /\ next[p] < f /\ f \in DOMAIN Migrations[p]
        BY <2>2, <3>3
      <3>5. next'[p] = f /\ done'[p] = 0
        BY <3>1 DEF f, StartupInv, PlacesAreTyped
      <3>6. PlacesAreTyped'
        <4>1. PlacesAreTyped
          BY DEF StartupInv
        <4>2. next' \in [Process -> Nat] /\ \A q \in Process : next'[q] \in DOMAIN Migrations[q]
          BY <3>1, <3>4, <4>1 DEF f, PlacesAreTyped
        <4> QED
          BY <2>1, <3>1, <4>1, <4>2 DEF PlacesAreTyped
      <3>7. StatementsAreDone(p)'
        BY <2>1, <3>5 DEF StartupInv, ProcessInv, StatementsAreDone
      <3>8. ASSUME NEW k \in todo, k < f
            PROVE  Row(Migrations[p][k]) \in versions \cup rows'[p]
        <4>1. k <= next[p]
          BY <2>2, <3>3, <3>4, <3>8
        <4>2. CASE k = next[p]
          BY <2>1, <4>2 DEF Current
        <4>3. CASE k # next[p]
          BY <2>1, <2>2, <2>8, <4>1, <4>3
        <4> QED
          BY <4>2, <4>3
      <3>9. \A k \in DOMAIN Migrations[p] : Row(Migrations[p][k]) \in rows'[p] => k <= f
        BY <2>2, <2>8, <3>4
      <3>10. Row(Migrations[p][f]) \notin rows'[p]
        BY <2>2, <2>8, <3>4
      <3>11. InOrder(p)'
        BY <2>1, <2>3, <2>8, <3>4, <3>5, <3>8, <3>9, <3>10 DEF InOrder, Current
      <3> QED
        BY <2>5, <2>6, <2>7, <3>6, <3>7, <3>11 DEF ProcessInv
    <2> QED
      BY <2>9, <2>10
  <1> QED
    BY <1>1, <1>2

\* The last commit closes a database of which nothing is left to do.
LEMMA CommitFileInv ==
  ASSUME StartupInv, NEW p \in Process, CommitFile(p)
  PROVE  PlacesAreTyped' /\ RecordedIsThere' /\ ProcessInv(p)'
  <1>1. /\ versions' = versions \cup rows[p] /\ schema' = schema \cup altered[p]
        /\ Close(p) /\ stage[p] = "migrate" /\ Row(Current(p)) \in rows[p]
    BY DEF CommitFile
  <1>2. RecordedIsThere'
    BY <1>1 DEF StartupInv, ProcessInv, RecordedIsThere, RowsAreBacked
  <1>3. ASSUME NEW k \in DOMAIN Migrations[p], Migrations[p][k].db = file[p]
        PROVE  Row(Migrations[p][k]) \in versions'
    <2>1. InOrder(p) /\ next[p] \in Nat /\ k \in Nat
      BY MigrationsOfProcess DEF StartupInv, ProcessInv, PlacesAreTyped
    <2>2. CASE Row(Migrations[p][k]) \in applied[p]
      BY <1>1, <2>1, <2>2 DEF InOrder
    <2>3. CASE Row(Migrations[p][k]) \notin applied[p]
      <3>1. k \in Todo(p, applied[p])
        BY <1>3, <2>3 DEF Todo
      <3>2. k <= next[p]
        BY <1>1, <2>1, <3>1 DEF InOrder
      <3>3. CASE k = next[p]
        BY <1>1, <3>3 DEF Current
      <3>4. CASE k < next[p]
        BY <1>1, <2>1, <3>1, <3>4 DEF InOrder
      <3> QED
        BY <2>1, <3>2, <3>3, <3>4
    <2> QED
      BY <2>2, <2>3
  <1> QED
    BY <1>1, <1>2, <1>3, CloseInv

\* A process that starts has nothing open.
LEMMA BootInv ==
  ASSUME StartupInv, NEW p \in Process, Boot(p)
  PROVE  PlacesAreTyped' /\ RecordedIsThere' /\ ProcessInv(p)'
  <1>1. /\ stage'[p] = "connect" /\ stage[p] = "down"
        /\ UNCHANGED <<versions, schema, file, applied, next, done, columns, rows, altered>>
    BY DEF Boot, StartupInv, PlacesAreTyped, dbVars, placeVars, openVars
  <1>2. PlacesAreTyped'
    BY <1>1 DEF Boot, StartupInv, PlacesAreTyped
  <1>3. RecordedIsThere'
    BY <1>1 DEF StartupInv, RecordedIsThere
  <1>4. ProcessInv(p)'
    BY <1>1 DEF StartupInv, ProcessInv, RowsAreBacked, StatementsAreDone, OpenInside,
       InOrder, FilesAreDone, Current
  <1> QED
    BY <1>2, <1>3, <1>4

\* One step of any process.
LEMMA StartupStepInv ==
  ASSUME StartupInv, NEW p \in Process, StartupStep(p)
  PROVE  StartupInv'
  <1>1. PlacesAreTyped' /\ RecordedIsThere' /\ ProcessInv(p)'
    BY FallInv, ConnectInv, CommitOpenInv, RunStatementInv, ReadColumnsInv, AlterTableInv,
       InsertVersionInv, CommitFileInv, BootInv
       DEF StartupStep, Bootstrap, LockTimeout, Die
  <1>2. ASSUME NEW q \in Process \ {p} PROVE ProcessInv(q)'
    BY <1>2, StepsAreLocal, OthersKeep DEF StartupInv
  <1> QED
    BY <1>1, <1>2 DEF StartupInv

\* A step that leaves the databases and the processes alone.
LEMMA StartupStutterInv ==
  ASSUME StartupInv, UNCHANGED startVars
  PROVE  StartupInv'
  BY DEF startVars, dbVars, placeVars, openVars, StartupInv, PlacesAreTyped,
     RecordedIsThere, ProcessInv, RowsAreBacked, StatementsAreDone, OpenInside,
     InOrder, FilesAreDone, Todo, Current

-----------------------------------------------------------------------------

\* What is recorded is there, and a process that is up finds all it knows, for
\* any number of processes of any releases that start and die together.
THEOREM VersionMeansSchemaCorrect == StartupSpec => []VersionMeansSchema
  <1>1. StartupInv /\ [StartupNext]_startVars => StartupInv'
    BY StartupStepInv, StartupStutterInv DEF StartupNext
  <1>2. StartupInv => VersionMeansSchema
    <2> SUFFICES ASSUME StartupInv, NEW p \in Process, NEW k \in DOMAIN Migrations[p]
                 PROVE  /\ Row(Migrations[p][k]) \in versions =>
                              Creates(Migrations[p][k]) \subseteq schema
                        /\ stage[p] = "up" => Row(Migrations[p][k]) \in versions
      BY DEF VersionMeansSchema
    <2>1. Migrations[p][k] \in AllMigrations
      BY MigrationsOfProcess
    <2> QED
      BY <2>1 DEF StartupInv, RecordedIsThere, ProcessInv, FilesAreDone
  <1> QED
    BY <1>1, <1>2, StartupInitInv, PTL DEF StartupSpec

-----------------------------------------------------------------------------
(* The types. *)

\* What a process writes belongs to a migration of its release.
LEMMA WritesAreKnown ==
  ASSUME PlacesAreTyped, NEW p \in Process
  PROVE  /\ Known[p] \subseteq AllRows
         /\ Row(Current(p)) \in AllRows
         /\ Creates(Current(p)) \subseteq Objects
         /\ Pending(p) => Statement(p) \in Objects /\ done[p] + 1 <= Len(Current(p).creates)
  <1>1. next[p] \in DOMAIN Migrations[p]
    BY DEF PlacesAreTyped
  <1>2. Row(Current(p)) \in Known[p] /\ Known[p] \subseteq AllRows
    BY <1>1 DEF Known, AllRows, Current
  <1>3. Creates(Current(p)) \subseteq Objects
    BY <1>1 DEF Objects, Current
  <1>4. Pending(p) => Statement(p) \in Creates(Current(p)) /\ done[p] + 1 <= Len(Current(p).creates)
    <2>1. SUFFICES ASSUME Pending(p)
                   PROVE  done[p] + 1 \in DOMAIN Current(p).creates
      BY CurrentMigration DEF Statement, Creates
    <2> QED
      BY <2>1, CurrentMigration DEF Pending
  <1> QED
    BY <1>2, <1>3, <1>4

\* A process that falls is at its first migration, and has nothing open.
LEMMA ForgetTyped ==
  ASSUME PlacesAreTyped, StartupTypeOK, NEW p \in Process, Forget(p)
  PROVE  /\ applied' \in [Process -> SUBSET AllRows]
         /\ rows' \in [Process -> SUBSET AllRows]
         /\ altered' \in [Process -> SUBSET Objects]
         /\ columns' \in [Process -> SUBSET Objects]
         /\ \A q \in Process : /\ next'[q] \in DOMAIN Migrations[q]
                               /\ done'[q] \in 0..Len(Current(q).creates)'
  <1>1. /\ applied' \in [Process -> SUBSET AllRows] /\ rows' \in [Process -> SUBSET AllRows]
        /\ altered' \in [Process -> SUBSET Objects] /\ columns' \in [Process -> SUBSET Objects]
    BY DEF Forget, StartupTypeOK
  <1>2. next'[p] = 1 /\ done'[p] = 0
    BY DEF Forget, PlacesAreTyped
  <1>3. 1 \in DOMAIN Migrations[p]
    BY MigrationsOfProcess
  <1>4. Migrations[p][1] \in AllMigrations
    BY <1>3, MigrationsOfProcess
  <1>5. Len(Migrations[p][1].creates) \in Nat
    BY <1>4, CreatesAreSequences
  <1>6. done'[p] \in 0..Len(Current(p).creates)'
    BY <1>2, <1>5 DEF Current
  <1>7. ASSUME NEW q \in Process, q # p
        PROVE  next'[q] \in DOMAIN Migrations[q] /\ done'[q] \in 0..Len(Current(q).creates)'
    <2>1. next'[q] = next[q] /\ done'[q] = done[q]
      BY <1>7 DEF Forget, PlacesAreTyped
    <2> QED
      BY <2>1 DEF StartupTypeOK, Current
  <1> QED
    BY <1>1, <1>2, <1>3, <1>6, <1>7

\* There are at most nine of them.
LEMMA PlacesOfProcess ==
  ASSUME NEW p \in Process
  PROVE  DOMAIN Migrations[p] \subseteq 1..9
  <1> DEFINE n == Len(Migrations[p])
  <1>1. DOMAIN Migrations[p] = 1..n /\ n \in 2..9
    BY MigrationsOfProcess
  <1> HIDE DEF n
  <1> QED
    BY <1>1

\* New databases have the types.
LEMMA StartupInitTyped == StartupInit => StartupTypeOK
  <1> SUFFICES ASSUME StartupInit PROVE StartupTypeOK
    OBVIOUS
  <1>1. ASSUME NEW p \in Process
        PROVE  next[p] \in DOMAIN Migrations[p] /\ done[p] \in 0..Len(Current(p).creates)
    <2>1. next[p] = 1 /\ done[p] = 0 /\ 1 \in DOMAIN Migrations[p]
      BY MigrationsOfProcess DEF StartupInit
    <2>2. Migrations[p][1] \in AllMigrations
      BY <2>1, MigrationsOfProcess
    <2> QED
      BY <2>1, <2>2, CreatesAreSequences DEF Current
  <1> QED
    BY <1>1 DEF StartupInit, StartupTypeOK

\* A step that leaves the databases and the processes alone keeps the types.
LEMMA StutterTyped ==
  ASSUME StartupTypeOK, UNCHANGED startVars
  PROVE  StartupTypeOK'
  BY DEF StartupTypeOK, startVars, dbVars, placeVars, openVars, Current

\* Each step writes rows, tables and columns of the migrations only, and counts
\* no statement that is not there.
LEMMA StepTyped ==
  ASSUME StartupInv, StartupTypeOK, NEW p \in Process, StartupStep(p)
  PROVE  StartupTypeOK'
  <1> USE DEF StartupTypeOK
  <1>0. PlacesAreTyped
    BY DEF StartupInv
  <1>1. CASE Fall(p)
    <2>1. Forget(p) /\ UNCHANGED dbVars
      BY <1>1 DEF Fall
    <2> QED
      BY <1>0, <1>1, <2>1, ForgetTyped DEF Fall, dbVars
  <1>2. CASE Boot(p)
    BY <1>2 DEF Boot, dbVars, placeVars, openVars, Current
  <1>3. CASE Connect(p) /\ ~Fall(p)
    <2> DEFINE read == {r \in versions : r.db = file[p]}
               todo == Todo(p, read)
    <2>1. CASE Close(p) /\ UNCHANGED dbVars
      <3>1. Forget(p)
        BY <2>1 DEF Close
      <3> QED
        BY <1>0, <2>1, <3>1, ForgetTyped DEF Close, dbVars
    <2>2. CASE /\ todo # {}
               /\ stage' = [stage EXCEPT ![p] = "migrate"]
               /\ applied' = [applied EXCEPT ![p] = read]
               /\ next' = [next EXCEPT ![p] = First(todo)]
               /\ UNCHANGED <<dbVars, file, done, columns, openVars>>
      <3>1. todo \subseteq DOMAIN Migrations[p] /\ todo \subseteq 1..9
        <4>1. todo \subseteq DOMAIN Migrations[p]
          BY DEF Todo
        <4> QED
          BY <4>1, PlacesOfProcess
      <3>2. First(todo) \in DOMAIN Migrations[p]
        BY <2>2, <3>1, FirstIsLeast
      <3>3. done[p] = 0
        BY <1>3 DEF Connect, StartupInv, ProcessInv, OpenInside
      <3>4. Migrations[p][First(todo)] \in AllMigrations
        BY <3>2, MigrationsOfProcess
      <3>5. 0 <= Len(Migrations[p][First(todo)].creates) /\ Len(Migrations[p][First(todo)].creates) \in Nat
        BY <3>4, CreatesAreSequences
      <3>6. ASSUME NEW q \in Process
            PROVE  next'[q] \in DOMAIN Migrations[q] /\ done'[q] \in 0..Len(Current(q).creates)'
        <4>1. CASE q = p
          <5>1. next'[p] = First(todo) /\ done'[p] = 0
            BY <1>0, <2>2, <3>3 DEF PlacesAreTyped
          <5> QED
            BY <3>2, <3>5, <4>1, <5>1 DEF Current
        <4>2. CASE q # p
          BY <1>0, <2>2, <4>2 DEF PlacesAreTyped, Current
        <4> QED
          BY <4>1, <4>2
      <3>7. read \subseteq AllRows
        OBVIOUS
      <3>8. /\ stage' \in [Process -> {"down", "connect", "migrate", "alter", "up"}]
            /\ applied' \in [Process -> SUBSET AllRows]
        BY <2>2, <3>7
      <3> HIDE DEF read, todo
      <3> QED
        BY <2>2, <3>6, <3>8 DEF dbVars, openVars
    <2> QED
      BY <1>3, <2>1, <2>2 DEF Connect
  <1>4. CASE CommitOpen(p)
    BY <1>4 DEF CommitOpen, placeVars, Current
  <1>5. CASE RunStatement(p)
    BY <1>0, <1>5, WritesAreKnown DEF RunStatement, openVars, Current, PlacesAreTyped
  <1>6. CASE ReadColumns(p)
    BY <1>6 DEF ReadColumns, dbVars, openVars, Current
  <1>7. CASE AlterTable(p) /\ ~Fall(p)
    <2>1. /\ Statement(p) \in Objects /\ done[p] + 1 <= Len(Current(p).creates)
          /\ done[p] \in Nat /\ Len(Current(p).creates) \in Nat
      BY <1>0, <1>7, WritesAreKnown, CurrentMigration DEF AlterTable
    <2>2. /\ schema' \subseteq schema \cup {Statement(p)}
          /\ altered' \in {altered, [altered EXCEPT ![p] = @ \cup {Statement(p)}]}
          /\ done' = [done EXCEPT ![p] = @ + 1]
          /\ UNCHANGED <<versions, stage, file, applied, next, columns, rows>>
      BY <1>7 DEF AlterTable, dbVars, openVars
    <2>3. \A q \in Process : done'[q] \in 0..Len(Current(q).creates)'
      BY <1>0, <2>1, <2>2 DEF Current, PlacesAreTyped
    <2> QED
      BY <2>1, <2>2, <2>3
  <1>8. CASE InsertVersion(p) /\ ~Fall(p)
    <2> DEFINE later == {k \in Todo(p, applied[p]) : k > next[p]}
    <2>1. /\ stage' = [stage EXCEPT ![p] = "migrate"]
          /\ rows' = [rows EXCEPT ![p] = @ \cup {Row(Current(p))}]
          /\ UNCHANGED <<versions, schema, file, applied, columns, altered>>
          /\ IF later = {}
               THEN UNCHANGED <<next, done>>
               ELSE /\ next' = [next EXCEPT ![p] = First(later)]
                    /\ done' = [done EXCEPT ![p] = 0]
      BY <1>8 DEF InsertVersion, dbVars
    <2>2. later \subseteq DOMAIN Migrations[p] /\ later \subseteq 1..9
      <3>1. later \subseteq DOMAIN Migrations[p]
        BY DEF Todo
      <3> QED
        BY <3>1, PlacesOfProcess
    <2>3. later # {} => First(later) \in DOMAIN Migrations[p]
      BY <2>2, FirstIsLeast
    <2>4. ASSUME NEW q \in Process
          PROVE  next'[q] \in DOMAIN Migrations[q] /\ done'[q] \in 0..Len(Current(q).creates)'
      <3>1. CASE q = p /\ later # {}
        <4>1. next'[p] = First(later) /\ done'[p] = 0
          BY <1>0, <2>1, <3>1 DEF PlacesAreTyped
        <4>2. Migrations[p][First(later)] \in AllMigrations
          BY <2>3, <3>1, MigrationsOfProcess
        <4>3. Len(Migrations[p][First(later)].creates) \in Nat
          BY <4>2, CreatesAreSequences
        <4> QED
          BY <2>3, <3>1, <4>1, <4>3 DEF Current
      <3>2. CASE q # p \/ later = {}
        BY <1>0, <2>1, <3>2 DEF PlacesAreTyped, Current
      <3> QED
        BY <3>1, <3>2
    <2>5. rows' \in [Process -> SUBSET AllRows]
      BY <1>0, <2>1, WritesAreKnown
    <2> HIDE DEF later
    <2> QED
      BY <2>1, <2>4, <2>5
  <1>9. CASE CommitFile(p)
    <2>1. Forget(p)
      BY <1>9 DEF CommitFile, Close
    <2> QED
      BY <1>0, <1>9, <2>1, ForgetTyped DEF CommitFile, Close
  <1> QED
    BY <1>1, <1>2, <1>3, <1>4, <1>5, <1>6, <1>7, <1>8, <1>9
       DEF StartupStep, Bootstrap, LockTimeout, Die

\* The types hold for any number of processes of any releases.
THEOREM StartupTypeCorrect == StartupSpec => []StartupTypeOK
  <1>1. StartupInit => StartupTypeOK
    BY StartupInitTyped
  <1>2. StartupInv /\ StartupTypeOK /\ [StartupNext]_startVars => StartupInv' /\ StartupTypeOK'
    BY StartupStepInv, StartupStutterInv, StepTyped, StutterTyped DEF StartupNext
  <1> QED
    BY <1>1, <1>2, StartupInitInv, PTL DEF StartupSpec

=============================================================================
