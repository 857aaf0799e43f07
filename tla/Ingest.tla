------------------------------- MODULE Ingest -------------------------------
(***************************************************************************)
(* IngestTargetService (ingest/service.py) over the three stores it keeps  *)
(* in step: the files on disk, the manifest and chunk rows of queue.db,    *)
(* and the vectors of the Chroma collection, for one project.  The tool    *)
(* calls of the daemons and the admin CLI are processes of their own; each *)
(* runs one call at a time, one commit, read of a file or call of Chroma   *)
(* per step.  Chroma and the processors of files may fail, and files       *)
(* change, at any time; SQLite fails only where a foreign key is missing.  *)
(***************************************************************************)
EXTENDS Naturals, FiniteSets

CONSTANTS
    Proc,      \* processes that ingest or rebuild
    Path,      \* absolute_path of a file
    Content,   \* file_sha256, as which a content is known
    Piece,     \* chunk_index, processor and text of a chunk
    Pieces,    \* the chunks _process_file makes of a content; {}: it is blank
    Absent,    \* there is no such file
    Nil,       \* no row
    Target,    \* paths ingest is called with; a run_id is the hash of one
    Directory, \* those that are directories
    Under,     \* the paths below a directory, or the path of a file
    MaxCalls,  \* bound: how many calls begin
    MaxEdits   \* bound: how often a file is written or deleted

ASSUME IngestConstantsOK ==
    /\ Pieces \in [Content -> SUBSET Piece]
    /\ Absent \notin Content /\ Nil \notin Content \cup Target \cup Path
    /\ Directory \subseteq Target
    /\ Under \in [Target -> SUBSET Path]
    /\ \A t \in Target \ Directory : \E f \in Path : Under[t] = {f}
    /\ MaxCalls \in Nat /\ MaxEdits \in Nat

\* A chunk_id is the hash of these.
Chunk == Path \X Piece

VARIABLES
    disk,     \* the files
    \* queue.db
    manifest, \* files.file_sha256
    rows,     \* chunks.run_id
    runState, \* ingestion_runs.state, "none": no row
    latest,   \* the run with the greatest started_at
    \* Chroma
    vectors,  \* the chunks the collection holds
    \* the calls
    pc,
    target,   \* the path ingest was called with
    force,    \* force_reindex
    todo,     \* the files of its loop
    stale,    \* the stale paths of its loop
    file,     \* the file or the stale path it is at
    seen,     \* file_sha256 of the file
    batch,    \* chunks it will upsert
    \* observed by the properties only
    quiet,    \* nothing but this call happened since it began
    calls, edits

dbVars   == <<manifest, rows, runState, latest>>
callVars == <<pc, target, force, todo, stale, file, seen, batch>>
counters == <<calls, edits>>
vars     == <<disk, dbVars, vectors, callVars, quiet, counters>>

Failed   == {"FAILED_VECTOR_UPSERT", "FAILED"}
RunState == Failed \cup {"none", "RUNNING", "COMPLETED", "RECONCILED"}
Label    ==
    {"idle", "findStale", "stale", "staleVectors", "next", "compare", "dropRows", "dropVectors",
     "process", "recordManifest", "recordRows", "upsert", "catch", "markFailed", "readAll",
     "rebuild", "reconcile"}

IngestTypeOK ==
    /\ disk \in [Path -> Content \cup {Absent}]
    /\ manifest \in [Path -> Content \cup {Nil}]
    /\ rows \in [Chunk -> Target \cup {Nil}]
    /\ runState \in [Target -> RunState]
    /\ latest \in Target \cup {Nil}
    /\ vectors \subseteq Chunk
    /\ pc \in [Proc -> Label]
    /\ target \in [Proc -> Target \cup {Nil}]
    /\ force \in [Proc -> BOOLEAN]
    /\ todo \in [Proc -> SUBSET Path] /\ stale \in [Proc -> SUBSET Path]
    /\ file \in [Proc -> Path \cup {Nil}]
    /\ seen \in [Proc -> Content \cup {Nil}]
    /\ batch \in [Proc -> SUBSET Chunk]
    /\ quiet \in [Proc -> BOOLEAN]
    /\ calls \in 0 .. MaxCalls /\ edits \in 0 .. MaxEdits

Init ==
    /\ disk \in [Path -> Content \cup {Absent}]
    /\ manifest = [f \in Path |-> Nil]
    /\ rows = [c \in Chunk |-> Nil]
    /\ runState = [t \in Target |-> "none"]
    /\ latest = Nil
    /\ vectors = {}
    /\ pc = [x \in Proc |-> "idle"]
    /\ target = [x \in Proc |-> Nil]
    /\ force = [x \in Proc |-> FALSE]
    /\ todo = [x \in Proc |-> {}]
    /\ stale = [x \in Proc |-> {}]
    /\ file = [x \in Proc |-> Nil]
    /\ seen = [x \in Proc |-> Nil]
    /\ batch = [x \in Proc |-> {}]
    /\ quiet = [x \in Proc |-> TRUE]
    /\ calls = 0
    /\ edits = 0

ChunksOf(f)   == {f} \X Piece
Expected(f)   == IF disk[f] = Absent THEN {} ELSE {f} \X Pieces[disk[f]]
Listed        == {f \in Path : manifest[f] # Nil}
Stored        == {c \in Chunk : rows[c] # Nil}
OfFailedRuns  == {c \in Stored : runState[rows[c]] \in Failed}
Found(t)      == {f \in Under[t] : disk[f] # Absent}

Goto(x, label) == pc' = [pc EXCEPT ![x] = label]

\* A step of x that changes nothing of its call but where it is.
Advance(x, from, to) ==
    /\ pc[x] = from
    /\ Goto(x, to)
    /\ UNCHANGED <<target, force, todo, stale, file, seen, batch, quiet>>

Return(x) ==
    /\ Goto(x, "idle")
    /\ target' = [target EXCEPT ![x] = Nil]
    /\ force' = [force EXCEPT ![x] = FALSE]
    /\ todo' = [todo EXCEPT ![x] = {}]
    /\ stale' = [stale EXCEPT ![x] = {}]
    /\ file' = [file EXCEPT ![x] = Nil]
    /\ seen' = [seen EXCEPT ![x] = Nil]
    /\ batch' = [batch EXCEPT ![x] = {}]
    /\ quiet' = [quiet EXCEPT ![x] = TRUE]

\* The iteration for the current file is over.
NextFile(x) ==
    /\ Goto(x, "next")
    /\ file' = [file EXCEPT ![x] = Nil]
    /\ seen' = [seen EXCEPT ![x] = Nil]
    /\ batch' = [batch EXCEPT ![x] = {}]
    /\ UNCHANGED <<target, force, stale, quiet>>

\* The exception leaves the loops.
Abandon(x) ==
    /\ Goto(x, "catch")
    /\ todo' = [todo EXCEPT ![x] = {}]
    /\ stale' = [stale EXCEPT ![x] = {}]
    /\ file' = [file EXCEPT ![x] = Nil]
    /\ seen' = [seen EXCEPT ![x] = Nil]
    /\ batch' = [batch EXCEPT ![x] = {}]
    /\ UNCHANGED <<target, force, quiet>>

\* A call of x begins: no call in progress is alone from here on, nor is this
\* one if there are others.
BeginCall(x) ==
    /\ pc[x] = "idle"
    /\ calls < MaxCalls
    /\ calls' = calls + 1
    /\ LET others == {y \in Proc : pc[y] # "idle"} IN
       quiet' = [y \in Proc |-> IF y = x THEN others = {} ELSE quiet[y] /\ y \notin others]
    /\ UNCHANGED edits

FinishRun(t, s) == runState' = [runState EXCEPT ![t] = s] /\ UNCHANGED <<manifest, rows, latest>>

-----------------------------------------------------------------------------
(* ingest_target.                                                          *)

\* Mutant of BeginIngest: a run that has a row keeps its started_at.
BeginIngestKeepingStart(x, t, forced) ==
    /\ BeginCall(x)
    /\ t \in Directory \/ Found(t) # {}
    /\ runState' = [runState EXCEPT ![t] = "RUNNING"]
    /\ latest' = IF runState[t] = "none" THEN t ELSE latest
    /\ target' = [target EXCEPT ![x] = t]
    /\ force' = [force EXCEPT ![x] = forced]
    /\ todo' = [todo EXCEPT ![x] = Found(t)]
    /\ Goto(x, IF t \in Directory THEN "findStale" ELSE "next")
    /\ UNCHANGED <<disk, manifest, rows, vectors, stale, file, seen, batch>>

\* The target is scanned and its run (re)started, which makes it the latest.
BeginIngest(x, t, forced) ==
    /\ BeginCall(x)
    /\ t \in Directory \/ Found(t) # {}
    /\ runState' = [runState EXCEPT ![t] = "RUNNING"]
    /\ latest' = t
    /\ target' = [target EXCEPT ![x] = t]
    /\ force' = [force EXCEPT ![x] = forced]
    /\ todo' = [todo EXCEPT ![x] = Found(t)]
    /\ Goto(x, IF t \in Directory THEN "findStale" ELSE "next")
    /\ UNCHANGED <<disk, manifest, rows, vectors, stale, file, seen, batch>>

\* A path is stale if it is in the manifest of the project, wherever it is, and was not
\* scanned.
FindStale(x) ==
    /\ pc[x] = "findStale"
    /\ stale' = [stale EXCEPT ![x] = Listed \ todo[x]]
    /\ Goto(x, IF Listed \subseteq todo[x] THEN "next" ELSE "stale")
    /\ UNCHANGED <<disk, dbVars, vectors, target, force, todo, file, seen, batch, quiet, counters>>

\* delete_file_manifest: the rows and the manifest of one stale path.
ForgetStale(x, f) ==
    /\ pc[x] = "stale"
    /\ f \in stale[x]
    /\ manifest' = [manifest EXCEPT ![f] = Nil]
    /\ rows' = [c \in Chunk |-> IF c \in ChunksOf(f) THEN Nil ELSE rows[c]]
    /\ file' = [file EXCEPT ![x] = f]
    /\ stale' = [stale EXCEPT ![x] = @ \ {f}]
    /\ Goto(x, "staleVectors")
    /\ UNCHANGED <<disk, runState, latest, vectors, target, force, todo, seen, batch, quiet, counters>>

\* chroma.delete_chunks of the stale path.
DropStaleVectors(x) ==
    /\ pc[x] = "staleVectors"
    /\ vectors' = vectors \ ChunksOf(file[x])
    /\ file' = [file EXCEPT ![x] = Nil]
    /\ Goto(x, IF stale[x] = {} THEN "next" ELSE "stale")
    /\ UNCHANGED <<disk, dbVars, target, force, todo, stale, seen, batch, quiet, counters>>

\* The metadata of the next file, in any order, is read.
Hash(x, f) ==
    /\ pc[x] = "next"
    /\ f \in todo[x]
    /\ disk[f] # Absent
    /\ todo' = [todo EXCEPT ![x] = @ \ {f}]
    /\ file' = [file EXCEPT ![x] = f]
    /\ seen' = [seen EXCEPT ![x] = disk[f]]
    /\ Goto(x, "compare")
    /\ UNCHANGED <<disk, dbVars, vectors, target, force, stale, batch, quiet, counters>>

\* Mutant of Compare: a file with a manifest counts as unchanged.
CompareExistence(x) ==
    /\ pc[x] = "compare"
    /\ IF manifest[file[x]] # Nil /\ ~force[x]
       THEN NextFile(x)
       ELSE /\ Goto(x, IF force[x] \/ manifest[file[x]] # Nil THEN "dropRows" ELSE "process")
            /\ UNCHANGED <<target, force, stale, file, seen, batch, quiet>>
    /\ UNCHANGED <<disk, dbVars, vectors, todo, counters>>

\* A file whose manifest has its hash is skipped.
Compare(x) ==
    /\ pc[x] = "compare"
    /\ IF manifest[file[x]] = seen[x] /\ ~force[x]
       THEN NextFile(x)
       ELSE /\ Goto(x, IF force[x] \/ manifest[file[x]] # Nil THEN "dropRows" ELSE "process")
            /\ UNCHANGED <<target, force, stale, file, seen, batch, quiet>>
    /\ UNCHANGED <<disk, dbVars, vectors, todo, counters>>

\* delete_chunks_for_path; the manifest row stays.
DropRows(x) ==
    /\ Advance(x, "dropRows", "dropVectors")
    /\ rows' = [c \in Chunk |-> IF c \in ChunksOf(file[x]) THEN Nil ELSE rows[c]]
    /\ UNCHANGED <<disk, manifest, runState, latest, vectors, counters>>

\* Mutant of DropVectors: the filter of the deletion matches nothing.
DropVectorsNone(x) ==
    /\ Advance(x, "dropVectors", "process")
    /\ UNCHANGED <<disk, dbVars, vectors, counters>>

DropVectors(x) ==
    /\ Advance(x, "dropVectors", "process")
    /\ vectors' = vectors \ ChunksOf(file[x])
    /\ UNCHANGED <<disk, dbVars, counters>>

\* _process_file reads the file again.  One without chunks is passed over: its
\* manifest, if it has one, is left as it is.
Process(x) ==
    /\ pc[x] = "process"
    /\ disk[file[x]] # Absent
    /\ IF Expected(file[x]) = {}
       THEN NextFile(x) /\ UNCHANGED todo
       ELSE /\ batch' = [batch EXCEPT ![x] = Expected(file[x])]
            /\ Goto(x, "recordManifest")
            /\ UNCHANGED <<target, force, todo, stale, file, seen, quiet>>
    /\ UNCHANGED <<disk, dbVars, vectors, counters>>

RecordManifest(x) ==
    /\ Advance(x, "recordManifest", "recordRows")
    /\ manifest' = [manifest EXCEPT ![file[x]] = seen[x]]
    /\ UNCHANGED <<disk, rows, runState, latest, vectors, counters>>

\* Mutant of RecordRows: the path is written where the run_id belongs.
RecordRowsUnderPath(x) ==
    /\ Advance(x, "recordRows", "upsert")
    /\ manifest[file[x]] # Nil
    /\ rows' = [c \in Chunk |-> IF c \in batch[x] THEN file[x] ELSE rows[c]]
    /\ UNCHANGED <<disk, manifest, runState, latest, vectors, counters>>

RecordRows(x) ==
    /\ Advance(x, "recordRows", "upsert")
    /\ manifest[file[x]] # Nil
    /\ rows' = [c \in Chunk |-> IF c \in batch[x] THEN target[x] ELSE rows[c]]
    /\ UNCHANGED <<disk, manifest, runState, latest, vectors, counters>>

\* A chunk refers to the manifest row of its path, which another call may have
\* deleted: IntegrityError.
RecordRowsFails(x) ==
    /\ pc[x] = "recordRows"
    /\ manifest[file[x]] = Nil
    /\ Abandon(x)
    /\ UNCHANGED <<disk, dbVars, vectors, counters>>

Upsert(x) ==
    /\ pc[x] = "upsert"
    /\ vectors' = vectors \cup batch[x]
    /\ NextFile(x)
    /\ UNCHANGED <<disk, dbVars, todo, counters>>

\* LM Studio or Chroma fails: the run is marked before the exception goes on.
UpsertFails(x) ==
    /\ pc[x] = "upsert"
    /\ FinishRun(target[x], "FAILED_VECTOR_UPSERT")
    /\ Abandon(x)
    /\ UNCHANGED <<disk, vectors, counters>>

\* A deletion in Chroma, or reading or processing a file, raises.
Raise(x) ==
    /\ pc[x] \in {"staleVectors", "dropVectors", "process"} \/ (pc[x] = "next" /\ todo[x] # {})
    /\ Abandon(x)
    /\ UNCHANGED <<disk, dbVars, vectors, counters>>

\* The handler asks what state the latest run of the project is in ...
Catch(x) ==
    /\ pc[x] = "catch"
    /\ IF runState[latest] # "FAILED_VECTOR_UPSERT"
       THEN Advance(x, "catch", "markFailed")
       ELSE Return(x)
    /\ UNCHANGED <<disk, dbVars, vectors, counters>>

\* ... and marks its own.
MarkFailed(x) ==
    /\ pc[x] = "markFailed"
    /\ FinishRun(target[x], "FAILED")
    /\ Return(x)
    /\ UNCHANGED <<disk, vectors, counters>>

EndIngest(x) ==
    /\ pc[x] = "next"
    /\ todo[x] = {}
    /\ FinishRun(target[x], "COMPLETED")
    /\ Return(x)
    /\ UNCHANGED <<disk, vectors, counters>>

-----------------------------------------------------------------------------
(* rebuild_chroma_for_project, from the bridge or from the admin CLI.      *)

\* Mutant of BeginRebuild: only the runs marked FAILED_VECTOR_UPSERT count.
BeginRebuildUpsertOnly(x) ==
    /\ BeginCall(x)
    /\ batch' = [batch EXCEPT ![x] = {c \in Stored : runState[rows[c]] = "FAILED_VECTOR_UPSERT"}]
    /\ Goto(x, IF batch'[x] # {} THEN "rebuild" ELSE "readAll")
    /\ UNCHANGED <<disk, dbVars, vectors, target, force, todo, stale, file, seen>>

\* The chunks of the failed runs ...
BeginRebuild(x) ==
    /\ BeginCall(x)
    /\ batch' = [batch EXCEPT ![x] = OfFailedRuns]
    /\ Goto(x, IF OfFailedRuns # {} THEN "rebuild" ELSE "readAll")
    /\ UNCHANGED <<disk, dbVars, vectors, target, force, todo, stale, file, seen>>

\* ... or, if there are none, all of the project.  Without any the call raises.
ReadAll(x) ==
    /\ pc[x] = "readAll"
    /\ IF Stored = {}
       THEN Return(x)
       ELSE /\ batch' = [batch EXCEPT ![x] = Stored]
            /\ Goto(x, "rebuild")
            /\ UNCHANGED <<target, force, todo, stale, file, seen, quiet>>
    /\ UNCHANGED <<disk, dbVars, vectors, counters>>

Rebuild(x) ==
    /\ Advance(x, "rebuild", "reconcile")
    /\ vectors' = vectors \cup batch[x]
    /\ UNCHANGED <<disk, dbVars, counters>>

\* mark_rebuildable_runs_reconciled: every run that is failed by now.
Reconcile(x) ==
    /\ pc[x] = "reconcile"
    /\ runState' = [t \in Target |-> IF runState[t] \in Failed THEN "RECONCILED" ELSE runState[t]]
    /\ Return(x)
    /\ UNCHANGED <<disk, manifest, rows, latest, vectors, counters>>

-----------------------------------------------------------------------------
\* The process dies, or the upsert of a rebuild raises.
Crash(x) ==
    /\ pc[x] # "idle"
    /\ Return(x)
    /\ UNCHANGED <<disk, dbVars, vectors, counters>>

\* A file is written or deleted.
EditFile(f, c) ==
    /\ edits < MaxEdits
    /\ c # disk[f]
    /\ edits' = edits + 1
    /\ disk' = [disk EXCEPT ![f] = c]
    /\ quiet' = [x \in Proc |-> quiet[x] /\ pc[x] = "idle"]
    /\ UNCHANGED <<dbVars, vectors, callVars, calls>>

Step(x) ==
    \/ \E t \in Target, forced \in BOOLEAN : BeginIngest(x, t, forced)
    \/ \E f \in Path : ForgetStale(x, f) \/ Hash(x, f)
    \/ FindStale(x) \/ DropStaleVectors(x)
    \/ Compare(x) \/ DropRows(x) \/ DropVectors(x) \/ Process(x)
    \/ RecordManifest(x) \/ RecordRows(x) \/ RecordRowsFails(x) \/ Upsert(x) \/ UpsertFails(x)
    \/ Raise(x) \/ Catch(x) \/ MarkFailed(x) \/ EndIngest(x)
    \/ BeginRebuild(x) \/ ReadAll(x) \/ Rebuild(x) \/ Reconcile(x) \/ Crash(x)

Next ==
    \/ \E x \in Proc : Step(x)
    \/ \E f \in Path, c \in Content \cup {Absent} : EditFile(f, c)

Spec == Init /\ [][Next]_vars

-----------------------------------------------------------------------------
(* Whatever failed, died or overlapped before, a call that is alone ...     *)

\* ... and ends a forced ingest as COMPLETED leaves, for every file it found,
\* exactly its chunks in the rows and in the index (service.py 118-140).
ForcedIngestRepairs ==
    [][\A x \in Proc : (EndIngest(x) /\ quiet[x] /\ force[x]) =>
        \A f \in Found(target[x]) :
            /\ Stored \cap ChunksOf(f) = Expected(f)
            /\ vectors \cap ChunksOf(f) = Expected(f)]_vars

\* ... and completes an ingest of a directory leaves in the manifest no path it
\* did not find and every file it found with the hash of now, except that a
\* file without chunks may have none or an old one (service.py 104-133).
ManifestMatchesDisk ==
    [][\A x \in Proc : (EndIngest(x) /\ quiet[x]) =>
        /\ target[x] \in Directory => Listed \subseteq Found(target[x])
        /\ \A f \in Found(target[x]) : manifest[f] = disk[f] \/ Expected(f) = {}]_vars

\* ... and reconciles leaves no chunk of a run it marks without its vector
\* (service.py 162-168).
ReconciledIsIndexed ==
    [][\A x \in Proc : (Reconcile(x) /\ quiet[x]) => OfFailedRuns \subseteq vectors]_vars

\* ... and fails in an upsert leaves FAILED_VECTOR_UPSERT in its run, although
\* the handler looks at the latest run and not at its own (service.py 137-149).
UpsertFailureKept ==
    [][\A x \in Proc : (MarkFailed(x) /\ quiet[x]) =>
        runState[target[x]] # "FAILED_VECTOR_UPSERT"]_vars

-----------------------------------------------------------------------------
(* What the documentation says, and the code does not do. *)

\* An ingest that is alone removes from the manifest only files that were deleted.
OnlyDeletedRemoved ==
    [][\A x \in Proc, f \in Path : (ForgetStale(x, f) /\ quiet[x]) => disk[f] = Absent]_vars
=============================================================================
