------------------------------- MODULE Memory -------------------------------
(***************************************************************************)
(* Project memory: the rows of memory_records and snapshot_records in      *)
(* queue.db, each with an index_status, and the vectors Chroma holds for   *)
(* them (memory/, chroma_manager.py, lm_studio_manager.py).  A vector is   *)
(* embedded by LM Studio, whose model may have to be loaded first.  Calls  *)
(* of different processes interleave, also with switches of the active     *)
(* project; one step is a commit or a call of LM Studio or Chroma.         *)
(***************************************************************************)
EXTENDS ActivePartition, FiniteSets

CONSTANTS
    MaxRecords,    \* bound: how many rows are written; a row is its number, in the order of created_at
    Limit,         \* the limit of a rebuild, 200 where none is given
    Unembeddable,  \* rows whose content LM Studio refuses to embed
    Unstorable     \* memories with metadata that hold a list or an object, which Chroma refuses

ASSUME MemoryConstantsOK ==
    /\ MaxRecords \in Nat
    /\ Limit \in Nat \ {0}
    /\ Unembeddable \subseteq 1 .. MaxRecords
    /\ Unstorable \subseteq 1 .. MaxRecords

Record == 1 .. MaxRecords

VARIABLES
    rows,      \* memory_records and snapshot_records
    vectors,   \* the project_scope_hash of the vector of a row, Nil: it has none
    created,   \* how many rows were begun
    \* the calls
    record,    \* the row a call is at, 0: none
    todo,      \* the rows a rebuild has still to do
    \* ChromaManager of a process
    scope,     \* _active_scope_hash
    cache,     \* the contents embed_text has in its cache
    \* LM Studio
    model      \* the embedding model

memoryVars == <<rows, vectors, created, record, todo, scope, cache, model>>
rowVars == <<rows, vectors, created>>
vars == <<partitionVars, memoryVars>>

Kind == {"memory", "snapshot"}
Status == {"pending", "indexed", "failed"}
Model == {"unreachable", "missing", "unloaded", "loaded"}
Row == [kind: Kind, project: Project \cup {Nil}, status: Status]

ASSUME NilIsNoRow == Nil \notin Row

MemoryLabel == {"insertMemory", "insertSnapshot", "embed", "upsert", "mark", "markFailed",
                "search"}

TypeOK ==
    /\ PartitionTypeOK
    /\ pc \in [Switcher -> PartitionLabel \cup MemoryLabel]
    /\ rows \in [Record -> Row \cup {Nil}]
    /\ vectors \in [Record -> Project \cup {Nil}]
    /\ created \in 0 .. MaxRecords
    /\ record \in [Caller -> Record \cup {0}]
    /\ todo \in [Caller -> SUBSET Record]
    /\ scope \in [Caller -> Project \cup {Nil}]
    /\ cache \in [Caller -> SUBSET Record]
    /\ model \in Model

Init ==
    /\ PartitionInit
    /\ rows = [i \in Record |-> Nil]
    /\ vectors = [i \in Record |-> Nil]
    /\ created = 0
    /\ record = [x \in Caller |-> 0]
    /\ todo = [x \in Caller |-> {}]
    /\ scope = [x \in Caller |-> Nil]
    /\ cache = [x \in Caller |-> {}]
    /\ model \in Model

\* What a call of memory leaves alone of the partition.
NoSwitch == UNCHANGED <<mtime, projects, active, events, conv, watchVars>>

\* The call goes to its next record, or is over.
NextRecord(x) ==
    IF todo[x] = {}
    THEN /\ Return(x)
         /\ record' = [record EXCEPT ![x] = 0]
         /\ UNCHANGED todo
    ELSE LET i == CHOOSE j \in todo[x] : \A k \in todo[x] : j <= k IN
         /\ record' = [record EXCEPT ![x] = i]
         /\ todo' = [todo EXCEPT ![x] = @ \ {i}]
         /\ project' = [project EXCEPT ![x] = rows[i].project]
         /\ Goto(x, "embed")
         /\ UNCHANGED conv

-----------------------------------------------------------------------------
(* ChromaManager and LMStudioManager, as upsert_chunks and search use them. *)

\* _resolve_scope_hash: another scope clears the cache of embeddings.
ResolveScope(x) == scope' = [scope EXCEPT ![x] = project[x]]

CachedIn(x) == IF scope[x] = project[x] THEN cache[x] ELSE {}

\* ensure_embedding_model_loaded: a model that is there but not loaded is loaded.
ModelReady == model \in {"unloaded", "loaded"} /\ model' = "loaded"

\* Mutant of Embed: what is in the cache is taken to be in Chroma.
EmbedCachedIsIndexed(x) ==
    /\ pc[x] = "embed"
    /\ ResolveScope(x)
    /\ IF record[x] \in CachedIn(x) THEN UNCHANGED model ELSE ModelReady /\ record[x] \notin Unembeddable
    /\ cache' = [cache EXCEPT ![x] = CachedIn(x) \cup {record[x]}]
    /\ Goto(x, IF record[x] \in CachedIn(x) THEN "mark" ELSE "upsert")
    /\ NoSwitch /\ UNCHANGED <<project, rowVars, record, todo, budget>>

\* embed_text: from the cache, or by LM Studio.
Embed(x) ==
    /\ pc[x] = "embed"
    /\ ResolveScope(x)
    /\ IF record[x] \in CachedIn(x) THEN UNCHANGED model ELSE ModelReady /\ record[x] \notin Unembeddable
    /\ cache' = [cache EXCEPT ![x] = CachedIn(x) \cup {record[x]}]
    /\ Goto(x, "upsert")
    /\ NoSwitch /\ UNCHANGED <<project, rowVars, record, todo, budget>>

\* No answer, no model, or the content is refused: an exception is not cached.
EmbedFails(x) ==
    /\ pc[x] = "embed"
    /\ ResolveScope(x)
    /\ record[x] \notin CachedIn(x)
    /\ \/ model \in {"unreachable", "missing"} /\ UNCHANGED model
       \/ ModelReady /\ record[x] \in Unembeddable
    /\ cache' = [cache EXCEPT ![x] = CachedIn(x)]
    /\ Goto(x, "markFailed")
    /\ NoSwitch /\ UNCHANGED <<project, rowVars, record, todo, budget>>

\* Mutant of Upsert: the metadata take the project that is active by now.
UpsertUnderActive(x) ==
    /\ pc[x] = "upsert"
    /\ vectors' = [vectors EXCEPT ![record[x]] = active.project]
    /\ Goto(x, "mark")
    /\ NoSwitch /\ UNCHANGED <<project, rows, created, record, todo, scope, cache, model, budget>>

\* The metadata of a memory are stored and upserted as the caller gave them;
\* those of a snapshot are names and ids only.
Refused(i) == i \in Unstorable /\ rows[i].kind = "memory"

\* collection.upsert
Upsert(x) ==
    /\ pc[x] = "upsert"
    /\ ~Refused(record[x])
    /\ vectors' = [vectors EXCEPT ![record[x]] = project[x]]
    /\ Goto(x, "mark")
    /\ NoSwitch /\ UNCHANGED <<project, rows, created, record, todo, scope, cache, model, budget>>

\* Chroma refuses the metadata, at each try.
UpsertRefused(x) ==
    /\ pc[x] = "upsert"
    /\ Refused(record[x])
    /\ Goto(x, "markFailed")
    /\ NoSwitch /\ UNCHANGED <<project, memoryVars, budget>>

\* Chroma fails, or the commit of the new status after it: both are caught.
UpsertFails(x) ==
    /\ pc[x] \in {"upsert", "mark"}
    /\ Bound("faults")
    /\ Goto(x, "markFailed")
    /\ NoSwitch /\ UNCHANGED <<project, memoryVars>>

\* update_memory_index_state and update_index_status
SetStatus(x, s) ==
    /\ rows' = [rows EXCEPT ![record[x]].status = s]
    /\ NextRecord(x)
    /\ NoSwitch /\ UNCHANGED <<vectors, created, scope, cache, model, budget>>

Mark(x)       == pc[x] = "mark" /\ SetStatus(x, "indexed")
MarkFailed(x) == pc[x] = "markFailed" /\ SetStatus(x, "failed")

-----------------------------------------------------------------------------
(* MemoryService and SnapshotMemoryService. *)

\* commit_memory reads the active row; without one it answers NO_ACTIVE_PARTITION.
BeginCommit(x) ==
    /\ pc[x] = "idle"
    /\ Bound("saves") /\ created < MaxRecords
    /\ active # Nil
    /\ project' = [project EXCEPT ![x] = active.project]
    /\ record' = [record EXCEPT ![x] = created + 1]
    /\ created' = created + 1
    /\ Goto(x, "insertMemory")
    /\ NoSwitch /\ UNCHANGED <<rows, vectors, todo, scope, cache, model>>

\* record_workflow_snapshot is given the active row, or none.
BeginSnapshot(x) ==
    /\ pc[x] = "idle"
    /\ Bound("saves") /\ created < MaxRecords
    /\ project' = [project EXCEPT ![x] = IF active = Nil THEN Nil ELSE active.project]
    /\ record' = [record EXCEPT ![x] = created + 1]
    /\ created' = created + 1
    /\ Goto(x, "insertSnapshot")
    /\ NoSwitch /\ UNCHANGED <<rows, vectors, todo, scope, cache, model>>

\* insert_memory_record
InsertMemory(x) ==
    /\ pc[x] = "insertMemory"
    /\ rows' = [rows EXCEPT ![record[x]] =
                  [kind |-> "memory", project |-> project[x], status |-> "pending"]]
    /\ Goto(x, "embed")
    /\ NoSwitch /\ UNCHANGED <<project, vectors, created, record, todo, scope, cache, model, budget>>

\* Mutant of InsertSnapshot: a snapshot of no project gets a status of its own.
InsertSnapshotSkipped(x) ==
    /\ pc[x] = "insertSnapshot"
    /\ rows' = [rows EXCEPT ![record[x]] =
                  [kind |-> "snapshot", project |-> project[x],
                   status |-> IF project[x] = Nil THEN "skipped" ELSE "pending"]]
    /\ IF project[x] = Nil
       THEN NextRecord(x)
       ELSE Goto(x, "embed") /\ UNCHANGED <<callVars, record, todo>>
    /\ UNCHANGED <<mtime, projects, active, events, watchVars>>
    /\ UNCHANGED <<vectors, created, scope, cache, model, budget>>

\* SnapshotRepository.insert; a snapshot of no project is not indexed.
InsertSnapshot(x) ==
    /\ pc[x] = "insertSnapshot"
    /\ rows' = [rows EXCEPT ![record[x]] =
                  [kind |-> "snapshot", project |-> project[x], status |-> "pending"]]
    /\ IF project[x] = Nil
       THEN NextRecord(x)
       ELSE Goto(x, "embed") /\ UNCHANGED <<callVars, record, todo>>
    /\ UNCHANGED <<mtime, projects, active, events, watchVars>>
    /\ UNCHANGED <<vectors, created, scope, cache, model, budget>>

\* list_memory_records_for_reindex: the oldest ones that are not indexed.
ForReindex(p) ==
    LET due == {i \in Record : rows[i] # Nil /\ rows[i].kind = "memory"
                               /\ rows[i].project = p /\ rows[i].status # "indexed"}
    IN  {i \in due : Cardinality({j \in due : j < i}) < Limit}

\* Mutant of BeginRebuild: only the rows that failed are tried again.
BeginRebuildFailed(x, p) ==
    /\ pc[x] = "idle"
    /\ LET due == {i \in ForReindex(p) : rows[i].status = "failed"} IN
       /\ due # {}
       /\ LET i == CHOOSE j \in due : \A k \in due : j <= k IN
          /\ record' = [record EXCEPT ![x] = i]
          /\ todo' = [todo EXCEPT ![x] = due \ {i}]
    /\ project' = [project EXCEPT ![x] = p]
    /\ Goto(x, "embed")
    /\ NoSwitch /\ UNCHANGED <<rowVars, scope, cache, model, budget>>

\* rebuild_memory_index_for_project
BeginRebuild(x, p) ==
    /\ pc[x] = "idle"
    /\ LET due == ForReindex(p) IN
       /\ due # {}
       /\ LET i == CHOOSE j \in due : \A k \in due : j <= k IN
          /\ record' = [record EXCEPT ![x] = i]
          /\ todo' = [todo EXCEPT ![x] = due \ {i}]
    /\ project' = [project EXCEPT ![x] = p]
    /\ Goto(x, "embed")
    /\ NoSwitch /\ UNCHANGED <<rowVars, scope, cache, model, budget>>

\* semantic_search_active: the active row is read ...
BeginSearch(x) ==
    /\ pc[x] = "idle"
    /\ Bound("searches")
    /\ active # Nil
    /\ project' = [project EXCEPT ![x] = active.project]
    /\ Goto(x, "search")
    /\ NoSwitch /\ UNCHANGED memoryVars

\* ... and its scope is searched, wherever the active row has gone; an error is answered.
Search(x) ==
    /\ pc[x] = "search"
    /\ ResolveScope(x)
    /\ cache' = [cache EXCEPT ![x] = CachedIn(x)]
    /\ ModelReady \/ UNCHANGED model
    /\ Return(x)
    /\ UNCHANGED <<mtime, projects, active, events, watchVars, budget>>
    /\ UNCHANGED <<rowVars, record, todo>>

-----------------------------------------------------------------------------
\* The process of the call dies, with its cache, or a commit that nothing
\* catches fails.
CallFails(x) ==
    /\ pc[x] \in MemoryLabel
    /\ Bound("faults")
    /\ Return(x)
    /\ record' = [record EXCEPT ![x] = 0]
    /\ todo' = [todo EXCEPT ![x] = {}]
    /\ \/ UNCHANGED <<scope, cache>>
       \/ scope' = [scope EXCEPT ![x] = Nil] /\ cache' = [cache EXCEPT ![x] = {}]
    /\ UNCHANGED <<mtime, projects, active, events, watchVars, rowVars, model>>

\* LM Studio is started, stopped or given other models.
ModelChanges(m) ==
    /\ Bound("faults")
    /\ m # model
    /\ model' = m
    /\ UNCHANGED <<mtime, projects, active, events, pc, callVars, watchVars>>
    /\ UNCHANGED <<rowVars, record, todo, scope, cache>>

MemoryStep(x) ==
    \/ InsertMemory(x) \/ InsertSnapshot(x)
    \/ Embed(x) \/ EmbedFails(x) \/ Upsert(x) \/ UpsertRefused(x)
    \/ Mark(x) \/ MarkFailed(x)
    \/ Search(x)

Next ==
    \/ PartitionNext /\ UNCHANGED memoryVars
    \/ \E x \in Caller :
        \/ BeginCommit(x) \/ BeginSnapshot(x) \/ BeginSearch(x)
        \/ \E p \in Project : BeginRebuild(x, p)
        \/ MemoryStep(x) \/ UpsertFails(x) \/ CallFails(x)
    \/ \E m \in Model : ModelChanges(m)

Spec == Init /\ [][Next]_vars

\* A call that began goes on to its end; the watcher polls again and again.
FairSpec ==
    /\ Spec
    /\ WF_vars(WatcherStep /\ UNCHANGED memoryVars)
    /\ \A x \in Caller : WF_vars(MemoryStep(x)) /\ WF_vars(SwitchStep(x) /\ UNCHANGED memoryVars)

\* ... and an operator keeps up the index of each project: no code but the tests
\* calls rebuild_memory_index_for_project.
MaintainedSpec ==
    /\ FairSpec
    /\ \A p \in Project : SF_vars(\E x \in Caller : BeginRebuild(x, p))

-----------------------------------------------------------------------------
(* Properties. *)

\* A row is marked as indexed only when Chroma holds its vector, in the scope
\* of the row, whatever fails between the two stores and whoever tries the same
\* row at the same time (memory/service.py 67-106, 133-154; snapshots.py 227-250).
IndexedIsInIndex ==
    \A i \in Record : rows[i] # Nil /\ rows[i].status = "indexed" => vectors[i] = rows[i].project

\* SQLite is the source and Chroma can be rebuilt from it: each vector has a
\* row, of its own project, although the active project may be switched between
\* any two steps of the call that writes both (memory/service.py 45-88).
VectorHasRow ==
    \A i \in Record : vectors[i] # Nil => rows[i] # Nil /\ rows[i].project = vectors[i]

\* If LM Studio has the model from some time on, loaded or not, and rebuilds are
\* run, then each memory that was written, can be embedded and has metadata that
\* Chroma takes is indexed in the end: no failure, death or overlap of calls
\* strands it, and older rows that no rebuild can repair do not starve it, as
\* long as they are fewer than the limit (memory/service.py 119-162, repo.py
\* 114-128).  A row that LM Studio or Chroma refuses stays failed for good.
RebuildsRepair ==
    <>[](model \in {"unloaded", "loaded"})
    => \A i \in Record \ (Unembeddable \cup Unstorable) :
         <>[](rows[i] # Nil /\ rows[i].kind = "memory" => rows[i].status = "indexed")
=============================================================================
