# Aletheia backend: TLA+ models, checks and proofs

The repository is the backend of a local agent: a Python daemon
(`backend/python-daemon/orchestrator`) with its state in two SQLite databases, a vector
index and files, behind a JSON-RPC bridge that a Node MCP gateway (`backend/node-mcp`)
calls. This directory holds TLA+ models of the parts of it where the order of
steps matters, the TLC runs that check them on small instances and the TLAPS proofs that
hold for every value of the constants. Paths below are relative to
`backend/python-daemon/orchestrator/` unless they start with `backend/`.

## 1. The system

| Component | State it keeps | Operations | Made hard by | Correct when |
|---|---|---|---|---|
| Task queue (`queue_repo.py`, `db_bootstrap.py`) | `queue.db`: tasks, edges, events, approvals; `control.db`: leases, dead letters | create, claim, sweep of expired leases, transition, complete, reroll, prune, dead letter | two databases and several commits per method; SELECT and UPDATE that other connections come between | a claim is exclusive until it expires; finished or rejected tasks are not leased; a child waits for its parent |
| Daemon worker (`worker.py`, `execution_loop.py`, `main.py`) | one claimed task, the answer of its tool | `run_forever`, `run_once` | crashes between commits, expired leases, two daemons on one directory, exceptions that end the process | no task completed without a result, failures counted, every task completed in the end |
| Approval gate (`hitl.py`, `approval.py`) | approvals, the state of their tasks, an `asyncio.Event` per task | create, authorize, reject, wait | decisions and transitions are separate commits; a worker may hold the task; events outlive a round | a released task was decided; a waiter is woken; a rejection stays |
| Patch apply and rollback (`patching/`) | rows of artifacts, approvals, apply runs, snapshots; backups; the target tree | apply with snapshots, `git apply` and tests; restore | partial failure of git, timeouts, crashes between files, patch files changed on disk, calls that overlap | only approved bytes are applied; what was written can be restored |
| Ingest (`ingest/`) | manifests, chunks, runs; the vectors in Chroma | ingest, search, rebuild | two stores without a common commit; a failed upsert; sub-directories | what search finds is what the files hold |
| Memory (`memory/`), Chroma and LM Studio managers | memory and snapshot rows with an index status; the vectors; a scope and a cache of embeddings per process; the loaded model | commit, snapshot, rebuild, search | two stores; a model that comes and goes; switches in the middle of a call; calls that repair the same row | a row is `indexed` only if it is in the index, and is in the end |
| Active partition (`active_partition/`) | active row, projects, events; what the watcher applied last | switch by hand, poll of the watcher thread | three commits per switch; files that change between three looks at them | the active project exists; the newest conversation is applied |
| Agent workflow (`agent_workflow/`, `agent_workflow_cli.py`) | a state file per run, artifacts of its steps | start on one of three surfaces, one todo after the other, snapshot, memory, report | a save before and after each call, requests that are served after their timeout, deaths of either side | the file never understates what ran; `COMPLETE` means that the work is done |
| Pipelines and DAG (`pipeline/`, `dag_runtime.py`) | none | load, validate, order | cycles, templates that change between a registration and a run | a step runs after what it depends on |
| Capabilities and skills (`capabilities/`, `skills/`) | registry rows | import at each start, set a status, decide, select | partial imports, files edited meanwhile | the policy looks at the row of the pipeline that runs |
| Schema migrations (`db_bootstrap.py`) | the version rows and the schema | bootstrap, by every process that starts | `executescript` commits by itself; another process between two statements; deaths | a version that is recorded is there; a daemon can come up |
| Bridge (`bridge_server.py`), gateway (`backend/node-mcp`), shim, scripts | connections, a cache of nonces | forward, sign, verify, dispatch, answer, give up | a handler blocks the loop, callers give up first, windows set in three programs, tables kept in four | a caller is told the truth, is released, and is not refused if it has the secret |
| Tool adapters (`adapters.py`) | none of their own | `call_mcp_tool` | arguments are checked by one program and converted by another | what is forwarded fits |

How they interact. The daemon brings its databases up to date, imports the registries and
then starts the worker and the bridge. The worker claims tasks from the queue and calls
tools; the gate moves tasks out of its reach and back. A call from outside passes the
gateway or the shim, the bridge and `call_mcp_tool`, which runs the tool on the event
loop; a workflow run is such a tool, or a process of its own that calls tools over the
bridge. Patch apply is called by an approved workflow. Ingest, memory and the active
partition share the Chroma manager and `queue.db`, and memory is written to whatever
project is active at that moment.

What else the repository holds is listed in `PROJECT.json` with the reason it is left
out, and in section 6.

## 2. Modules

| Module | Models | Uses |
|---|---|---|
| `TaskQueue` | the tables, and each committed transaction as an operator | |
| `DaemonWorker` | `run_once` as a process: `pc` names the next commit | `TaskQueue` |
| `ApprovalGate` | `ApprovalGate` and its three repository methods, the waiting coroutines | `TaskQueue` |
| `Daemon` | workers, gates and the callers of `create_task` over one state directory; the properties | both |
| `TaskContract` | the promise: handled after the parent completed, completed after a result | |
| `PatchApply` | apply and restore calls over one target repository; the properties | |
| `Ingest` | ingest and rebuild calls over files, rows and vectors; the properties | |
| `ActivePartition` | switches by hand and by the watcher | |
| `Memory` | rows, vectors, the managers and LM Studio, while the active project changes | `ActivePartition` |
| `Pipeline` | loader, validator and compiler as operators on templates | |
| `Registries` | both registries, their imports, the policy and the choice of a skill | `Pipeline` |
| `Workflow` | runs on their three surfaces, with the daemon that serves them | `Registries` |
| `Startup` | the migrations, statement by statement, by any number of processes | |
| `Tools` | the tables of tools and arguments of the four programs | |
| `Bridge` | calls of the four programs to a daemon that starts, serves and dies | `Startup`, `Tools` |
| `DaemonProofs`, `DaemonRefinement`, `PatchProofs`, `IngestProofs`, `MemoryProofs`, `WorkflowProofs`, `StartupProofs`, `BridgeProofs` | theorems about the module, or modules, of that name | `TLAPS` |
| `MCDaemon`, `MCPatchApply`, `MCIngest`, `MCMemory`, `MCWorkflow`, `MCStartup`, `MCBridge` | constants, symmetry and seeded states for TLC | |

### The daemon

One action is one commit, and a method that commits twice or reads through one
connection and writes through another is cut into steps, between which every other
process may act: `claim_ready_task` is `Claim` and `RecordLease`, `complete_task` is
`CheckComplete`, `Complete` and `ClearLease`, `release_expired_leases` is `SweepQueue`
and `SweepControl`, `add_negative_constraint` is `ReadReroll` and `StoreReroll`,
`transition_task_state` is `CheckTransition` and `WriteTransition`. The last is two steps
because the `sqlite3` module opens its transaction at the UPDATE and not at the SELECT
before it. `BEGIN IMMEDIATE` makes the two statements of a claim one.

What is abstracted: `revision`, scores, titles, constraint texts and timestamps other than the
expiry; one project; an expiry is a number of ticks, -1 when it is past; the reroll counter stops
at `RerollCap`, the first value past `max_rerolls`, because nothing asks more of it; of
`task_events` only the rows for COMPLETED are kept; lease and dead-letter rows are sets; a task
has one parent edge at most, and is never its own parent; heartbeats write columns that no step
reads. A crash is the death of the process or a commit that SQLite refuses. What a tool raises is
`ToolFails` if it is a `KeyError` or a `ValueError`, which `call_tool` turns into an
`AdapterFailure`, and `ToolRaises` otherwise: then nothing catches it and the daemon ends with the
task still leased. `Decider` are the gates that approve and reject; the others only ask. `earned`
and `failures` are history variables. `update_scores`, `score_before_routing` and `set_task_state`
have no caller; the approval methods and `create_task` are called by tests and scripts, which is
why any process may call them.

### Patch apply and rollback

`PatchApply` has the working tree, the patch files, the rows of `patch_apply_runs` and
`file_snapshots`, and processes that run `apply_approved_patch` or `restore_patch_run --confirm`.
`BeginApply` is every check up to `git apply --check` with the INSERT of the run: the checks read
rows that nothing updates and bytes that are kept in memory, so that only the look at the tree
could be told apart, and `git apply` repeats that one (`GitBegins`). `Affected` are the paths that
`_affected_paths` reads from the lines with `--- ` and `+++ ` (`Marked`), for which there are path
checks, snapshots and restores; `Written` are the paths git writes, which differ when a section
has no such lines. Then come one `Snapshot` per file, `EndSnapshots`, one `GitWrites` per file,
`RecordApplied`, the tests and the final row. A restore, also that of a failed apply, is one
`RestoreFile` per snapshot row, and `RestoreStops` its early return, also at the hash of the last
file. `Crash` is the death of the process and also what nothing catches: the `TimeoutExpired` of
git, the `OSError` of a missing backup. A diff is what each file must hold before and holds after;
a hash is whether bytes are the ones it was taken of; the checks on paths and text are the set
`Unsafe`. `touched` and `overlapped` are history variables. The declared tests write nothing in
the model, and the memory commit at the end of an apply is left out; `Memory` has that call.

### Ingest

`Ingest` has the files of one project, its manifest, chunk and run rows, and the vectors in
Chroma. `ingest_target` is `BeginIngest` (scan and `start_ingestion_run`), for a directory
`FindStale` and per stale path `ForgetStale` (rows) and `DropStaleVectors` (Chroma), then per file
`Hash`, `Compare`, `DropRows`, `DropVectors`, `Process`, `RecordManifest`, `RecordRows` and
`Upsert`, and `EndIngest`; `UpsertFails` and `Raise` lead to the handler, `Catch` and
`MarkFailed`, which looks at the latest run of the project. `rebuild_chroma_for_project` is
`BeginRebuild`, `ReadAll`, `Rebuild`, `Reconcile`. A content stands for its hash; what the
processors make of it is the constant `Pieces`; a chunk is its path and piece, as its id is their
hash. Foreign keys are on, hence `RecordRowsFails`. The files are taken in any order where the
code sorts them, and the scope and the cache of the Chroma manager are in `Memory`. `quiet` is a
history variable: nothing but this call happened since it began.

### Active partition and memory

A switch is `UpsertMemoryProject`, `SetActivePartition` and `RecordConversationEvent`,
one commit each; it is begun by a tool (`BeginSwitch`, `BeginConversationSwitch`) or by
the watcher, whose `poll_once` is `Poll`, `Settle` and `Stat`: the three times it looks
at the file. `SwitchFails` is an exception or a death; the thread outlives the first and
then does not remember what it applied. A project stands for its id and for the hash of
it; the path below which a conversation lies is the function `FolderOf`.

`commit_memory` is `BeginCommit` (the read of the active row), `InsertMemory`, `Embed`, `Upsert`
and `Mark`, or `MarkFailed`; a snapshot is the same with `InsertSnapshot`; a rebuild takes what
`ForReindex` gives, row by row, through the same steps; a search changes the scope and the cache
of its process. `Embed` resolves the scope, takes the embedding from the cache or asks LM Studio,
which may be unreachable, lack the model or have to load it. `UpsertFails` is a failure of Chroma
that may pass; `UpsertRefused` is its refusal of metadata with a list or an object in them
(`Unstorable`), which comes back at each try. A row is its number in the order of `created_at`.
Texts, scores and the size of the cache are left out.

### Pipelines, registries and workflow runs

`Pipeline` has no state. A template is its steps with dependencies, bindings and variables;
`Rounds` are the rounds of `graphlib.TopologicalSorter`, `Orders` what `static_order` may give,
and `Plans` what the compiler makes of a template, or nothing when it raises. `Registries` imports
one file per commit when a daemon starts, while files and rows may be edited. In `Workflow` a run
goes from `Begin` over `LoadSkills`, `CheckPolicy` and `Build` to its todos, each `StartTodo`
(save), a call (`NotCalled`, `CallDirect`, or `Send`, `Serve`, `Receive` and `CallTimesOut` over
the bridge), `Summarise` and `Check` (a save each) and `NextTodo` or `Halt`; then `Snapshot`,
`Remember`, `Report` and `Finish`. `StepRaises`, `CallerDies` and `DaemonDies` are what goes
wrong. `write_text` truncates before it writes, so that a failed save may leave no readable file,
the first one included. Left out: the texts of prompts, receipts and reports, `use_model_phases`
(its phases are built and never consulted), arguments below their first level. `ran` is a history
variable.

### Startup, tools and bridge

`Startup` is `bootstrap_databases` with the transaction rules of Python's `sqlite3`: an
INSERT opens a transaction, `executescript` commits the open one and then each statement
by itself, so that the row of a version is durable only when the next script starts or
the file is closed. `CommitOpen`, `RunStatement`, `ReadColumns`, `AlterTable`,
`InsertVersion` and `CommitFile` are these steps; an INSERT of a row another process has
committed, or an ALTER of a column that is there, makes the process fall. A process has
the migrations of its own release. A table or a column is a name.

`Tools` is four tables: the arguments `call_mcp_tool` needs (present, and for some also not empty:
`Filled`), converts, checks and bars, the contracts of the gateway, the functions of the shim and
the lists of the runner. Of the values of a request it tells apart the empty texts, those of
another type that can be converted (`'5'` for 5) and those that cannot. In `Bridge` a call is one
connection: `Decline` or `Make`, `Read` with the verdict (`closed`, `unauthorized`, `disabled`,
`misfit`, `failure` or the start of the tool), `Finish`, `Hear` or `GiveUp`. The daemon is a
process of `Startup`, and `LoseLines` is what its death does to connections. Time is in ticks; a
text is plain, long, with letters outside ASCII or with a number below 0.0001, the last two being
what Node and Python write differently. To its caller a call that is turned down for its arguments
looks like a tool that failed, and `Tells` says so; JSON itself and the handshake of MCP are left
out.

## 3. Runs

| Run | Instance | Question |
|---|---|---|
| `workers` | 2 workers, 2 tasks, 1 malformed, `MaxRerolls` 1, leases of 0 ticks | do claims, answers and completions keep their order, and `TaskContract`, when leases expire under a live worker and processes die anywhere? |
| `approvals` | 1 worker, 1 gate, 2 tasks, 1 approval | do leases, states and rejections agree when an approval interleaves with a daemon? |
| `waits` | 1 worker, 1 gate that decides and waits, another that asks, 1 task, 2 approvals | is a coroutine whose approval was decided woken, has a task that waits an approval to decide, and does a release decide what it found? |
| `progress` | 2 workers, a task and its child | is every task completed, once crashes stop? |
| `patches` | 2 processes, 2 runs, a patch that moves a file and one that moves it back by a section without a `+++ ` line, 3 approvals | does only what was approved reach the tree, and can it be restored? |
| `ingest` | 2 processes, 3 calls, 1 edit, 2 files, 3 contents | what does a call that is alone repair of what failed, died or overlapped before, and what may it claim? |
| `memory` | 2 processes and the watcher, 2 projects, 2 conversations, 2 rows | do rows, vectors and active project agree, and is everything applied and indexed in the end? |
| `workflow` | 2 runs, 3 pipelines, 9 templates, 2 skills | what may the state file, the snapshots and the answer claim, and is every caller answered? |
| `starts` | a daemon and a command one release older, on new databases or on those of release 2 | is a recorded version complete, and does the daemon come up? |
| `bridge` | 2 calls, one of the gateway and one of the others, with and without a secret | are callers told the truth, admitted, understood and released? |
| `stale_event` (violation) | 1 worker, 1 gate, 1 task, 2 approvals | does `wait_for_approval` end only after a decision? |
| `ingest_subdir` (violation) | 1 process, 2 calls, no edits | does an ingest of a directory forget only deleted files? |

Each property of a passing run has a mutant of the model, a plausible slip in the code
(`PROJECT.json`, "mutants"), under which TLC finds it violated.

Bounds. Two workers are what an expired lease needs: one that still executes, one that claims
again. Two tasks make a parent and a child, inserted in either order. A lease of 0 ticks expires
at the next tick, which may come at any step, so longer leases add delays and no new order.
`MaxRerolls` is 0 or 1: at 1 a task fails once without and once with a dead letter, and two
workers can count one failure twice. In `waits` two approvals make a second round of the same
task, or two pending rows at once, one of them inserted by the second gate while the first
decides; in `approvals` one is enough, because leases and rejections are what it asks about. There
both payloads are refused, the shortest way to a completion; what tools answer is
varied in `workers`. Two apply runs make an old and a new one of the same files; `Typed` bounds
what people write into the tree by hand. A move deletes one file and creates another, so a restore
has to write one back and to delete one; one content is then enough beside the foreign one. The
copy back is a section that git executes and `_affected_paths` does not see; a path that is listed
and not written is in no patch of the run, but in the theorems. The run has 1.8 million
states. Three ingest calls are two that overlap or fail in any way and one that comes
after them, alone or not; an edit may fall anywhere between. Of the three contents two share no
chunk and one has none. Symmetry is used in safety runs only, on sets whose members are not told
apart.

In `memory` the budgets are five (`MCMemory`, `Calls`): two edits of conversations with a switch
by hand and a fault, for the watcher; one or two saves with switches, a search or a fault and no
watcher, which is the default, for the two processes. A fifth budget has three saves and a fault.
Three rows are what the limit of a rebuild needs: one that LM Studio refuses for good, one behind
it that can be repaired, and one whose metadata Chroma refuses; the limit is 2, more than the
refused rows before the one to repair, as `RebuildsRepair` says. In `workflow` the templates are
of every kind the compiler tells apart (a chain, a fork with a handoff, a cycle, an unbound
binding, an unknown variable, a foreign tool, a duplicate id, a long one), a plan has at most 3
steps, and the second run holds the loop of the daemon from the requests of the first; budgets
allow an edit, a fault, or a second run. In `starts` processes may die and be started without
bound. In `bridge` the patience of the programs is 1 or 2 ticks and the tolerance 2, in the order
of 30, 180 or 240, and 300 seconds; a cache of one nonce is emptied at the second request. The
requests are one with all declared arguments for each tool of the contracts, those that lack a key
argument, those with a value of a wrong type that can be converted or not, an empty text, a long
line, a text with other letters, one with a small number, and the methods of the administrator.

The first daemon invariants are stated for any number of daemons; `OwnerHasLeaseRow` is for one,
as `main.py` deploys it, since a worker whose lease expired deletes the lease row of the next
owner (`ClearLease` goes by task id). `ReleaseDecides` is for any number of gates and speaks of
the approvals the releasing call found, since one that another process inserts after its decision
stays undecided; `DecidedWaitersSignalled` is for one gate that decides, the only one that knows
its events, and any that ask. `NeverUnderstated` and `OriginalsRestored` are for calls that do not
overlap, with each other or with edits by hand, since nothing in the code keeps two calls apart;
what holds without that condition (`ApprovedBytesOnly`, `SnapshotsFirst`) is stated without it.
`SnapshotsFirst` and `OriginalsRestored` speak of the affected paths; for what git writes beside
them the code promises nothing (section 5). The ingest properties, likewise, speak of a call that
is alone, whatever happened before it.

Deadlock is checked in the runs of the daemon, of patches and of starts: every process
can always be restarted or crash, so no state of these models is without a step. In the
others the number of calls, edits or faults is bounded, and behaviours end there.

### Fairness

- `Daemon`: the clock ticks, each daemon takes its steps or is started again (its loop has no
  condition that could keep it from its next iteration, and `README.md:136` of the repository
  counts on restarts: state is persisted so that the daemon can "recover after crashes or
  restarts"), and the tool of a task, tried again and again, does not fail for ever (strong
  fairness of `ToolSucceeds` per worker and task: an assumption about the tools, not about the
  daemon). `TasksComplete` also supposes that processes eventually stop crashing. The end of a
  daemon by the `ValueError` of `complete_task` or by the exception of a tool is not counted as a
  crash there: both may happen again and again, and it holds nevertheless. That an exhausted task
  is claimed again (section 5) is part of why `TasksComplete` holds. The tasks it is about have no
  ancestor that was rejected: the run has no gate.
- `Memory`: a call that began goes on, and the watcher polls (`run_until_stopped` loops
  whatever a poll raised). `MaintainedSpec` adds that rebuilds of each project are run again
  and again. No code but the tests calls `rebuild_memory_index_for_project`, so this is an
  assumption about an operator, and `RebuildsRepair` says what it buys.
- `Workflow`: a run goes on by itself, since a tool returns and a call over the bridge is
  answered or times out. Nothing is assumed of the daemon that serves.
- `Startup`: a process that is down is started again and one that runs comes on; deaths
  and lock timeouts need no fairness, and `StartsSucceed` supposes that kills stop.
- `Bridge`: the clock ticks and a caller takes what it is given or gives up. Of the daemon
  nothing is assumed: it may stay down or sit in a handler for ever.

### What the violations show

- `stale_event`: nothing clears the event of a task, so the wait of a second round ends at once.
- `ingest_subdir`: the paths of the whole project are compared with the files of the
  directory at hand, and those elsewhere are removed from the index as deleted.

Beside these, `ForcedIngestRepairs` needs `force_reindex`: without it a file whose upsert failed
is skipped as unchanged and its run ends COMPLETED. `ReconciledIsIndexed` is about the runs
marked; the chunks of such a COMPLETED run come back only with a rebuild that finds no failed run.

## 4. Proofs

TLC checks the instances above; the theorems hold for every value of the constants. Every
invariant and every action property of a passing run, and the refinement, is a theorem; the
liveness properties are not (see the end of this section). The strengthened invariants
below were checked by TLC on the instances of the runs before they were proved.

### Daemon

From `ConstantsOK` alone (tasks finitely many, `Nil` distinct, two naturals), for any number of
tasks, workers, gates and approvals:

| Theorem | Statement |
|---|---|
| `TypeCorrect` | `Spec => []TypeOK` |
| `OrderCorrect` | `Spec => []OrderInv` |
| `TerminalUnleasedCorrect` | `Spec => []TerminalUnleased` |
| `RejectionFinalCorrect` | `Spec => RejectionFinal` |
| `ContractKept` | `Spec => Contract!Spec` |

The inductive invariant is `Inv == TypeOK /\ OrderInv`. `OrderInv` says why a claim of a child is
in order: state COMPLETED alone would not do, because an approval may move a completed task on
(section 5), so it is the logged event that is kept (`CompletionsLogged`), and a worker remembers
that its parent had one (`JobsInOrder`); a completion is in order because the labels before it can
only be reached with a result (`ResultsFirst`); the calls of gates never write COMPLETED
(`CallsMatchLabels`). One lemma per process proves the types, one the order, action by action.
`TerminalUnleased` is inductive beside `Inv`, since each UPDATE that ends a task clears its lease
in the same statement and a claim looks at both columns. `ContractKept` maps each step of a worker
or gate to a step of `TaskContract` or a stutter; the mapping takes as handled the tasks of the
workers past `RecordLease`.

| Theorem | Statement | Supposes | Invariant beside `Inv` |
|---|---|---|---|
| `DeadLetterJustifiedCorrect` | `Spec => []DeadLetterJustified` | | `RerollInv` |
| `PendingHasApprovalCorrect` | `Spec => []PendingHasApproval` | | `AskedInv` |
| `OwnerHasLeaseRowCorrect` | `Spec => []OwnerHasLeaseRow` | one worker | `DoomedOver`, `TerminalUnleased` |
| `ReleaseDecidesCorrect` | `Spec => ReleaseDecides` | | `ReleaseInv` |
| `DecidedWaitersSignalledCorrect` | `Spec => []DecidedWaitersSignalled` | one gate that decides | `ReleaseInv`, `WaitInv` |

`RerollInv` is a count: the write of `add_negative_constraint` may lose what another worker stored
since its read, so `rerolls` may fall behind `failures`, but never so little that the workers
still on their way to a write (`Counting`) could bring it past. `AskedInv` says that a call which
is to write PENDING_APPROVAL has inserted the row it asks for. `ReleaseInv` says that the
approvals a call found pending (`seen`) are decided from its decision on, by whichever call. Two
are false without their suppositions, which are those of section 3: with two workers, one whose
lease expired deletes the lease row of the other; with two gates that decide, one sets only events
of its own. Tasks, approvals, workers, gates that only ask and, for the lease rows, all gates stay
arbitrary. `DoomedOver`: a rejection whose deletes are outstanding has ended its tasks, so the
only worker has none of them. `WaitInv` has two parts. `WaitOK`: a waiter whose approval was
decided and whose event is not set has a call of its gate which still has to set it (`Deciding`),
or a completed task. `MoveOK`: no transition on its way takes such a task back to
PENDING_APPROVAL, which would hide a decision from its waiter.

### Patch apply and rollback

`TypeCorrect`, `ApprovedBytesOnlyAlways`, `SnapshotsFirstAlways`, `NeverUnderstatedAlways` and
`OriginalsRestoredAlways`, for any number of processes, runs, patches and paths, from
`PatchConstantsOK`, whatever a patch writes beside its affected paths and whichever of these it
does not write. What holds always is in `Safe`: the bytes a call has are those that were stored
(`CallInv`), and the rows of a run are about the patch of its approval from its first one on
(`RunInv`), though another call may end or restore the run meanwhile. What holds until calls or
edits overlap is in `QuietInv`: there is one call, each snapshot is what the diff expected to find
(`SnapshotsFit`), and a restore has written back all but what it has still to do (`RestoredUpTo`).
It is kept apart because nothing of it survives an overlap.

### Ingest

`TypeCorrect` and the four action properties (`ForcedIngestRepairsAlways`,
`ManifestMatchesDiskAlways`, `ReconciledIsIndexedAlways`, `UpsertFailureKeptAlways`), for any
number of processes, targets, paths, contents, calls and edits, from the assumptions on the
constants. They are about the end of a call that was alone, after any history. `AloneInv`
says what such a call has established at each label: nobody else is in a call, the latest
run is its own, which is why the handler marks the right one, what is left of the stale
paths is in its hands, and the files behind it are recorded, and repaired under
`force_reindex`. Of the stores as it found them it supposes nothing but their types.

### Startup

`VersionMeansSchemaCorrect` is `StartupSpec => []VersionMeansSchema`, for any number of
processes, from `ReleaseAssumption` alone (a release has 1 to 8 migrations of `queue.db`).
That recorded versions are complete is not inductive: rows wait in open transactions, to
be committed long after their statements and together with altered columns. `StartupInv`
adds what an open transaction stands for (`RowsAreBacked`), what the statements a process
has passed have left (`StatementsAreDone`), that it comes to its migrations in order
(`InOrder`) and that it leaves a database only when it is complete (`FilesAreDone`). A step
changes one process (`StepsAreLocal`) and nothing committed is undone, which keeps the
invariant of the others (`OthersKeep`); there is a lemma for each step of the process
itself. `StartupTypeCorrect` is `StartupSpec => []StartupTypeOK`, which is part of the types
of `Bridge`.

### Bridge

`AnswersAreTrueCorrect` and `KeyHoldersAreAdmittedCorrect`, for any number of calls, requests and
secrets, any tolerance and any patience within it, and any size of the cache of nonces
(`BridgeAssumption`). `AnswersMatchLines` ties an answer on a connection to whether the tool was
called, `ToldMatchesLines` what a caller was told to that, and `WaitersAreYoung` bounds the age of
a call somebody waits for and keeps an unread line out of the cache of nonces, which is why the
verdict on it cannot be a refusal. Of the gateway this is proved for texts that Node and Python
write alike, and of the others for all texts.

`TypeCorrect` joins the types of the connections with those of the processes that start.
`ForwardedCallsFitCorrect` is mostly about the tables: for every request whose values have the
declared types or can be converted, and but for an empty `conversation_path`, what
`validateToolInput` lets pass (`ContractsAgree`) and what a function of the shim sends
(`ShimAgrees`) has what `call_mcp_tool` needs, nothing it bars, and nothing unchecked that it
checks, tool by tool; `OnlyForwarded` carries that to the line the daemon reads. It supposes that
the gateway and the shim call no other method than `tools.call` (`FrontEndsCallTools`:
`bridge.mjs:11`, `call_tool` of the shim). An argument the shim sends only when it is not None
(`ShimOptions`) may be absent, and is then none the daemon needs.

### Active partition and memory

`ActiveIsKnownCorrect`, `IndexedIsInIndexCorrect` and `VectorHasRowCorrect` (`Spec => []...`), for
any number of processes, projects, conversations and rows, any limit of a rebuild and any sets of
contents LM Studio and of metadata Chroma refuses, from `PartitionConstantsOK`,
`MemoryConstantsOK` and `NilIsNoRow`. A switch past its first commit has a project that is known
(`SwitchesAreKnown`), which the active row and the event then take from it. The two properties
about rows and vectors are not inductive, since between the two stores a row is in the hands of a
call: `CallInv` says what that call knows of it, that it has the project of the call, whatever the
active project is by now, and, once it is to be marked, that its vector is there. A row is
inserted by one call alone (`InsertsAreDistinct`), so that no other can take back what a call
knows (`OthersKeep`): rows keep their project, and a second rebuild of the same row writes the
same vector. `TypeCorrect` needs in addition that the newest conversation and the oldest row to do
exist, where the code takes a maximum or a minimum: a set of numbers has a least one (`LeastOf`),
also when it is not finite.

### Pipelines and workflow runs

`PlansAreOrdered` is about the operators of `Pipeline`: whatever a template says, a plan has
every step once and each after those it depends on. The order is injective into as many ids as
it has places, hence onto them, so a dependency has a place, and its round is an earlier one.

`TypeCorrect`, `SavedTellsWhatRanAlways`, `DependenciesRanFirstAlways` and `OnlyWorkIsKeptAlways`
are for any number of runs on any surface, from the assumptions on the constants, among them that
skills are finitely many. The invariant is one of each run: the todos are those of a plan
(`PlanInv`); those before the current one are done and ran once, those behind it are pending and
did not run (`RanInv`); the label, the result and what is on the wire tell whether the tool of the
current one can still run (`AtInv`); and what the run left behind is of finished work and repeats
its todos (`KeptInv`). A request whose caller timed out may be served at any later time; `AtInv`
says that its run is then at that todo for good. The types need that the result is there when it
is answered (`ResultsAreThere`) and that one of finitely many ranked skills comes first
(`FirstOfRanked`).

### Model-checked only

The liveness properties: `TasksComplete`, `NewestIsApplied`, `RebuildsRepair`, `RunsAreAnswered`,
`StartsSucceed` and `CallersAreReleased`. Liveness under fairness rests on ENABLED, which is
beyond the provers used here. So are the two disagreements that the violation runs show. Of the
operators, what `graphlib` makes of a template (`Rounds`: that one exists when there is no cycle)
is evaluated on the templates of the run only, since it takes an induction over the steps; the
theorems hold for whatever it gives.

## 5. Divergences without a run

Behaviour of the code, seen while modelling it, that differs from what a reader of its
docs, comments or tables would expect. The models have it as the code does it; the
properties above are stated so that they hold with it.

- `create_approval` reads a task and calls `transition_task_state`, whose SELECT and UPDATE
  (`queue_repo.py:227`, `:232`) a worker may come between: PENDING_APPROVAL is written over
  COMPLETED, which `ALLOWED_TASK_TRANSITIONS` (`queue_repo.py:15`) does not list.
- An approval inserted between the decision and the transition of `approve_task`
  (`queue_repo.py:355`) is pending while its task is released and handed out.
- `call_tool` turns a `KeyError` and a `ValueError` of a tool into a failure (`adapters.py:643`);
  anything else, a `TypeError` or an error of the file system or of SQLite, ends the daemon with
  its worker and its bridge. The task stays leased until the lease expires, and is claimed again.
- A lease row of a worker that died between the commit of `complete_task` and the DELETE stays in
  `control.db` for good: a sweep goes by the leases of the tasks table.
- A task whose rerolls are exhausted gets a dead letter (`execution_loop.py:46`) and stays in
  PLANNING: it is claimed again, and as the oldest one before every other.
- A rollback goes by snapshot rows alone (`patching/rollback.py:21`): after a run that stopped
  before git wrote anything it deletes a file that somebody else created since. It looks at
  neither the status of the run nor `rollback_available`, so a restore may fall between the tests
  and the last row of an apply; an approval is not consumed by an apply.
- `_affected_paths` reads the lines that begin with `--- ` and `+++ `
  (`patching/validation.py:75`), but `git apply` also executes sections that have none: a pure
  rename or copy, a change of mode, an empty file made or deleted. Such a file is written without
  a path check and a snapshot, and a rollback leaves it as it is (a removed line that begins with
  `-- ` is, the other way round, taken for a path), while
  `backend/Aletheia_BACKEND_README.md:256` has an apply "snapshot affected files".
- The watcher takes what it applied from keys that the answer does not have
  (`active_partition/watcher.py:108`, `active_partition/models.py:44`), so that it applies the
  newest conversation again at every poll, over whatever was switched by hand since.
- The metadata of a memory go to Chroma as the caller gave them (`adapters.py:358`,
  `memory/service.py:68`, `:124`). Chroma takes no list and no object there, so that such a row is
  marked failed and fails in each rebuild, in which it takes a place of the limit.
  `patching/apply.py:224` passes the list of affected paths itself. (Which values are refused
  depends on the release of `chromadb`, which `pyproject.toml` does not fix.)
- A pipeline that the registry has quarantined or disabled runs nevertheless: neither the daemon
  (`adapters.py:386`) nor the command line passes a `capability_registry` to
  `run_agent_workflow`, while `docs/code-review-operator-contract.md:105` lists
  `capability_policy_block`. The import at each start also overwrites what an operator set
  (`capabilities/loader.py:98`).
- The contract of `code_review` names `mcp_agent_workflow_run` as its surface
  (`docs/code-review-operator-contract.md:5`), but `_workflow_tool_client`
  (`adapters.py:253`) allows the `mcp_investigation_*` tools only, so that such a run in the daemon
  ends with `tool_not_allowed`.
- Node signs the text as UTF-8 (`backend/node-mcp/src/bridge.mjs:27`), Python with escapes
  (`bridge_server.py:48`): a call of the gateway with letters outside ASCII, or with a number
  below 0.0001, such as a `confidence_score`, which Node writes as 0.00001 and Python as 1e-05, is
  refused (`backend/README.md:62` says that calls are forwarded with an HMAC envelope). The shim
  and `Invoke-AletheiaTool.ps1` never sign, and are refused wherever a secret is set.
- `validateValue` of `contracts.mjs` ignores the type `array`, so `focus_paths: 5` passes and
  raises a `TypeError` in `call_mcp_tool`: the connection is closed without an answer, which the
  gateway, without a handler for the end of a connection, waits out for 30 seconds; and
  `serveStdio` writes no response for a rejected call. A line above the 64 KiB limit of `readline`
  ends in the same way, and "Request too large" is never answered.
- The shim forwards an empty `conversation_path` (`backend/lmstudio_fastmcp_shim.py:278`), which
  the gateway would refuse; `call_mcp_tool` turns it down (`adapters.py:300`).
- A tool is in the tables of one program and not of another: `REQUIRED_ARGS` lacks
  `mcp_extract_image`, `mcp_sandbox_probe` is never configured by `build_runtime`, and the
  surfaces in `tool_manifest.json` disagree with the contracts and the shim.
- A step in the same round as the handoff and behind it is not run, and the run answers COMPLETE.
  An exception leaves the answer ERROR, with an empty run id, and the file in its last phase. A
  request whose caller timed out is served all the same.
- A skill with a bad manifest is quarantined under the name of its directory and not under its id.
- A snapshot whose indexing failed, and a stale path whose delete in Chroma failed, are never
  tried again.

## 6. Not modelled, and the plan

- Worker registry and `RecoveryService`: the worker registers and sends heartbeats
  (`worker.py:40`, `:43`), and `daemon.health` lists its row (`runtime.py:63`). Only
  `recover_once` acts on it, and nothing but the tests calls that.
- Generation, validation and audit of patches: pattern matches on text; a diff they refuse
  is a member of `Unsafe` in `PatchApply`.
- `approvals/policy.py`, sandbox and shell: checks of a single call that keep no state, and a
  subprocess.
- Research, deep research, code review, code intelligence, candidate analysis:
  sequential report builders over the inputs of one run. Integrations are stubs and tables.
- Configuration, observability, OCR and the rest of the admin command line read settings
  and print; its restore is in `PatchApply`.
- Generated, copied or data files: the reference copy
  `backend/aletheia_final_25_implementation_files_v0.1.0`, skill data, fixtures.

Of what is modelled, these details are out: several projects and the processors in
`Ingest`, `verify_rollback` and files that test commands write in `PatchApply`,
`clear_active_partition` (no caller), arguments of templates below their first level, adapter
manifests, the handshake of MCP.

The plan from here: abstract specifications that `Memory` (rows and vectors as one index that
catches up), `Workflow` (each tool once, in order) and `Bridge` (a call that is made at most once)
implement, with their refinement proved as that of `TaskContract` is; and of `TaskQueue` the lemma
that the rows a rejection prunes are all descendants that were there when it read them.
