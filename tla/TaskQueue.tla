------------------------------ MODULE TaskQueue ------------------------------
(***************************************************************************)
(* The two SQLite databases of the orchestrator as QueueRepository         *)
(* (queue_repo.py) writes them.  queue.db holds the task DAG, the task     *)
(* events and the approvals; control.db holds the lease rows and the dead  *)
(* letters.  One action below is ONE committed transaction of ONE          *)
(* database: a repository method that commits twice, or that reads through *)
(* one connection and writes through another, is a sequence of these taken *)
(* by a process with a program counter (DaemonWorker, ApprovalGate), so    *)
(* that other processes and crashes can come in between.                   *)
(***************************************************************************)
EXTENDS Integers, FiniteSets

CONSTANTS
    Task,        \* task ids
    Worker,      \* worker ids (one per daemon process)
    Approval,    \* approval ids
    Nil,         \* SQL NULL
    Malformed,   \* the tasks whose payload_json is not {tool: str, args: dict}
    LeaseTicks,  \* lease_seconds in clock ticks
    MaxRerolls   \* ExecutionLoop.max_rerolls

ASSUME ConstantsOK ==
    /\ IsFiniteSet(Task)
    /\ Nil \notin Task \cup Worker
    /\ Malformed \subseteq Task
    /\ LeaseTicks \in Nat
    /\ MaxRerolls \in Nat

VARIABLES
    \* queue.db
    state,        \* tasks.state, or "NONE" while the row does not exist
    resolution,   \* tasks.resolution
    parent,       \* the one task_edges row of a task, or Nil
    born,         \* the rank of tasks.created_at
    owner,        \* tasks.lease_owner
    ttl,          \* ticks left until tasks.lease_expires_at; -1: it is past
    rerolls,      \* tasks.reroll_count, up to RerollCap
    completions,  \* tasks with a task_events row that says to_state COMPLETED
    approvalTask, \* approvals.task_id, or Nil while the row does not exist
    decision,     \* approvals.decision
    \* control.db
    leases,       \* leases rows as <<task, worker>>
    deadLetters   \* dead_letters rows as <<task, reason>>

taskVars     == <<state, resolution, parent, born, owner, ttl, rerolls, completions>>
approvalVars == <<approvalTask, decision>>
controlVars  == <<leases, deadLetters>>
storeVars    == <<taskVars, approvalVars, controlVars>>

TaskState  == {"PLANNING", "PENDING_APPROVAL", "COMPLETED"}
Resolution == {"ACTIVE", "REJECTED", "CASCADE_PRUNED"}
Decision   == {"PENDING", "APPROVED", "REJECTED"}
Reason     == {"invalid_task_payload", "reroll_limit_exhausted"}

\* Only reroll_count > max_rerolls is ever asked of the counter.
RerollCap == MaxRerolls + 1

AllowedTransitions ==
    { <<"PLANNING", "PENDING_APPROVAL">>, <<"PLANNING", "COMPLETED">>,
      <<"PENDING_APPROVAL", "PLANNING">>, <<"PENDING_APPROVAL", "COMPLETED">> }

StoreTypeOK ==
    /\ state \in [Task -> TaskState \cup {"NONE"}]
    /\ resolution \in [Task -> Resolution]
    /\ parent \in [Task -> Task \cup {Nil}]
    /\ born \in [Task -> Nat]
    /\ owner \in [Task -> Worker \cup {Nil}]
    /\ ttl \in [Task -> -1 .. LeaseTicks]
    /\ rerolls \in [Task -> 0 .. RerollCap]
    /\ completions \subseteq Task
    /\ approvalTask \in [Approval -> Task \cup {Nil}]
    /\ decision \in [Approval -> Decision]
    /\ leases \subseteq Task \X Worker
    /\ deadLetters \subseteq Task \X Reason

\* The databases as bootstrap_databases leaves them: every table is empty.
StoreInit ==
    /\ state = [t \in Task |-> "NONE"]
    /\ resolution = [t \in Task |-> "ACTIVE"]
    /\ parent = [t \in Task |-> Nil]
    /\ born = [t \in Task |-> 0]
    /\ owner = [t \in Task |-> Nil]
    /\ ttl = [t \in Task |-> -1]
    /\ rerolls = [t \in Task |-> 0]
    /\ completions = {}
    /\ approvalTask = [a \in Approval |-> Nil]
    /\ decision = [a \in Approval |-> "PENDING"]
    /\ leases = {}
    /\ deadLetters = {}

-----------------------------------------------------------------------------
(* What the queries compute. *)

Created == {t \in Task : state[t] # "NONE"}
\* Mutant of Expired: the sweep looks for the lease row of control.db.
ExpiredWithLeaseRow == {t \in Task : owner[t] # Nil /\ ttl[t] < 0 /\ <<t, owner[t]>> \in leases}
Expired == {t \in Task : owner[t] # Nil /\ ttl[t] < 0}

\* Mutants of Ready: one of the two conditions of the join on the parent is missing.
ReadyWhateverParentState ==
    {t \in Task :
        /\ state[t] = "PLANNING" /\ resolution[t] = "ACTIVE" /\ owner[t] = Nil
        /\ parent[t] # Nil => resolution[parent[t]] = "ACTIVE"}
ReadyWhateverParentResolution ==
    {t \in Task :
        /\ state[t] = "PLANNING" /\ resolution[t] = "ACTIVE" /\ owner[t] = Nil
        /\ parent[t] # Nil => state[parent[t]] = "COMPLETED"}

\* The rows claim_ready_task selects from.
Ready ==
    {t \in Task :
        /\ state[t] = "PLANNING"
        /\ resolution[t] = "ACTIVE"
        /\ owner[t] = Nil
        /\ parent[t] # Nil => /\ state[parent[t]] = "COMPLETED"
                              /\ resolution[parent[t]] = "ACTIVE"}

\* The least set that holds the children of t and of its own members.
Descendants(t) ==
    {u \in Task : \A S \in SUBSET Task :
        (\A v \in Task : parent[v] \in S \cup {t} => v \in S) => u \in S}

\* Every task of S loses its lease, as each UPDATE of the tasks table does it.
DropLeases(S) ==
    /\ owner' = [t \in Task |-> IF t \in S THEN Nil ELSE owner[t]]
    /\ ttl' = [t \in Task |-> IF t \in S THEN -1 ELSE ttl[t]]

-----------------------------------------------------------------------------
(* Transactions on queue.db. *)

\* The foreign key on parent_task_id refuses a parent that does not exist,
\* and nothing else about the parent is looked at.
InsertTask(t, p) ==
    /\ state[t] = "NONE"
    /\ p # Nil => state[p] # "NONE"
    /\ state' = [state EXCEPT ![t] = "PLANNING"]
    /\ parent' = [parent EXCEPT ![t] = p]
    /\ born' = [born EXCEPT ![t] = Cardinality(Created)]
    /\ UNCHANGED <<resolution, owner, ttl, rerolls, completions>>

\* BEGIN IMMEDIATE makes the selection and the update one transaction.
ClaimRow(w, t) ==
    /\ t \in Ready
    /\ \A u \in Ready : born[t] <= born[u]
    /\ owner' = [owner EXCEPT ![t] = w]
    /\ ttl' = [ttl EXCEPT ![t] = LeaseTicks]
    /\ UNCHANGED <<state, resolution, parent, born, rerolls, completions>>

ReleaseExpired ==
    /\ DropLeases(Expired)
    /\ UNCHANGED <<state, resolution, parent, born, rerolls, completions>>

\* The UPDATE of transition_task_state: the state is written whatever it is
\* by now, the lease is left alone.
WriteState(t, to) ==
    /\ state' = [state EXCEPT ![t] = to]
    /\ completions' = IF to = "COMPLETED" THEN completions \cup {t} ELSE completions
    /\ UNCHANGED <<resolution, parent, born, owner, ttl, rerolls>>

\* Mutants of WriteCompleted: the event is not logged, the lease is not cleared.
WriteCompletedUnlogged(t) ==
    /\ state' = [state EXCEPT ![t] = "COMPLETED"]
    /\ DropLeases({t})
    /\ UNCHANGED <<resolution, parent, born, rerolls, completions>>
WriteCompletedLeased(t) ==
    /\ state' = [state EXCEPT ![t] = "COMPLETED"]
    /\ completions' = completions \cup {t}
    /\ UNCHANGED <<resolution, parent, born, rerolls, owner, ttl>>

\* The UPDATE of complete_task and its event: neither the resolution nor the lease owner
\* is compared with the caller.
WriteCompleted(t) ==
    /\ state' = [state EXCEPT ![t] = "COMPLETED"]
    /\ DropLeases({t})
    /\ completions' = completions \cup {t}
    /\ UNCHANGED <<resolution, parent, born, rerolls>>

\* Mutant of PruneRows: the pruned descendants keep their leases.
PruneRowsLeased(t, descendants) ==
    LET pruned == {u \in descendants : resolution[u] = "ACTIVE"} IN
    /\ resolution' = [u \in Task |-> IF u = t THEN "REJECTED"
                                     ELSE IF u \in pruned THEN "CASCADE_PRUNED"
                                     ELSE resolution[u]]
    /\ DropLeases({t})
    /\ UNCHANGED <<state, parent, born, rerolls, completions>>

\* The UPDATEs of reject_and_prune, for the descendants read beforehand.
PruneRows(t, descendants) ==
    LET pruned == {u \in descendants : resolution[u] = "ACTIVE"} IN
    /\ resolution' = [u \in Task |-> IF u = t THEN "REJECTED"
                                     ELSE IF u \in pruned THEN "CASCADE_PRUNED"
                                     ELSE resolution[u]]
    /\ DropLeases({t} \cup pruned)
    /\ UNCHANGED <<state, parent, born, rerolls, completions>>

\* The UPDATE of add_negative_constraint, from the reroll_count read before.
WriteReroll(t, count) ==
    /\ rerolls' = [rerolls EXCEPT ![t] = count]
    /\ DropLeases({t})
    /\ UNCHANGED <<state, resolution, parent, born, completions>>

InsertApproval(a, t) ==
    /\ approvalTask' = [approvalTask EXCEPT ![a] = t]
    /\ UNCHANGED decision

\* UPDATE approvals ... WHERE task_id = t AND decision = 'PENDING'.
Decide(t, verdict) ==
    /\ decision' = [a \in Approval |->
                       IF approvalTask[a] = t /\ decision[a] = "PENDING"
                       THEN verdict ELSE decision[a]]
    /\ UNCHANGED approvalTask

-----------------------------------------------------------------------------
(* Transactions on control.db. *)

\* Mutant of InsertLease: the two parameters of the INSERT are swapped.
InsertLeaseSwapped(t, w) == leases' = leases \cup {<<w, t>>} /\ UNCHANGED deadLetters

InsertLease(t, w)   == leases' = leases \cup {<<t, w>>} /\ UNCHANGED deadLetters
DeleteLeases(S)     == leases' = {l \in leases : l[1] \notin S} /\ UNCHANGED deadLetters
InsertDeadLetter(t, reason) ==
    deadLetters' = deadLetters \cup {<<t, reason>>} /\ UNCHANGED leases

-----------------------------------------------------------------------------
(* The wall clock: one tick brings every lease closer to its expiry. *)

Elapse ==
    /\ ttl' = [t \in Task |-> IF owner[t] # Nil /\ ttl[t] >= 0
                              THEN ttl[t] - 1 ELSE ttl[t]]
    /\ UNCHANGED <<state, resolution, parent, born, owner, rerolls, completions>>
=============================================================================
