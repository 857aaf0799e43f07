------------------------------- MODULE Daemon -------------------------------
(***************************************************************************)
(* Daemons, approval gates and the callers that insert tasks, over one     *)
(* queue.db and one control.db.  main.py starts one bridge and one worker  *)
(* per process; nothing keeps two daemons or a script with an ApprovalGate *)
(* off the same state directory, and the leases are there for that.        *)
(***************************************************************************)
EXTENDS DaemonWorker, ApprovalGate

vars == <<storeVars, workerVars, observedVars, gateVars>>

Init == StoreInit /\ WorkerInit /\ GateInit

\* QueueRepository.create_task.
CreateTask(t, p) ==
    /\ InsertTask(t, p)
    /\ UNCHANGED <<approvalVars, controlVars, workerVars, observedVars, gateVars>>

Tick ==
    /\ Elapse
    /\ UNCHANGED <<approvalVars, controlVars, workerVars, observedVars, gateVars>>

WorkerStep(w) == (Start(w) \/ RunOnce(w) \/ Crash(w)) /\ UNCHANGED gateVars
GateAction(g) == GateStep(g) /\ UNCHANGED <<workerVars, observedVars>>

Next ==
    \/ \E t \in Task, p \in Task \cup {Nil} : CreateTask(t, p)
    \/ Tick
    \/ \E w \in Worker : WorkerStep(w)
    \/ \E g \in Gate : GateAction(g)

Spec == Init /\ [][Next]_vars

TypeOK == StoreTypeOK /\ WorkerTypeOK /\ GateTypeOK

-----------------------------------------------------------------------------
(* The promise of the queue. *)

Refused == {t \in Task : <<t, "invalid_task_payload">> \in deadLetters}

Handled == {job[w] : w \in {v \in Worker : pc[v] \in Handling}}

Contract == INSTANCE TaskContract WITH
    known     <- Created,
    needs     <- parent,
    handled   <- Handled,
    reported  <- earned \cup Refused,
    completed <- completions

\* The daemons, whatever crashes, expires or runs twice, keep TaskContract:
\* no task is handled before its parent was completed, and none is completed
\* without a result of its own (queue_repo.py claim_ready_task, worker.py
\* run_once).
KeepsContract == Contract!Spec

\* Why KeepsContract holds.  Every state COMPLETED has its task event, which
\* stays when an approval moves the state on; a worker has a job exactly when
\* its label says so; the parent of a job had been completed when it was
\* claimed; a worker that is about to complete its job has a result; and the
\* call of a gate is about a task that exists and never completes it.
CompletionsLogged ==
    \A t \in Task : state[t] = "COMPLETED" => t \in completions
JobsMatchLabels ==
    \A w \in Worker : job[w] # Nil <=> pc[w] \in Handling \cup {"recordLease"}
JobsInOrder ==
    \A w \in Worker : job[w] # Nil =>
        /\ job[w] \in Created
        /\ parent[job[w]] # Nil => parent[job[w]] \in completions
ResultsFirst ==
    \A w \in Worker :
        pc[w] \in {"checkComplete", "writeComplete"} => job[w] \in earned \cup Refused
CallsMatchLabels ==
    \A g \in Gate :
        /\ at[g] # "idle" => target[g] \in Created
        /\ at[g] = "insertApproval" => ticket[g] \in Approval
        /\ at[g] \in {"insertApproval", "checkTransition", "writeTransition"} =>
             move[g] \in TaskState \X {"PLANNING", "PENDING_APPROVAL"}

OrderInv ==
    CompletionsLogged /\ JobsMatchLabels /\ JobsInOrder /\ ResultsFirst /\ CallsMatchLabels

\* A task that is completed, rejected or pruned is not leased to anyone:
\* complete_task, reject_and_prune and claim_ready_task agree on it although
\* each compares different columns, so no worker ever waits for the expiry of
\* a lease on work that is over.
TerminalUnleased ==
    \A t \in Task : (state[t] = "COMPLETED" \/ resolution[t] # "ACTIVE") => owner[t] = Nil

\* A task is dead-lettered for its rerolls only after it failed more than
\* max_rerolls times, although handle_validation_failure counts by a read and
\* a later write that other workers may come between.
DeadLetterJustified ==
    \A t \in Task :
        <<t, "reroll_limit_exhausted">> \in deadLetters => failures[t] = RerollCap

-----------------------------------------------------------------------------
(* One daemon on the state directory, as main.py deploys it. *)

\* While the only worker executes a task it still owns, control.db has the
\* lease row an operator would look for (claim_ready_task commits it second,
\* release_expired_leases and reject_and_prune delete rows by task id).
OwnerHasLeaseRow ==
    \A w \in Worker :
        (pc[w] = "execute" /\ owner[job[w]] = w) => <<job[w], w>> \in leases

-----------------------------------------------------------------------------
(* Approvals. *)

\* A task waits for approval only if there is an approval row to decide or
\* already decided (create_approval inserts it before it moves the task).
PendingHasApproval ==
    \A t \in Task : state[t] = "PENDING_APPROVAL" => \E a \in Approval : approvalTask[a] = t

\* When a task goes from PENDING_APPROVAL back to PLANNING, it is by the call of
\* approve_task of some process, and that call has decided every approval of the
\* task that was in the table when it decided.  An approval that create_approval
\* inserts between the decision and the transition may be left undecided: the
\* two are commits of their own, and the transition looks at the state alone.
ReleaseDecides ==
    [][\A t \in Task :
        state[t] = "PENDING_APPROVAL" /\ state'[t] = "PLANNING" =>
            \E g \in Decider :
                /\ at[g] = "writeTransition" /\ target[g] = t
                /\ PendingOf(t) \cap seen[g] = {}]_vars

\* A rejection is final: the resolution never becomes ACTIVE again, and no
\* worker is given a task that, or whose parent, is not ACTIVE; a child that
\* was inserted after reject_and_prune read the descendants is not an exception.
NotActive(t) == resolution[t] # "ACTIVE"
RejectionFinal ==
    [][\A t \in Task :
        /\ NotActive(t) => NotActive(t)'
        /\ NotActive(t) \/ (parent[t] # Nil /\ NotActive(parent[t])) =>
             (owner'[t] # Nil => owner[t] # Nil)]_vars

\* With one process that decides, whoever else asks for approvals, a coroutine
\* whose approval was decided has been woken: its event is set, unless a worker
\* that was already executing the task completed it under the approval
\* (authorize then raises before it reaches the event).
DecidedWaitersSignalled ==
    \A g \in Gate, t \in Task :
        (/\ waiter[g][t].status = "waiting"
         /\ at[g] = "idle"
         /\ t \notin completions
         /\ \E a \in waiter[g][t].awaited : decision[a] # "PENDING")
            => t \in signalled[g]

-----------------------------------------------------------------------------
(* What the documentation and the tests say, and the code does not do. *)

\* On a task that was not rejected, a wait_for_approval that found an approval
\* pending ends without a timeout only after one of those it found has been
\* decided.
WaitEndsDecided ==
    \A g \in Gate, t \in Task :
        (/\ waiter[g][t].status = "released"
         /\ resolution[t] = "ACTIVE"
         /\ waiter[g][t].awaited # {})
            => \E a \in waiter[g][t].awaited : decision[a] # "PENDING"

-----------------------------------------------------------------------------
(* Progress. *)

\* Every daemon keeps running, or is started again; a tool that is called
\* again and again does not fail for ever.
Fairness ==
    /\ WF_vars(Tick)
    /\ \A w \in Worker :
        /\ WF_vars((Start(w) \/ RunOnce(w)) /\ UNCHANGED gateVars)
        /\ \A t \in Task : SF_vars(job[w] = t /\ ToolSucceeds(w) /\ UNCHANGED gateVars)

FairSpec == Spec /\ Fairness

\* A process that ends other than by the ValueError of complete_task or by the
\* exception of a tool.
Crashing(w) == Crash(w) /\ ~CheckComplete(w) /\ ~ToolRaises(w)

CrashesStop == <>[][\A w \in Worker : ~Crashing(w)]_vars

\* If processes eventually stop crashing, every inserted task whose ancestors
\* are not rejected is completed: what a dead daemon had claimed is released
\* when its lease expires and handled by another one, or by itself restarted.
TasksComplete ==
    CrashesStop => \A t \in Task : state[t] = "PLANNING" ~> state[t] = "COMPLETED"
=============================================================================
