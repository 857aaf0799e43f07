---------------------------- MODULE DaemonWorker ----------------------------
(***************************************************************************)
(* DaemonWorker.run_once (worker.py) with the ExecutionLoop it calls       *)
(* (execution_loop.py), as a process over the two databases.  pc[w] names  *)
(* the next transaction of worker w; "down" is a daemon that does not run. *)
(* heartbeat() writes only timestamps and the process registry, which no   *)
(* step here reads, and is part of Start and SweepQueue.                   *)
(***************************************************************************)
EXTENDS TaskQueue

VARIABLES
    pc,     \* where worker w is
    job,    \* the task row claim_ready_task returned to w
    swept,  \* task ids release_expired_leases holds between its two commits
    count,  \* reroll_count as get_task returned it to w
    \* observed by the properties only
    earned,   \* tasks of which a tool call returned a result that is not ok=False
    failures  \* failed runs of a task, up to RerollCap

workerVars   == <<pc, job, swept, count>>
observedVars == <<earned, failures>>

Label ==
    {"down", "poll", "sweepControl", "claim", "recordLease", "execute",
     "readReroll", "writeReroll", "deadLetter", "checkComplete",
     "writeComplete", "clearLease"}

\* run_once has a task and has recorded its lease.
Handling ==
    {"execute", "readReroll", "writeReroll", "deadLetter", "checkComplete",
     "writeComplete", "clearLease"}

WorkerTypeOK ==
    /\ pc \in [Worker -> Label]
    /\ job \in [Worker -> Task \cup {Nil}]
    /\ swept \in [Worker -> SUBSET Task]
    /\ count \in [Worker -> 0 .. RerollCap]
    /\ earned \subseteq Task
    /\ failures \in [Task -> 0 .. RerollCap]

WorkerInit ==
    /\ pc = [w \in Worker |-> "down"]
    /\ job = [w \in Worker |-> Nil]
    /\ swept = [w \in Worker |-> {}]
    /\ count = [w \in Worker |-> 0]
    /\ earned = {}
    /\ failures = [t \in Task |-> 0]

Capped(n) == IF n < RerollCap THEN n ELSE RerollCap

Goto(w, label) == pc' = [pc EXCEPT ![w] = label]

\* run_once is over (label "poll") or the process is (label "down").
Leave(w, label) ==
    /\ Goto(w, label)
    /\ job' = [job EXCEPT ![w] = Nil]
    /\ swept' = [swept EXCEPT ![w] = {}]
    /\ count' = [count EXCEPT ![w] = 0]

\* A step of w inside run_once that keeps its local variables.
Advance(w, from, to) ==
    /\ pc[w] = from
    /\ Goto(w, to)
    /\ UNCHANGED <<job, swept, count>>

-----------------------------------------------------------------------------
\* run_forever registers the process and enters its loop.
Start(w) ==
    /\ pc[w] = "down"
    /\ Leave(w, "poll")
    /\ UNCHANGED <<storeVars, observedVars>>

\* release_expired_leases, first commit.
SweepQueue(w) ==
    /\ pc[w] = "poll"
    /\ ReleaseExpired
    /\ swept' = [swept EXCEPT ![w] = Expired]
    /\ Goto(w, IF Expired = {} THEN "claim" ELSE "sweepControl")
    /\ UNCHANGED <<job, count, approvalVars, controlVars, observedVars>>

\* release_expired_leases, second commit: by task id, whoever owns it now.
SweepControl(w) ==
    /\ pc[w] = "sweepControl"
    /\ DeleteLeases(swept[w])
    /\ swept' = [swept EXCEPT ![w] = {}]
    /\ Goto(w, "claim")
    /\ UNCHANGED <<job, count, taskVars, approvalVars, observedVars>>

\* Mutant of Claim: the second commit, the lease row, is forgotten.
ClaimUnrecorded(w, t) ==
    /\ pc[w] = "claim"
    /\ ClaimRow(w, t)
    /\ job' = [job EXCEPT ![w] = t]
    /\ Goto(w, "execute")
    /\ UNCHANGED <<swept, count, approvalVars, controlVars, observedVars>>

\* claim_ready_task, first commit.
Claim(w, t) ==
    /\ pc[w] = "claim"
    /\ ClaimRow(w, t)
    /\ job' = [job EXCEPT ![w] = t]
    /\ Goto(w, "recordLease")
    /\ UNCHANGED <<swept, count, approvalVars, controlVars, observedVars>>

\* claim_ready_task returns None and run_once reports that it is idle.
Idle(w) ==
    /\ pc[w] = "claim"
    /\ Ready = {}
    /\ Leave(w, "poll")
    /\ UNCHANGED <<storeVars, observedVars>>

\* claim_ready_task, second commit.
RecordLease(w) ==
    /\ Advance(w, "recordLease", "execute")
    /\ InsertLease(job[w], w)
    /\ UNCHANGED <<taskVars, approvalVars, observedVars>>

\* The payload is refused: the dead letter is written, then the task completed.
RefusePayload(w) ==
    /\ job[w] \in Malformed
    /\ Advance(w, "execute", "checkComplete")
    /\ InsertDeadLetter(job[w], "invalid_task_payload")
    /\ UNCHANGED <<taskVars, approvalVars, observedVars>>

\* call_mcp_tool returns a result whose "ok" is not False.
ToolSucceeds(w) ==
    /\ job[w] \notin Malformed
    /\ Advance(w, "execute", "checkComplete")
    /\ earned' = earned \cup {job[w]}
    /\ UNCHANGED <<storeVars, failures>>

\* It returns ok = False: the task is left as it is, with its lease.
ToolDeclines(w) ==
    /\ job[w] \notin Malformed
    /\ pc[w] = "execute"
    /\ Leave(w, "poll")
    /\ UNCHANGED <<storeVars, observedVars>>

\* It raises AdapterFailure, which a KeyError or a ValueError of a tool becomes.
ToolFails(w) ==
    /\ job[w] \notin Malformed
    /\ Advance(w, "execute", "readReroll")
    /\ failures' = [failures EXCEPT ![job[w]] = Capped(@ + 1)]
    /\ UNCHANGED <<storeVars, earned>>

\* It raises anything else, a TypeError or an error of the file system or of
\* SQLite.  Nothing catches it before the gather of main.py: the daemon ends
\* and the task keeps its lease.
ToolRaises(w) ==
    /\ job[w] \notin Malformed
    /\ pc[w] = "execute"
    /\ Leave(w, "down")
    /\ UNCHANGED <<storeVars, observedVars>>

\* add_negative_constraint: get_task through one connection ...
ReadReroll(w) ==
    /\ pc[w] = "readReroll"
    /\ count' = [count EXCEPT ![w] = rerolls[job[w]]]
    /\ Goto(w, "writeReroll")
    /\ UNCHANGED <<job, swept, storeVars, observedVars>>

\* Mutant of StoreReroll: >= for >.
StoreRerollEarly(w) ==
    LET rerollCount == Capped(count[w] + 1) IN
    /\ pc[w] = "writeReroll"
    /\ WriteReroll(job[w], rerollCount)
    /\ IF rerollCount >= MaxRerolls
       THEN Goto(w, "deadLetter") /\ UNCHANGED <<job, swept, count>>
       ELSE Leave(w, "poll")
    /\ UNCHANGED <<approvalVars, controlVars, observedVars>>

\* ... and the UPDATE through another, whoever holds the lease by then.
StoreReroll(w) ==
    LET rerollCount == Capped(count[w] + 1) IN
    /\ pc[w] = "writeReroll"
    /\ WriteReroll(job[w], rerollCount)
    /\ IF rerollCount > MaxRerolls
       THEN Goto(w, "deadLetter") /\ UNCHANGED <<job, swept, count>>
       ELSE Leave(w, "poll")
    /\ UNCHANGED <<approvalVars, controlVars, observedVars>>

\* The reroll limit is exhausted.  The task row is not touched.
DeadLetter(w) ==
    /\ pc[w] = "deadLetter"
    /\ InsertDeadLetter(job[w], "reroll_limit_exhausted")
    /\ Leave(w, "poll")
    /\ UNCHANGED <<taskVars, approvalVars, observedVars>>

\* complete_task: SELECT state.  The ValueError leaves run_once, run_forever
\* and the gather of main.py: the daemon ends.
CheckComplete(w) ==
    /\ pc[w] = "checkComplete"
    /\ IF <<state[job[w]], "COMPLETED">> \in AllowedTransitions
       THEN Advance(w, "checkComplete", "writeComplete")
       ELSE Leave(w, "down")
    /\ UNCHANGED <<storeVars, observedVars>>

\* complete_task: the UPDATE and its event, first commit.
Complete(w) ==
    /\ Advance(w, "writeComplete", "clearLease")
    /\ WriteCompleted(job[w])
    /\ UNCHANGED <<approvalVars, controlVars, observedVars>>

\* complete_task, second commit.
ClearLease(w) ==
    /\ pc[w] = "clearLease"
    /\ DeleteLeases({job[w]})
    /\ Leave(w, "poll")
    /\ UNCHANGED <<taskVars, approvalVars, observedVars>>

\* The process dies between two commits, or a database refuses one of them.
Crash(w) ==
    /\ pc[w] # "down"
    /\ Leave(w, "down")
    /\ UNCHANGED <<storeVars, observedVars>>

RunOnce(w) ==
    \/ SweepQueue(w) \/ SweepControl(w)
    \/ (\E t \in Task : Claim(w, t)) \/ Idle(w) \/ RecordLease(w)
    \/ RefusePayload(w) \/ ToolSucceeds(w) \/ ToolDeclines(w) \/ ToolFails(w)
    \/ ToolRaises(w) \/ ReadReroll(w) \/ StoreReroll(w) \/ DeadLetter(w)
    \/ CheckComplete(w) \/ Complete(w) \/ ClearLease(w)
=============================================================================
