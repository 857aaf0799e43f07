-------------------------- MODULE DaemonRefinement --------------------------
(***************************************************************************)
(* Daemon implements TaskContract for every set of tasks, workers, gates   *)
(* and approvals: each step of a worker or a gate is a step of the         *)
(* contract or leaves its variables alone.                                 *)
(***************************************************************************)
EXTENDS DaemonProofs

USE DEF Label, Handling

Reported == earned \cup Refused

\* What the contract sees of a step.
Unseen == UNCHANGED <<Created, parent, Handled, Reported, completions>>

\* A step the contract does not see is a stutter of it.
LEMMA UnseenStutters == Unseen => UNCHANGED Contract!vars
  BY DEF Unseen, Contract!vars, Reported

-----------------------------------------------------------------------------
(* The set of handled tasks, from the label and the job of one worker. *)

\* A worker that goes on with its job goes on handling it.
LEMMA HandledStays ==
  ASSUME WorkerTypeOK, NEW w \in Worker, NEW l \in Label, pc' = [pc EXCEPT ![w] = l],
         UNCHANGED job, pc[w] \in Handling <=> l \in Handling
  PROVE  Handled' = Handled
  BY DEF WorkerTypeOK, Handled

\* A worker that recorded its lease begins to handle its job.
LEMMA HandledStarts ==
  ASSUME WorkerTypeOK, NEW w \in Worker, NEW l \in Handling, pc' = [pc EXCEPT ![w] = l],
         UNCHANGED job, pc[w] \notin Handling
  PROVE  Handled' = Handled \cup {job[w]}
  BY DEF WorkerTypeOK, Handled

\* A worker that sweeps, claims or idles handles nothing before or after.
LEMMA HandledOutside ==
  ASSUME WorkerTypeOK, NEW w \in Worker, NEW l \in Label \ Handling, pc' = [pc EXCEPT ![w] = l],
         NEW j, job' = [job EXCEPT ![w] = j], pc[w] \notin Handling
  PROVE  Handled' = Handled
  BY DEF WorkerTypeOK, Handled

\* Another worker may be handling the same task after a lease expired.
LEMMA HandledLeaves ==
  ASSUME WorkerTypeOK, NEW w \in Worker, NEW l \in {"poll", "down"}, Leave(w, l)
  PROVE  Handled' = Handled \/ (pc[w] \in Handling /\ Handled' = Handled \ {job[w]})
  <1> USE DEF WorkerTypeOK, Handled, Leave, Goto
  <1>1. CASE pc[w] \notin Handling
    BY <1>1
  <1>2. CASE pc[w] \in Handling /\ \E v \in Worker \ {w} : pc[v] \in Handling /\ job[v] = job[w]
    BY <1>2
  <1>3. CASE pc[w] \in Handling /\ \A v \in Worker \ {w} : pc[v] \in Handling => job[v] # job[w]
    BY <1>3
  <1> QED
    BY <1>1, <1>2, <1>3

\* run_once that ends, or dies, gives its task up unless another worker has it too.
LEMMA LeavingIsGivingUp ==
  ASSUME Inv, NEW w \in Worker, NEW l \in {"poll", "down"}, Leave(w, l),
         UNCHANGED <<Created, parent, Reported, completions>>
  PROVE  [Contract!Next]_Contract!vars
  <1>1. CASE Handled' = Handled
    BY <1>1, UnseenStutters DEF Unseen
  <1>2. CASE pc[w] \in Handling /\ Handled' = Handled \ {job[w]}
    <2>1. job[w] \in Task
      BY <1>2, JobIsTask DEF Created
    <2>2. Contract!GiveUp(job[w])
      BY <1>2 DEF Contract!GiveUp, Reported
    <2> QED
      BY <2>1, <2>2 DEF Contract!Next
  <1> QED
    BY <1>1, <1>2, HandledLeaves DEF Inv, TypeOK

-----------------------------------------------------------------------------
\* The initial states of the daemon are initial states of the contract.
LEMMA InitContract == Init => Contract!Init
  BY DEF Init, StoreInit, WorkerInit, Contract!Init, Created, Handled, Refused

\* create_task is Insert: the foreign key asks for the parent to exist.
LEMMA CreateTaskContract ==
  ASSUME Inv, NEW t \in Task, NEW p \in Task \cup {Nil}, CreateTask(t, p)
  PROVE  Contract!Next
  <1> USE DEF CreateTask, InsertTask, controlVars, workerVars, observedVars
  <1>1. Created' = Created \cup {t}
    BY DEF Created, Inv, TypeOK, StoreTypeOK
  <1>2. t \notin Created /\ p \in Created \cup {Nil}
    BY DEF Created
  <1>3. Handled' = Handled /\ Refused' = Refused
    BY DEF Handled, Refused
  <1>4. Contract!Insert(t, p)
    BY <1>1, <1>2, <1>3 DEF Contract!Insert
  <1> QED
    BY <1>4 DEF Contract!Next

\* Each step of run_once is a step of the contract or a stutter: RecordLease begins,
\* a tool that answers or a refused payload reports, complete_task finishes, and
\* every return gives up.
LEMMA WorkerContract ==
  ASSUME Inv, NEW w \in Worker, WorkerStep(w)
  PROVE  [Contract!Next]_Contract!vars
  <1>a. WorkerTypeOK /\ StoreTypeOK
    BY DEF Inv, TypeOK
  <1>b. ASSUME UNCHANGED <<taskVars, observedVars>>, UNCHANGED deadLetters
        PROVE  UNCHANGED <<Created, parent, Reported, completions>>
    BY <1>b DEF taskVars, observedVars, Created, Reported, Refused
  <1> USE <1>a DEF storeVars, controlVars
  \* Steps the contract does not see.
  <1>1. CASE Start(w)
    BY <1>1, <1>b, LeavingIsGivingUp DEF Start
  <1>2. CASE SweepQueue(w)
    <2>1. Handled' = Handled
      BY <1>2, HandledStays DEF SweepQueue, Goto
    <2>2. UNCHANGED <<Created, parent, Reported, completions>>
      BY <1>2 DEF SweepQueue, ReleaseExpired, Created, Reported, Refused, observedVars
    <2> QED
      BY <2>1, <2>2, UnseenStutters DEF Unseen
  <1>3. CASE SweepControl(w)
    <2>1. Handled' = Handled
      BY <1>3, HandledStays DEF SweepControl, Goto
    <2>2. UNCHANGED <<Created, parent, Reported, completions>>
      BY <1>3, <1>b DEF SweepControl, DeleteLeases
    <2> QED
      BY <2>1, <2>2, UnseenStutters DEF Unseen
  <1>4. ASSUME NEW t \in Task, Claim(w, t) PROVE [Contract!Next]_Contract!vars
    <2>1. Handled' = Handled
      BY <1>4, HandledOutside DEF Claim, Goto
    <2>2. UNCHANGED <<Created, parent, Reported, completions>>
      BY <1>4 DEF Claim, ClaimRow, Created, Reported, Refused, observedVars
    <2> QED
      BY <2>1, <2>2, UnseenStutters DEF Unseen
  <1>5. CASE ToolFails(w)
    <2>1. Handled' = Handled
      BY <1>5, HandledStays DEF ToolFails, Advance, Goto
    <2>2. UNCHANGED <<Created, parent, Reported, completions>>
      BY <1>5 DEF ToolFails, taskVars, Created, Reported, Refused
    <2> QED
      BY <2>1, <2>2, UnseenStutters DEF Unseen
  <1>6. CASE ReadReroll(w)
    <2>1. Handled' = Handled
      BY <1>6, HandledStays DEF ReadReroll, Goto
    <2> QED
      BY <2>1, <1>6, <1>b, UnseenStutters DEF ReadReroll, Unseen
  \* Steps that end run_once before the task is completed, or after it.
  <1>7. CASE Idle(w)
    BY <1>7, <1>b, LeavingIsGivingUp DEF Idle
  <1>8. CASE ToolDeclines(w)
    BY <1>8, <1>b, LeavingIsGivingUp DEF ToolDeclines
  <1>9. CASE StoreReroll(w)
    <2>1. UNCHANGED <<Created, parent, Reported, completions>>
      BY <1>9 DEF StoreReroll, WriteReroll, Created, Reported, Refused, observedVars
    <2>2. CASE Leave(w, "poll")
      BY <2>1, <2>2, LeavingIsGivingUp
    <2>3. CASE Goto(w, "deadLetter") /\ UNCHANGED job
      <3>1. Handled' = Handled
        BY <2>3, <1>9, HandledStays DEF StoreReroll, Goto
      <3> QED
        BY <3>1, <2>1, UnseenStutters DEF Unseen
    <2> QED
      BY <1>9, <2>2, <2>3 DEF StoreReroll
  <1>10. CASE DeadLetter(w)
    <2>1. UNCHANGED <<Created, parent, Reported, completions>>
      BY <1>10 DEF DeadLetter, InsertDeadLetter, taskVars, observedVars, Created, Reported, Refused
    <2> QED
      BY <1>10, <2>1, LeavingIsGivingUp DEF DeadLetter
  <1>11. CASE CheckComplete(w)
    <2>1. UNCHANGED <<Created, parent, Reported, completions>>
      BY <1>11, <1>b DEF CheckComplete
    <2>2. CASE Leave(w, "down")
      BY <2>1, <2>2, LeavingIsGivingUp
    <2>3. CASE Advance(w, "checkComplete", "writeComplete")
      <3>1. Handled' = Handled
        BY <2>3, HandledStays DEF Advance, Goto
      <3> QED
        BY <3>1, <2>1, UnseenStutters DEF Unseen
    <2> QED
      BY <1>11, <2>2, <2>3 DEF CheckComplete
  <1>12. CASE ClearLease(w)
    BY <1>12, <1>b, LeavingIsGivingUp DEF ClearLease, DeleteLeases
  <1>13. CASE Crash(w)
    BY <1>13, <1>b, LeavingIsGivingUp DEF Crash
  \* Steps of the contract.
  <1>14. CASE RecordLease(w)
    <2>1. job[w] \in Created /\ parent[job[w]] \in completions \cup {Nil}
      BY <1>14, JobIsTask, ConstantsOK
         DEF RecordLease, Advance, Inv, OrderInv, JobsInOrder, Created
    <2>2. Handled' = Handled \cup {job[w]}
      BY <1>14, HandledStarts DEF RecordLease, Advance, Goto
    <2>3. UNCHANGED <<Created, parent, Reported, completions>>
      BY <1>14, <1>b DEF RecordLease, InsertLease
    <2>4. Contract!Begin(job[w])
      BY <2>1, <2>2, <2>3 DEF Contract!Begin, Reported
    <2> QED
      BY <2>1, <2>4 DEF Contract!Next, Created
  <1>15. CASE RefusePayload(w) \/ ToolSucceeds(w)
    <2>1. job[w] \in Task /\ job[w] \in Handled
      BY <1>15, JobIsTask DEF RefusePayload, ToolSucceeds, Advance, Created, Handled
    <2>2. Handled' = Handled
      BY <1>15, HandledStays DEF RefusePayload, ToolSucceeds, Advance, Goto
    <2>3. Reported' = Reported \cup {job[w]}
      <3>1. CASE RefusePayload(w)
        BY <3>1, <2>1 DEF RefusePayload, InsertDeadLetter, Reported, Refused, observedVars
      <3>2. CASE ToolSucceeds(w)
        BY <3>2 DEF ToolSucceeds, Reported, Refused
      <3> QED
        BY <1>15, <3>1, <3>2
    <2>4. UNCHANGED <<Created, parent, completions>>
      BY <1>15 DEF RefusePayload, ToolSucceeds, taskVars, Created
    <2>5. Contract!Report(job[w])
      BY <2>1, <2>2, <2>3, <2>4 DEF Contract!Report, Reported
    <2> QED
      BY <2>1, <2>5 DEF Contract!Next
  <1>16. CASE Complete(w)
    <2>1. job[w] \in Created /\ job[w] \in Reported
      BY <1>16, JobIsTask DEF Complete, Advance, Inv, OrderInv, ResultsFirst, Reported
    <2>2. Handled' = Handled
      BY <1>16, HandledStays DEF Complete, Advance, Goto
    <2>3. UNCHANGED <<Created, parent, Reported>>
      BY <1>16, <2>1 DEF Complete, WriteCompleted, Created, StoreTypeOK, Reported, Refused, observedVars
    <2>4. completions' = completions \cup {job[w]}
      BY <1>16 DEF Complete, WriteCompleted
    <2>5. Contract!Finish(job[w])
      BY <2>1, <2>2, <2>3, <2>4 DEF Contract!Finish, Reported
    <2> QED
      BY <2>1, <2>5 DEF Contract!Next, Created
  <1> QED
    BY <1>1, <1>2, <1>3, <1>4, <1>5, <1>6, <1>7, <1>8, <1>9, <1>10, <1>11, <1>12,
       <1>13, <1>14, <1>15, <1>16, RaisingIsCrashing DEF WorkerStep, RunOnce

\* No step of a gate creates or completes a task.
LEMMA GateContract ==
  ASSUME Inv, NEW g \in Gate, GateAction(g)
  PROVE  Unseen
  <1>1. UNCHANGED <<Handled, earned, deadLetters>>
    BY DEF GateAction, GateStep, RequestApproval, PutApproval, CheckTransition,
       WriteTransition, Authorize, Reject, ReadDescendants, Prune, ClearLeases, BeginWait,
       WakeWaiter, WaitTimesOut, GateCrash, DeleteLeases, storeVars, controlVars,
       workerVars, observedVars, Handled
  <1>2. UNCHANGED <<Created, parent, completions>>
    <2>1. CASE WriteTransition(g)
      <3>1. target[g] \in Created /\ move[g][2] \in {"PLANNING", "PENDING_APPROVAL"}
        BY <2>1, CallIsTyped DEF WriteTransition
      <3> QED
        BY <2>1, <3>1 DEF WriteTransition, WriteState, Created, Inv, TypeOK, StoreTypeOK
    <2>2. CASE Prune(g)
      BY <2>2 DEF Prune, PruneRows, Created
    <2>3. CASE UNCHANGED taskVars
      BY <2>3 DEF taskVars, Created
    <2> QED
      BY <2>1, <2>2, <2>3, GateWritesTasks
  <1> QED
    BY <1>1, <1>2 DEF Unseen, Reported, Refused

\* Every step of the daemon is a step of the contract or a stutter.
LEMMA NextContract == Inv /\ [Next]_vars => [Contract!Next]_Contract!vars
  <1> SUFFICES ASSUME Inv, [Next]_vars PROVE [Contract!Next]_Contract!vars
    OBVIOUS
  <1>1. ASSUME NEW t \in Task, NEW p \in Task \cup {Nil}, CreateTask(t, p)
        PROVE  [Contract!Next]_Contract!vars
    BY <1>1, CreateTaskContract
  <1>2. CASE Tick \/ UNCHANGED vars
    <2>1. Unseen
      BY <1>2 DEF Tick, Elapse, vars, storeVars, taskVars, controlVars, workerVars,
         observedVars, Unseen, Created, Handled, Reported, Refused
    <2> QED
      BY <2>1, UnseenStutters
  <1>3. ASSUME NEW w \in Worker, WorkerStep(w) PROVE [Contract!Next]_Contract!vars
    BY <1>3, WorkerContract
  <1>4. ASSUME NEW g \in Gate, GateAction(g) PROVE [Contract!Next]_Contract!vars
    BY <1>4, GateContract, UnseenStutters
  <1> QED
    BY <1>1, <1>2, <1>3, <1>4 DEF Next

\* Daemon implements TaskContract: however workers crash, leases expire, tools
\* answer twice and approvals move a task back and forth, a task is handled
\* only after its parent was completed, and completed only with a result of its
\* own (queue_repo.py claim_ready_task and complete_task, worker.py run_once).
THEOREM ContractKept == Spec => KeepsContract
  <1>1. Spec => []Inv
    BY InitInv, NextKeepsInv, PTL DEF Spec
  <1> QED
    BY <1>1, InitContract, NextContract, PTL DEF Spec, KeepsContract, Contract!Spec
=============================================================================
