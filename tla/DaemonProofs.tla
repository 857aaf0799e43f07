---------------------------- MODULE DaemonProofs ----------------------------
(***************************************************************************)
(* Theorems about Daemon for every set of tasks, workers, gates and        *)
(* approvals.  TypeOK is not inductive alone: that a worker which writes a *)
(* lease row has a job, and a gate which writes a state has a target,      *)
(* follows from OrderInv, so both are carried together as Inv.             *)
(*                                                                         *)
(* The later parts add to Inv what one property needs: how many workers    *)
(* have still to store a failure (RerollInv), which calls have inserted    *)
(* the approval they ask for (AskedInv), that a rejection which has still  *)
(* to delete lease rows has ended their tasks (DoomedOver, for one         *)
(* worker), and what a gate has decided and still owes to its waiters      *)
(* (ReleaseInv, WaitInv, for one gate).                                    *)
(***************************************************************************)
EXTENDS Daemon, FiniteSetTheorems, TLAPS

Inv == TypeOK /\ OrderInv

USE DEF TaskState, Resolution, Decision, Reason, Label, Handling, GateLabel

\* The rank create_task gives a new row is a number: there are finitely many rows.
LEMMA CreatedIsFinite == Cardinality(Created) \in Nat
  BY ConstantsOK, FS_Subset, FS_CardinalityType DEF Created

\* The empty databases, with every process down, satisfy the invariant.
LEMMA InitInv == Init => Inv
  <1> SUFFICES ASSUME Init PROVE Inv
    OBVIOUS
  <1>1. TypeOK
    BY ConstantsOK DEF Init, StoreInit, WorkerInit, GateInit, TypeOK, StoreTypeOK,
       WorkerTypeOK, GateTypeOK, RerollCap, NoWait
  <1>2. OrderInv
    BY DEF Init, StoreInit, WorkerInit, GateInit, OrderInv, CompletionsLogged,
       JobsMatchLabels, JobsInOrder, ResultsFirst, CallsMatchLabels
  <1> QED
    BY <1>1, <1>2 DEF Inv

\* create_task keeps the invariant: the new row is PLANNING and no job is about it.
LEMMA CreateTaskInv ==
  ASSUME Inv, NEW t \in Task, NEW p \in Task \cup {Nil}, CreateTask(t, p)
  PROVE  Inv'
  <1> USE DEF CreateTask, InsertTask, approvalVars, controlVars, workerVars,
          observedVars, gateVars, callVars
  <1>1. TypeOK'
    BY CreatedIsFinite DEF Inv, TypeOK, StoreTypeOK, WorkerTypeOK, GateTypeOK
  <1>2. OrderInv'
    BY DEF Inv, TypeOK, StoreTypeOK, OrderInv, CompletionsLogged,
       JobsMatchLabels, JobsInOrder, ResultsFirst, CallsMatchLabels, Refused, Created
  <1> QED
    BY <1>1, <1>2 DEF Inv

\* The clock keeps it: it writes ttl only.
LEMMA TickInv ==
  ASSUME Inv, Tick
  PROVE  Inv'
  <1> USE DEF Tick, Elapse, approvalVars, controlVars, workerVars, observedVars,
          gateVars, callVars
  <1>1. TypeOK'
    BY ConstantsOK DEF Inv, TypeOK, StoreTypeOK, WorkerTypeOK, GateTypeOK
  <1>2. OrderInv'
    BY DEF Inv, OrderInv, CompletionsLogged, JobsMatchLabels, JobsInOrder,
       ResultsFirst, CallsMatchLabels, Refused, Created
  <1> QED
    BY <1>1, <1>2 DEF Inv

\* A step that changes nothing keeps it.
LEMMA StutterInv ==
  ASSUME Inv, UNCHANGED vars
  PROVE  Inv'
  BY DEF Inv, TypeOK, StoreTypeOK, WorkerTypeOK, GateTypeOK, OrderInv,
     CompletionsLogged, JobsMatchLabels, JobsInOrder, ResultsFirst,
     CallsMatchLabels, Refused, Created, vars, storeVars, taskVars,
     approvalVars, controlVars, workerVars, observedVars, gateVars, callVars

-----------------------------------------------------------------------------
(* The steps of a worker. *)

\* What the labels of a worker say about its job, as every step below uses it.
LEMMA JobIsTask ==
  ASSUME Inv, NEW w \in Worker
  PROVE  pc[w] \in Handling \cup {"recordLease"} => job[w] \in Created
  BY ConstantsOK DEF Inv, OrderInv, JobsMatchLabels, JobsInOrder

\* A tool's exception ends the process as a crash does.
LEMMA RaisingIsCrashing ==
  ASSUME NEW w \in Worker, ToolRaises(w)
  PROVE  Crash(w)
  BY DEF ToolRaises, Crash

\* The counters stay below the cap that add_negative_constraint is abstracted to.
LEMMA CountersAreTyped ==
  /\ RerollCap \in Nat /\ LeaseTicks \in Nat
  /\ \A n \in 0 .. RerollCap : Capped(n + 1) \in 0 .. RerollCap
  BY ConstantsOK DEF RerollCap, Capped

\* Every step of run_once, a start and a crash keep the types.
LEMMA WorkerKeepsTypes ==
  ASSUME Inv, NEW w \in Worker, WorkerStep(w)
  PROVE  TypeOK'
  <1> USE DEF approvalVars, controlVars, taskVars, storeVars, observedVars,
          TypeOK, StoreTypeOK, WorkerTypeOK
  <1>a. /\ StoreTypeOK /\ WorkerTypeOK /\ GateTypeOK
        /\ pc[w] \in Handling \cup {"recordLease"} => job[w] \in Task
    BY JobIsTask DEF Inv, Created
  <1>b. GateTypeOK'
    BY <1>a DEF WorkerStep, gateVars, callVars, GateTypeOK
  <1>1. CASE Start(w)
    BY <1>1, <1>a, <1>b, CountersAreTyped DEF Start, Leave, Goto
  <1>2. CASE SweepQueue(w)
    BY <1>2, <1>a, <1>b, CountersAreTyped DEF SweepQueue, ReleaseExpired, DropLeases, Expired, Goto
  <1>3. CASE SweepControl(w)
    BY <1>3, <1>a, <1>b, CountersAreTyped DEF SweepControl, DeleteLeases, Goto
  <1>4. CASE Idle(w)
    BY <1>4, <1>a, <1>b, CountersAreTyped DEF Idle, Leave, Goto
  <1>5. CASE RecordLease(w)
    BY <1>5, <1>a, <1>b, CountersAreTyped DEF RecordLease, Advance, Goto, InsertLease
  <1>6. CASE RefusePayload(w)
    BY <1>6, <1>a, <1>b, CountersAreTyped DEF RefusePayload, Advance, Goto, InsertDeadLetter
  <1>7. CASE ToolSucceeds(w)
    BY <1>7, <1>a, <1>b, CountersAreTyped DEF ToolSucceeds, Advance, Goto
  <1>8. CASE ToolDeclines(w)
    BY <1>8, <1>a, <1>b, CountersAreTyped DEF ToolDeclines, Leave, Goto
  <1>9. CASE ToolFails(w)
    BY <1>9, <1>a, <1>b, CountersAreTyped DEF ToolFails, Advance, Goto, Capped
  <1>10. CASE ReadReroll(w)
    BY <1>10, <1>a, <1>b, CountersAreTyped DEF ReadReroll, Goto
  <1>11. CASE StoreReroll(w)
    <2>1. CASE Capped(count[w] + 1) > MaxRerolls
      BY <2>1, <1>11, <1>a, <1>b, CountersAreTyped
      DEF StoreReroll, WriteReroll, DropLeases, Goto
    <2>2. CASE ~(Capped(count[w] + 1) > MaxRerolls)
      <3>1. StoreTypeOK'
        BY <1>11, <1>a, CountersAreTyped DEF StoreReroll, WriteReroll, DropLeases
      <3>2. WorkerTypeOK'
        BY <2>2, <1>11, <1>a, CountersAreTyped DEF StoreReroll, Leave, Goto
      <3> QED
        BY <3>1, <3>2, <1>b
    <2> QED
      BY <2>1, <2>2
  <1>12. CASE DeadLetter(w)
    BY <1>12, <1>a, <1>b, CountersAreTyped DEF DeadLetter, InsertDeadLetter, Leave, Goto
  <1>13. CASE CheckComplete(w)
    <2>1. CASE Advance(w, "checkComplete", "writeComplete")
      BY <2>1, <1>13, <1>a, <1>b DEF CheckComplete, Advance, Goto
    <2>2. CASE Leave(w, "down")
      BY <2>2, <1>13, <1>a, <1>b, CountersAreTyped DEF CheckComplete, Leave, Goto
    <2> QED
      BY <2>1, <2>2, <1>13 DEF CheckComplete
  <1>14. CASE Complete(w)
    BY <1>14, <1>a, <1>b, CountersAreTyped DEF Complete, Advance, Goto, WriteCompleted, DropLeases
  <1>15. CASE ClearLease(w)
    BY <1>15, <1>a, <1>b, CountersAreTyped DEF ClearLease, DeleteLeases, Leave, Goto
  <1>16. CASE Crash(w)
    BY <1>16, <1>a, <1>b, CountersAreTyped DEF Crash, Leave, Goto
  <1>17. ASSUME NEW t \in Task, Claim(w, t) PROVE TypeOK'
    BY <1>17, <1>a, <1>b, CountersAreTyped DEF Claim, ClaimRow, Ready, Goto
  <1> QED
    BY <1>1, <1>2, <1>3, <1>4, <1>5, <1>6, <1>7, <1>8, <1>9, <1>10, <1>11, <1>12, <1>13, <1>14, <1>15, <1>16, <1>17, RaisingIsCrashing DEF WorkerStep, RunOnce

\* Every step of run_once keeps the order in which a task is claimed, answered
\* and completed; the claim needs CompletionsLogged, the completion ResultsFirst.
LEMMA WorkerKeepsOrder ==
  ASSUME Inv, NEW w \in Worker, WorkerStep(w)
  PROVE  OrderInv'
  <1> USE DEF approvalVars, controlVars, taskVars, storeVars, observedVars,
          OrderInv, CompletionsLogged, JobsMatchLabels, JobsInOrder, ResultsFirst,
          CallsMatchLabels, Created, Refused
  <1>a. /\ OrderInv /\ StoreTypeOK /\ WorkerTypeOK
        /\ pc[w] \in Handling \cup {"recordLease"} => job[w] \in Task
    BY JobIsTask DEF Inv, TypeOK, Created
  <1>b. UNCHANGED <<at, target, ticket, move>>
    BY DEF WorkerStep, gateVars, callVars
  <1> USE ConstantsOK DEF StoreTypeOK, WorkerTypeOK
  <1>1. CASE Start(w)
    BY <1>1, <1>a, <1>b DEF Start, Leave, Goto
  <1>2. CASE SweepQueue(w)
    BY <1>2, <1>a, <1>b DEF SweepQueue, ReleaseExpired, DropLeases, Goto
  <1>3. CASE SweepControl(w)
    BY <1>3, <1>a, <1>b DEF SweepControl, DeleteLeases, Goto
  <1>4. CASE Idle(w)
    BY <1>4, <1>a, <1>b DEF Idle, Leave, Goto
  <1>5. CASE RecordLease(w)
    BY <1>5, <1>a, <1>b DEF RecordLease, Advance, Goto, InsertLease
  <1>6. CASE RefusePayload(w)
    BY <1>6, <1>a, <1>b DEF RefusePayload, Advance, Goto, InsertDeadLetter
  <1>7. CASE ToolSucceeds(w)
    BY <1>7, <1>a, <1>b DEF ToolSucceeds, Advance, Goto
  <1>8. CASE ToolDeclines(w)
    BY <1>8, <1>a, <1>b DEF ToolDeclines, Leave, Goto
  <1>9. CASE ToolFails(w)
    BY <1>9, <1>a, <1>b DEF ToolFails, Advance, Goto, Capped
  <1>10. CASE ReadReroll(w)
    BY <1>10, <1>a, <1>b DEF ReadReroll, Goto
  <1>11. CASE StoreReroll(w)
    BY <1>11, <1>a, <1>b DEF StoreReroll, WriteReroll, DropLeases, Leave, Goto
  <1>12. CASE DeadLetter(w)
    BY <1>12, <1>a, <1>b DEF DeadLetter, InsertDeadLetter, Leave, Goto
  <1>13. CASE CheckComplete(w)
    BY <1>13, <1>a, <1>b DEF CheckComplete, Advance, Leave, Goto
  <1>14. CASE Complete(w)
    BY <1>14, <1>a, <1>b DEF Complete, Advance, Goto, WriteCompleted, DropLeases
  <1>15. CASE ClearLease(w)
    BY <1>15, <1>a, <1>b DEF ClearLease, DeleteLeases, Leave, Goto
  <1>16. CASE Crash(w)
    BY <1>16, <1>a, <1>b DEF Crash, Leave, Goto
  <1>17. ASSUME NEW t \in Task, Claim(w, t) PROVE OrderInv'
    BY <1>17, <1>a, <1>b DEF Claim, ClaimRow, Ready, Goto
  <1> QED
    BY <1>1, <1>2, <1>3, <1>4, <1>5, <1>6, <1>7, <1>8, <1>9, <1>10, <1>11, <1>12, <1>13, <1>14, <1>15, <1>16, <1>17, RaisingIsCrashing DEF WorkerStep, RunOnce

\* Both together.
LEMMA WorkerKeepsInv ==
  ASSUME Inv, NEW w \in Worker, WorkerStep(w)
  PROVE  Inv'
  BY WorkerKeepsTypes, WorkerKeepsOrder DEF Inv

-----------------------------------------------------------------------------
(* The steps of a gate. *)

\* What the label of a gate says about the arguments of its call.
LEMMA CallIsTyped ==
  ASSUME Inv, NEW g \in Gate
  PROVE  /\ at[g] # "idle" => target[g] \in Created
         /\ at[g] = "insertApproval" => ticket[g] \in Approval
         /\ at[g] \in {"insertApproval", "checkTransition", "writeTransition"} =>
              move[g] \in TaskState \X {"PLANNING", "PENDING_APPROVAL"}
  BY DEF Inv, OrderInv, CallsMatchLabels

\* A call of a gate that ends leaves its locals typed.
LEMMA ReturnKeepsTypes ==
  ASSUME GateTypeOK, NEW g \in Gate, Return(g), UNCHANGED waiter,
         signalled' \in [Gate -> SUBSET Task]
  PROVE  GateTypeOK'
  BY DEF GateTypeOK, Return

\* Setting the event of a task leaves the set of events typed.
LEMMA SignalKeepsTypes ==
  ASSUME signalled \in [Gate -> SUBSET Task], NEW g \in Gate, NEW t \in Task, Signal(g, t)
  PROVE  signalled' \in [Gate -> SUBSET Task]
  <1>1. signalled[g] \cup ({t} \cap Awaited) \in SUBSET Task
    OBVIOUS
  <1> QED
    BY <1>1 DEF Signal

\* Every step of a gate keeps the types.
LEMMA GateKeepsTypes ==
  ASSUME Inv, NEW g \in Gate, GateAction(g)
  PROVE  TypeOK'
  <1> USE DEF approvalVars, controlVars, taskVars, storeVars, callVars,
          TypeOK, StoreTypeOK, GateTypeOK
  <1>a. /\ StoreTypeOK /\ WorkerTypeOK /\ GateTypeOK
        /\ at[g] # "idle" => target[g] \in Task
        /\ at[g] = "insertApproval" => ticket[g] \in Approval
        /\ at[g] = "writeTransition" => move[g][2] \in TaskState
    BY CallIsTyped DEF Inv, Created
  <1>b. WorkerTypeOK'
    BY <1>a DEF GateAction, workerVars, observedVars, WorkerTypeOK
  <1>1. ASSUME NEW t \in Task, NEW a \in Approval, RequestApproval(g, t, a) PROVE TypeOK'
    BY <1>1, <1>a, <1>b, CountersAreTyped DEF RequestApproval
  <1>2. ASSUME NEW t \in Task, Authorize(g, t) PROVE TypeOK'
    BY <1>2, <1>a, <1>b, CountersAreTyped DEF Authorize, Decide, RowsOf
  <1>3. ASSUME NEW t \in Task, Reject(g, t) PROVE TypeOK'
    BY <1>3, <1>a, <1>b, CountersAreTyped DEF Reject, Decide
  <1>4. ASSUME NEW t \in Task, BeginWait(g, t) PROVE TypeOK'
    BY <1>4, <1>a, <1>b, CountersAreTyped DEF BeginWait, PendingOf, RowsOf
  <1>5. ASSUME NEW t \in Task, WakeWaiter(g, t) PROVE TypeOK'
    BY <1>5, <1>a, <1>b, CountersAreTyped DEF WakeWaiter
  <1>6. ASSUME NEW t \in Task, WaitTimesOut(g, t) PROVE TypeOK'
    BY <1>6, <1>a, <1>b, CountersAreTyped DEF WaitTimesOut, NoWait
  <1>7. CASE PutApproval(g)
    <2>1. CASE approvalTask[ticket[g]] = Nil
      <3>1. target[g] \in Task /\ ticket[g] \in Approval
        BY <1>7, <1>a DEF PutApproval
      <3>2. StoreTypeOK'
        BY <2>1, <3>1, <1>7, <1>a DEF PutApproval, InsertApproval
      <3>3. GateTypeOK'
        BY <2>1, <1>7, <1>a DEF PutApproval, Proceed
      <3> QED
        BY <3>2, <3>3, <1>b
    <2>2. CASE approvalTask[ticket[g]] # Nil
      <3>1. StoreTypeOK'
        BY <2>2, <1>7, <1>a DEF PutApproval
      <3>2. GateTypeOK'
        BY <2>2, <1>7, <1>a, ReturnKeepsTypes DEF PutApproval
      <3> QED
        BY <3>1, <3>2, <1>b
    <2> QED
      BY <2>1, <2>2
  <1>8. CASE CheckTransition(g)
    <2>1. CASE Proceed(g, "checkTransition", "writeTransition")
      BY <2>1, <1>8, <1>a, <1>b DEF CheckTransition, Proceed
    <2>2. CASE Return(g)
      BY <2>2, <1>8, <1>a, <1>b DEF CheckTransition, Return
    <2> QED
      BY <2>1, <2>2, <1>8 DEF CheckTransition
  <1>9. CASE WriteTransition(g)
    <2> USE <1>9 DEF WriteTransition, WriteState
    <2>1. target[g] \in Task /\ move[g][2] \in TaskState
      BY <1>a
    <2>2. StoreTypeOK'
      BY <2>1, <1>a
    <2>3. signalled' \in [Gate -> SUBSET Task]
      <3>1. CASE move[g][1] = "PENDING_APPROVAL"
        BY <3>1, <2>1, <1>a, SignalKeepsTypes DEF GateTypeOK
      <3>2. CASE move[g][1] # "PENDING_APPROVAL"
        BY <3>2, <1>a DEF GateTypeOK
      <3> QED
        BY <3>1, <3>2
    <2>4. GateTypeOK'
      BY <2>3, <1>a, ReturnKeepsTypes DEF WriteTransition
    <2> QED
      BY <2>2, <2>4, <1>b
  <1>10. CASE ReadDescendants(g)
    BY <1>10, <1>a, <1>b, CountersAreTyped DEF ReadDescendants, Descendants
  <1>11. CASE Prune(g)
    BY <1>11, <1>a, <1>b, CountersAreTyped DEF Prune, Proceed, PruneRows, DropLeases
  <1>12. CASE ClearLeases(g)
    BY <1>12, <1>a, <1>b, CountersAreTyped DEF ClearLeases, DeleteLeases, Signal, Return
  <1>13. CASE GateCrash(g)
    BY <1>13, <1>a, <1>b, CountersAreTyped DEF GateCrash, Return, NoWait
  <1> QED
    BY <1>1, <1>2, <1>3, <1>4, <1>5, <1>6, <1>7, <1>8, <1>9, <1>10, <1>11, <1>12, <1>13 DEF GateAction, GateStep

\* Every step of a gate keeps the order: approvals move a task between PLANNING
\* and PENDING_APPROVAL and never write COMPLETED.
LEMMA GateKeepsOrder ==
  ASSUME Inv, NEW g \in Gate, GateAction(g)
  PROVE  OrderInv'
  <1> USE DEF approvalVars, controlVars, taskVars, storeVars, callVars,
          OrderInv, CompletionsLogged, JobsMatchLabels, JobsInOrder, ResultsFirst,
          CallsMatchLabels, Created, Refused
  <1>a. OrderInv /\ StoreTypeOK /\ GateTypeOK
    BY DEF Inv, TypeOK
  <1>b. UNCHANGED <<pc, job, earned>>
    BY DEF GateAction, workerVars, observedVars
  <1> USE CallIsTyped DEF StoreTypeOK, GateTypeOK
  <1>1. ASSUME NEW t \in Task, NEW a \in Approval, RequestApproval(g, t, a) PROVE OrderInv'
    BY <1>1, <1>a, <1>b DEF RequestApproval
  <1>2. ASSUME NEW t \in Task, Authorize(g, t) PROVE OrderInv'
    BY <1>2, <1>a, <1>b DEF Authorize, Decide
  <1>3. ASSUME NEW t \in Task, Reject(g, t) PROVE OrderInv'
    BY <1>3, <1>a, <1>b DEF Reject, Decide
  <1>4. ASSUME NEW t \in Task, BeginWait(g, t) PROVE OrderInv'
    BY <1>4, <1>a, <1>b DEF BeginWait, PendingOf
  <1>5. ASSUME NEW t \in Task, WakeWaiter(g, t) PROVE OrderInv'
    BY <1>5, <1>a, <1>b DEF WakeWaiter
  <1>6. ASSUME NEW t \in Task, WaitTimesOut(g, t) PROVE OrderInv'
    BY <1>6, <1>a, <1>b DEF WaitTimesOut, NoWait
  <1>7. CASE PutApproval(g)
    BY <1>7, <1>a, <1>b DEF PutApproval, Proceed, Return, InsertApproval
  <1>8. CASE CheckTransition(g)
    <2>1. CASE Proceed(g, "checkTransition", "writeTransition")
      BY <2>1, <1>8, <1>a, <1>b DEF CheckTransition, Proceed
    <2>2. CASE Return(g)
      BY <2>2, <1>8, <1>a, <1>b DEF CheckTransition, Return
    <2> QED
      BY <2>1, <2>2, <1>8 DEF CheckTransition
  <1>9. CASE WriteTransition(g)
    <2>1. target[g] \in Created /\ move[g][2] \in {"PLANNING", "PENDING_APPROVAL"}
      BY <1>9, <1>a DEF WriteTransition
    <2>2. /\ state' = [state EXCEPT ![target[g]] = move[g][2]]
          /\ completions' = completions
          /\ UNCHANGED <<parent, deadLetters>>
      BY <1>9, <2>1 DEF WriteTransition, WriteState
    <2>3. Created' = Created
      BY <2>1, <2>2, <1>a
    <2>4. /\ at'[g] = "idle"
          /\ \A h \in Gate \ {g} :
               at'[h] = at[h] /\ target'[h] = target[h] /\ ticket'[h] = ticket[h] /\ move'[h] = move[h]
      BY <1>9, <1>a DEF WriteTransition, Return
    <2>5. CompletionsLogged'
      BY <2>1, <2>2, <1>a
    <2>6. JobsMatchLabels' /\ JobsInOrder' /\ ResultsFirst'
      BY <2>2, <2>3, <1>a, <1>b
    <2>7. CallsMatchLabels'
      <3>1. CallsMatchLabels
        BY <1>a
      <3>2. \A h \in Gate : at'[h] # "idle" => h \in Gate \ {g}
        BY <2>4
      <3> QED
        BY <2>3, <2>4, <3>1, <3>2
    <2> QED
      BY <2>5, <2>6, <2>7
  <1>10. CASE ReadDescendants(g)
    BY <1>10, <1>a, <1>b DEF ReadDescendants, Descendants
  <1>11. CASE Prune(g)
    BY <1>11, <1>a, <1>b DEF Prune, Proceed, PruneRows, DropLeases
  <1>12. CASE ClearLeases(g)
    BY <1>12, <1>a, <1>b DEF ClearLeases, DeleteLeases, Signal, Return
  <1>13. CASE GateCrash(g)
    BY <1>13, <1>a, <1>b DEF GateCrash, Return, NoWait
  <1> QED
    BY <1>1, <1>2, <1>3, <1>4, <1>5, <1>6, <1>7, <1>8, <1>9, <1>10, <1>11, <1>12, <1>13 DEF GateAction, GateStep

\* Both together.
LEMMA GateKeepsInv ==
  ASSUME Inv, NEW g \in Gate, GateAction(g)
  PROVE  Inv'
  BY GateKeepsTypes, GateKeepsOrder DEF Inv

-----------------------------------------------------------------------------
\* The invariant is inductive.
LEMMA NextKeepsInv == Inv /\ [Next]_vars => Inv'
  <1> SUFFICES ASSUME Inv, [Next]_vars PROVE Inv'
    OBVIOUS
  <1>1. ASSUME NEW t \in Task, NEW p \in Task \cup {Nil}, CreateTask(t, p) PROVE Inv'
    BY <1>1, CreateTaskInv
  <1>2. CASE Tick
    BY <1>2, TickInv
  <1>3. ASSUME NEW w \in Worker, WorkerStep(w) PROVE Inv'
    BY <1>3, WorkerKeepsInv
  <1>4. ASSUME NEW g \in Gate, GateAction(g) PROVE Inv'
    BY <1>4, GateKeepsInv
  <1>5. CASE UNCHANGED vars
    BY <1>5, StutterInv
  <1> QED
    BY <1>1, <1>2, <1>3, <1>4, <1>5 DEF Next

\* Types: every variable keeps its type whatever the workers, the gates and
\* the callers of create_task do.
THEOREM TypeCorrect == Spec => []TypeOK
  <1>1. Inv => TypeOK
    BY DEF Inv
  <1> QED
    BY InitInv, NextKeepsInv, <1>1, PTL DEF Spec

\* The order in which a task is created, claimed, answered and completed
\* (queue_repo.py claim_ready_task and complete_task, worker.py run_once).
THEOREM OrderCorrect == Spec => []OrderInv
  <1>1. Inv => OrderInv
    BY DEF Inv
  <1> QED
    BY InitInv, NextKeepsInv, <1>1, PTL DEF Spec

-----------------------------------------------------------------------------
(* What a step may do to the columns the leases depend on. *)

\* The steps of a gate that write the tasks table are two.
LEMMA GateWritesTasks ==
  ASSUME NEW g \in Gate, GateAction(g), ~WriteTransition(g), ~Prune(g)
  PROVE  UNCHANGED taskVars
  BY DEF GateAction, GateStep, RequestApproval, PutApproval, CheckTransition,
     Authorize, Reject, ReadDescendants, ClearLeases, BeginWait, WakeWaiter,
     WaitTimesOut, GateCrash, storeVars

\* Those of a worker are four.
LEMMA WorkerWritesTasks ==
  ASSUME NEW w \in Worker, WorkerStep(w), ~SweepQueue(w), ~StoreReroll(w), ~Complete(w),
         \A t \in Task : ~Claim(w, t)
  PROVE  UNCHANGED taskVars
  BY DEF WorkerStep, RunOnce, Start, SweepControl, Idle, RecordLease, RefusePayload,
     ToolSucceeds, ToolDeclines, ToolFails, ToolRaises, ReadReroll, DeadLetter, CheckComplete,
     ClearLease, Crash, storeVars

\* A step that ends a task clears its lease, and a step that leases a task finds
\* it neither completed nor rejected.
LEMMA TerminalUnleasedStep == Inv /\ TerminalUnleased /\ [Next]_vars => TerminalUnleased'
  <1> SUFFICES ASSUME Inv, TerminalUnleased, [Next]_vars, NEW u \in Task,
                      (state[u] = "COMPLETED" \/ resolution[u] # "ACTIVE")'
               PROVE  owner'[u] = Nil
    BY DEF TerminalUnleased
  <1>a. owner[u] = Nil \/ (state[u] # "COMPLETED" /\ resolution[u] = "ACTIVE")
    BY DEF Inv, TypeOK, TerminalUnleased
  <1>b. StoreTypeOK
    BY DEF Inv, TypeOK
  <1> USE <1>a, <1>b DEF StoreTypeOK
  <1>1. ASSUME NEW t \in Task, NEW p \in Task \cup {Nil}, CreateTask(t, p) PROVE owner'[u] = Nil
    BY <1>1 DEF CreateTask, InsertTask
  <1>2. CASE Tick
    BY <1>2 DEF Tick, Elapse
  <1>3. ASSUME NEW w \in Worker, WorkerStep(w) PROVE owner'[u] = Nil
    <2>1. CASE SweepQueue(w)
      BY <2>1 DEF SweepQueue, ReleaseExpired, DropLeases
    <2>2. CASE StoreReroll(w)
      BY <2>2 DEF StoreReroll, WriteReroll, DropLeases
    <2>3. CASE Complete(w)
      BY <2>3 DEF Complete, WriteCompleted, DropLeases
    <2>4. ASSUME NEW t \in Task, Claim(w, t) PROVE owner'[u] = Nil
      BY <2>4 DEF Claim, ClaimRow, Ready
    <2>5. CASE UNCHANGED taskVars
      BY <2>5 DEF taskVars
    <2> QED
      BY <1>3, <2>1, <2>2, <2>3, <2>4, <2>5, WorkerWritesTasks
  <1>4. ASSUME NEW g \in Gate, GateAction(g) PROVE owner'[u] = Nil
    <2>1. CASE WriteTransition(g)
      <3>1. move[g][2] # "COMPLETED"
        BY <2>1, CallIsTyped DEF WriteTransition
      <3> QED
        BY <2>1, <3>1 DEF WriteTransition, WriteState
    <2>2. CASE Prune(g)
      BY <2>2 DEF Prune, PruneRows, DropLeases
    <2>3. CASE UNCHANGED taskVars
      BY <2>3 DEF taskVars
    <2> QED
      BY <1>4, <2>1, <2>2, <2>3, GateWritesTasks
  <1>5. CASE UNCHANGED vars
    BY <1>5 DEF vars, storeVars, taskVars
  <1> QED
    BY <1>1, <1>2, <1>3, <1>4, <1>5 DEF Next

\* A task that is over is leased to nobody: complete_task and reject_and_prune
\* clear the lease with the column they write, and claim_ready_task asks for
\* both columns.
THEOREM TerminalUnleasedCorrect == Spec => []TerminalUnleased
  <1>1. Init => TerminalUnleased
    BY DEF Init, StoreInit, TerminalUnleased
  <1>2. Spec => []Inv
    BY InitInv, NextKeepsInv, PTL DEF Spec
  <1> QED
    BY <1>1, <1>2, TerminalUnleasedStep, PTL DEF Spec

\* A rejection is final: no step makes a resolution ACTIVE again, and the only
\* step that gives a lease, the claim, asks the task and its parent for ACTIVE.
THEOREM RejectionFinalCorrect == Spec => RejectionFinal
  <1> DEFINE Final(u) ==
        /\ NotActive(u) => NotActive(u)'
        /\ NotActive(u) \/ (parent[u] # Nil /\ NotActive(parent[u])) =>
             (owner'[u] # Nil => owner[u] # Nil)
  <1>1. ASSUME Inv, [Next]_vars, NEW u \in Task PROVE Final(u)
    <2>a. StoreTypeOK
      BY <1>1 DEF Inv, TypeOK
    <2> USE <2>a DEF StoreTypeOK, NotActive
    <2>1. ASSUME NEW t \in Task, NEW p \in Task \cup {Nil}, CreateTask(t, p) PROVE Final(u)
      BY <2>1 DEF CreateTask, InsertTask
    <2>2. CASE Tick
      BY <2>2 DEF Tick, Elapse
    <2>3. ASSUME NEW w \in Worker, WorkerStep(w) PROVE Final(u)
      <3>1. CASE SweepQueue(w)
        BY <3>1 DEF SweepQueue, ReleaseExpired, DropLeases
      <3>2. CASE StoreReroll(w)
        BY <3>2 DEF StoreReroll, WriteReroll, DropLeases
      <3>3. CASE Complete(w)
        BY <3>3 DEF Complete, WriteCompleted, DropLeases
      <3>4. ASSUME NEW t \in Task, Claim(w, t) PROVE Final(u)
        BY <3>4 DEF Claim, ClaimRow, Ready
      <3>5. CASE UNCHANGED taskVars
        BY <3>5 DEF taskVars
      <3> QED
        BY <2>3, <3>1, <3>2, <3>3, <3>4, <3>5, WorkerWritesTasks
    <2>4. ASSUME NEW g \in Gate, GateAction(g) PROVE Final(u)
      <3>1. CASE WriteTransition(g)
        BY <3>1 DEF WriteTransition, WriteState
      <3>2. CASE Prune(g)
        BY <3>2 DEF Prune, PruneRows, DropLeases
      <3>3. CASE UNCHANGED taskVars
        BY <3>3 DEF taskVars
      <3> QED
        BY <2>4, <3>1, <3>2, <3>3, GateWritesTasks
    <2>5. CASE UNCHANGED vars
      BY <2>5 DEF vars, storeVars, taskVars
    <2> QED
      BY <1>1, <2>1, <2>2, <2>3, <2>4, <2>5 DEF Next
  <1>2. ASSUME Inv, [Next]_vars PROVE \A u \in Task : Final(u)
    BY <1>1, <1>2
  <1>3. Spec => []Inv
    BY InitInv, NextKeepsInv, PTL DEF Spec
  <1>4. Inv /\ [Next]_vars => [\A t \in Task : Final(t)]_vars
    BY <1>2
  <1> HIDE DEF Final
  <1>5. Spec => [][\A t \in Task : Final(t)]_vars
    BY <1>3, <1>4, PTL DEF Spec
  <1> QED
    BY <1>5 DEF Final, RejectionFinal

-----------------------------------------------------------------------------
(* Rerolls.  A run that failed is counted in failures at once and in        *)
(* rerolls only by the write of add_negative_constraint, which may lose     *)
(* what another worker wrote in between.  What makes the dead letter right  *)
(* is that the workers which are still to write are never more than what    *)
(* rerolls is behind, and that the same holds of what each of them read.    *)

\* The workers that have failed on t and have not yet stored it.
Counting(t) == {w \in Worker : pc[w] \in {"readReroll", "writeReroll"} /\ job[w] = t}

Counted(t) ==
    \/ failures[t] = RerollCap
    \/ /\ IsFiniteSet(Counting(t))
       /\ rerolls[t] + Cardinality(Counting(t)) <= failures[t]
       /\ \A w \in Counting(t) :
            pc[w] = "writeReroll" => count[w] + Cardinality(Counting(t)) <= failures[t]

RerollInv ==
    /\ DeadLetterJustified
    /\ \A t \in Task : Counted(t)
    /\ \A w \in Worker : pc[w] = "deadLetter" => failures[job[w]] = RerollCap

\* A failure more is one worker more; a worker less leaves more room.
LEMMA OneMore ==
  ASSUME NEW S, NEW T, IsFiniteSet(S), NEW w, w \notin S, T = S \cup {w}
  PROVE  IsFiniteSet(T) /\ Cardinality(S) \in Nat /\ Cardinality(T) = Cardinality(S) + 1
  BY FS_AddElement, FS_CardinalityType

LEMMA OneLess ==
  ASSUME NEW S, NEW T, IsFiniteSet(S), NEW w \in S, T = S \ {w}
  PROVE  /\ IsFiniteSet(T) /\ Cardinality(T) \in Nat /\ Cardinality(S) \in Nat
         /\ Cardinality(T) = Cardinality(S) - 1
  BY FS_RemoveElement, FS_CardinalityType

\* A step that moves one worker and no counter of t, and takes nobody on.
LEMMA NobodyMore ==
  ASSUME Inv, NEW t \in Task, Counted(t), NEW w \in Worker,
         \A v \in Worker \ {w} : pc'[v] = pc[v] /\ job'[v] = job[v] /\ count'[v] = count[v],
         pc'[w] \notin {"readReroll", "writeReroll"},
         rerolls'[t] = rerolls[t], failures'[t] = failures[t]
  PROVE  Counted(t)'
  <1>1. CASE failures[t] = RerollCap
    BY <1>1 DEF Counted, RerollCap
  <1>2. CASE failures[t] # RerollCap
    <2>1. PICK S : S = Counting(t)
      OBVIOUS
    <2>2. PICK T : T = Counting(t)'
      OBVIOUS
    <2>3. /\ IsFiniteSet(S) /\ rerolls[t] + Cardinality(S) <= failures[t]
          /\ \A v \in S : pc[v] = "writeReroll" => count[v] + Cardinality(S) <= failures[t]
      BY <1>2, <2>1 DEF Counted
    <2>4. T = S \ {w}
      BY <2>1, <2>2 DEF Counting
    <2>5. IsFiniteSet(T) /\ Cardinality(T) \in Nat /\ Cardinality(S) \in Nat
          /\ Cardinality(T) <= Cardinality(S)
      BY <2>3, <2>4, FS_Subset, FS_CardinalityType
    <2>6. /\ rerolls[t] \in Int /\ failures[t] \in Int
          /\ \A v \in Worker : count[v] \in Int
      BY CountersAreTyped DEF Inv, TypeOK, StoreTypeOK, WorkerTypeOK
    <2>7. rerolls'[t] + Cardinality(T) <= failures'[t]
      BY <2>3, <2>5, <2>6
    <2>8. ASSUME NEW v \in T, pc'[v] = "writeReroll"
          PROVE  count'[v] + Cardinality(T) <= failures'[t]
      <3>1. v \in S /\ v \in Worker \ {w} /\ pc[v] = "writeReroll" /\ count'[v] = count[v]
        BY <2>1, <2>4, <2>8 DEF Counting
      <3> QED
        BY <2>3, <2>5, <2>6, <3>1
    <2> QED
      BY <2>2, <2>5, <2>7, <2>8 DEF Counted
  <1> QED
    BY <1>1, <1>2

\* A run of the job of w fails: it is counted, and w is one more to store it.
LEMMA ToolFailsCounted ==
  ASSUME Inv, NEW w \in Worker, ToolFails(w), NEW t \in Task, Counted(t)
  PROVE  Counted(t)'
  <1>1. /\ pc[w] = "execute" /\ pc' = [pc EXCEPT ![w] = "readReroll"]
        /\ UNCHANGED <<job, count, rerolls>>
        /\ failures' = [failures EXCEPT ![job[w]] = Capped(@ + 1)]
        /\ pc \in [Worker -> Label] /\ failures \in [Task -> 0 .. RerollCap]
        /\ rerolls[t] \in Int /\ \A v \in Worker : count[v] \in Int
    BY DEF ToolFails, Advance, Goto, storeVars, taskVars, Inv, TypeOK, StoreTypeOK, WorkerTypeOK
  <1>2. PICK S : S = Counting(t)
    OBVIOUS
  <1>3. PICK T : T = Counting(t)'
    OBVIOUS
  <1>4. CASE failures[t] = RerollCap
    <2>1. failures'[t] = RerollCap
      BY <1>1, <1>4, CountersAreTyped DEF Capped
    <2> QED
      BY <2>1 DEF Counted, RerollCap
  <1>5. CASE failures[t] # RerollCap
    <2>1. /\ IsFiniteSet(S) /\ rerolls[t] + Cardinality(S) <= failures[t]
          /\ \A v \in S : pc[v] = "writeReroll" => count[v] + Cardinality(S) <= failures[t]
      BY <1>2, <1>5 DEF Counted
    <2>2. CASE job[w] # t
      <3>1. T = S /\ failures'[t] = failures[t]
        BY <1>1, <1>2, <1>3, <2>2 DEF Counting
      <3>2. \A v \in T : pc'[v] = "writeReroll" => pc[v] = "writeReroll"
        BY <1>1, <1>3 DEF Counting
      <3> QED
        BY <1>1, <1>3, <2>1, <3>1, <3>2 DEF Counted
    <2>3. CASE job[w] = t
      <3>1. T = S \cup {w} /\ w \notin S
        BY <1>1, <1>2, <1>3, <2>3 DEF Counting
      <3>2. IsFiniteSet(T) /\ Cardinality(S) \in Nat /\ Cardinality(T) = Cardinality(S) + 1
        BY <2>1, <3>1, OneMore
      <3>3. failures'[t] = failures[t] + 1 /\ failures[t] \in Int
        BY <1>1, <1>5, <2>3, CountersAreTyped DEF Capped
      <3>4. \A v \in T : pc'[v] = "writeReroll" => v \in S /\ v \in Worker /\ pc[v] = "writeReroll"
        BY <1>1, <1>3, <3>1 DEF Counting
      <3>5. \A v \in T : pc'[v] = "writeReroll" => count'[v] + Cardinality(T) <= failures'[t]
        BY <1>1, <2>1, <3>2, <3>3, <3>4
      <3>6. rerolls'[t] + Cardinality(T) <= failures'[t]
        BY <1>1, <2>1, <3>2, <3>3
      <3> QED
        BY <1>3, <3>2, <3>5, <3>6 DEF Counted
    <2> QED
      BY <2>2, <2>3
  <1> QED
    BY <1>4, <1>5

\* w reads the counter: what bounds the counter bounds what it read.
LEMMA ReadRerollCounted ==
  ASSUME Inv, NEW w \in Worker, ReadReroll(w), NEW t \in Task, Counted(t)
  PROVE  Counted(t)'
  <1>1. /\ pc[w] = "readReroll" /\ pc' = [pc EXCEPT ![w] = "writeReroll"]
        /\ UNCHANGED <<job, rerolls, failures>>
        /\ count' = [count EXCEPT ![w] = rerolls[job[w]]]
        /\ pc \in [Worker -> Label] /\ count \in [Worker -> 0 .. RerollCap]
    BY DEF ReadReroll, Goto, storeVars, taskVars, observedVars, Inv, TypeOK, WorkerTypeOK
  <1>2. PICK S : S = Counting(t)
    OBVIOUS
  <1>3. PICK T : T = Counting(t)'
    OBVIOUS
  <1>4. T = S /\ S \subseteq Worker
    BY <1>1, <1>2, <1>3 DEF Counting
  <1>5. CASE failures[t] = RerollCap
    BY <1>1, <1>5 DEF Counted, RerollCap
  <1>6. CASE failures[t] # RerollCap
    <2>1. /\ IsFiniteSet(S) /\ rerolls[t] + Cardinality(S) <= failures[t]
          /\ \A v \in S : pc[v] = "writeReroll" => count[v] + Cardinality(S) <= failures[t]
      BY <1>2, <1>6 DEF Counted
    <2>2. ASSUME NEW v \in T, pc'[v] = "writeReroll"
          PROVE  count'[v] + Cardinality(T) <= failures'[t]
      <3>1. CASE v = w
        <4>1. job[w] = t
          BY <1>2, <1>4, <3>1 DEF Counting
        <4>2. count'[v] = rerolls[t]
          BY <1>1, <3>1, <4>1
        <4> QED
          BY <1>1, <1>4, <2>1, <4>2
      <3>2. CASE v # w
        BY <1>1, <1>4, <2>1, <2>2, <3>2
      <3> QED
        BY <3>1, <3>2
    <2> QED
      BY <1>1, <1>3, <1>4, <2>1, <2>2 DEF Counted
  <1> QED
    BY <1>5, <1>6

\* What the label writeReroll says of the task it is about.
LEMMA AboutToStore ==
  ASSUME Inv, NEW w \in Worker, pc[w] = "writeReroll", Counted(job[w])
  PROVE  /\ job[w] \in Task
         /\ \/ failures[job[w]] = RerollCap
            \/ count[w] + 1 <= failures[job[w]] /\ Capped(count[w] + 1) = count[w] + 1
  <1>1. /\ job[w] \in Task /\ count[w] \in 0 .. RerollCap /\ RerollCap \in Nat
        /\ failures[job[w]] \in 0 .. RerollCap
    BY JobIsTask, CountersAreTyped DEF Inv, TypeOK, WorkerTypeOK, Created
  <1>2. CASE failures[job[w]] # RerollCap
    <2>1. PICK S : S = Counting(job[w])
      OBVIOUS
    <2>2. w \in S /\ IsFiniteSet(S) /\ count[w] + Cardinality(S) <= failures[job[w]]
      BY <1>2, <2>1 DEF Counted, Counting
    <2>3. Cardinality(S) \in Nat /\ Cardinality(S) # 0
      BY <2>2, FS_CardinalityType, FS_EmptySet
    <2>4. count[w] + 1 <= failures[job[w]]
      BY <1>1, <2>2, <2>3
    <2> QED
      BY <1>1, <2>4 DEF Capped
  <1> QED
    BY <1>1, <1>2

\* w stores what it has read, and one: others may be behind it still.
LEMMA StoreRerollCounted ==
  ASSUME Inv, NEW w \in Worker, StoreReroll(w), \A u \in Task : Counted(u), NEW t \in Task
  PROVE  Counted(t)'
  <1>1. /\ pc[w] = "writeReroll" /\ job[w] \in Task
        /\ pc'[w] \notin {"readReroll", "writeReroll"}
        /\ \A v \in Worker \ {w} : pc'[v] = pc[v] /\ job'[v] = job[v] /\ count'[v] = count[v]
        /\ failures' = failures
        /\ rerolls' = [rerolls EXCEPT ![job[w]] = Capped(count[w] + 1)]
    BY JobIsTask
    DEF StoreReroll, WriteReroll, Leave, Goto, observedVars, Inv, TypeOK, WorkerTypeOK, Created
  <1>2. /\ rerolls \in [Task -> 0 .. RerollCap] /\ failures \in [Task -> 0 .. RerollCap]
        /\ \A v \in Worker : count[v] \in Int
    BY CountersAreTyped DEF Inv, TypeOK, StoreTypeOK, WorkerTypeOK
  <1>3. CASE job[w] # t
    BY <1>1, <1>2, <1>3, NobodyMore
  <1>4. CASE job[w] = t /\ failures[t] = RerollCap
    BY <1>1, <1>4 DEF Counted, RerollCap
  <1>5. CASE job[w] = t /\ failures[t] # RerollCap
    <2>1. PICK S : S = Counting(t)
      OBVIOUS
    <2>2. PICK T : T = Counting(t)'
      OBVIOUS
    <2>3. /\ IsFiniteSet(S)
          /\ \A v \in S : pc[v] = "writeReroll" => count[v] + Cardinality(S) <= failures[t]
      BY <1>5, <2>1 DEF Counted
    <2>4. w \in S /\ T = S \ {w}
      BY <1>1, <1>5, <2>1, <2>2 DEF Counting
    <2>5. /\ IsFiniteSet(T) /\ Cardinality(T) \in Nat /\ Cardinality(S) \in Nat
          /\ Cardinality(T) = Cardinality(S) - 1
      BY <2>3, <2>4, OneLess
    <2>6. rerolls'[t] = count[w] + 1
      BY <1>1, <1>2, <1>5, AboutToStore
    <2>7. rerolls'[t] + Cardinality(T) <= failures'[t]
      BY <1>1, <1>2, <2>3, <2>4, <2>5, <2>6
    <2>8. ASSUME NEW v \in T, pc'[v] = "writeReroll"
          PROVE  count'[v] + Cardinality(T) <= failures'[t]
      <3>1. v \in S /\ v \in Worker \ {w}
        BY <2>1, <2>4 DEF Counting
      <3> QED
        BY <1>1, <1>2, <2>3, <2>5, <2>8, <3>1
    <2> QED
      BY <2>2, <2>5, <2>7, <2>8 DEF Counted
  <1> QED
    BY <1>3, <1>4, <1>5

\* The callers, the clock and the gates move no worker and write no counter.
LEMMA OutsideWorkers ==
  ASSUME [Next]_vars, \A w \in Worker : ~WorkerStep(w)
  PROVE  UNCHANGED <<workerVars, observedVars, rerolls, deadLetters>>
  <1>1. ASSUME NEW t \in Task, NEW p \in Task \cup {Nil}, CreateTask(t, p)
        PROVE  UNCHANGED <<workerVars, observedVars, rerolls, deadLetters>>
    BY <1>1 DEF CreateTask, InsertTask, controlVars
  <1>2. CASE Tick
    BY <1>2 DEF Tick, Elapse, controlVars
  <1>3. ASSUME NEW g \in Gate, GateAction(g)
        PROVE  UNCHANGED <<workerVars, observedVars, rerolls, deadLetters>>
    BY <1>3 DEF GateAction, GateStep, RequestApproval, PutApproval, CheckTransition, WriteTransition,
       WriteState, Authorize, Reject, ReadDescendants, Prune, PruneRows, ClearLeases, DeleteLeases,
       BeginWait, WakeWaiter, WaitTimesOut, GateCrash, storeVars, taskVars, controlVars
  <1>4. CASE UNCHANGED vars
    BY <1>4 DEF vars, storeVars, taskVars, controlVars
  <1> QED
    BY <1>1, <1>2, <1>3, <1>4 DEF Next

\* The steps of a worker at which a run fails, is read or is stored are three.
LEMMA ElsewhereNotCounting ==
  ASSUME Inv, NEW w \in Worker, WorkerStep(w), ~ToolFails(w), ~ReadReroll(w), ~StoreReroll(w)
  PROVE  /\ \A v \in Worker \ {w} : pc'[v] = pc[v] /\ job'[v] = job[v] /\ count'[v] = count[v]
         /\ pc'[w] \notin {"readReroll", "writeReroll", "deadLetter"}
         /\ rerolls' = rerolls /\ failures' = failures
         /\ \A t \in Task : <<t, "reroll_limit_exhausted">> \in deadLetters' =>
               \/ <<t, "reroll_limit_exhausted">> \in deadLetters
               \/ pc[w] = "deadLetter" /\ t = job[w]
  <1> DEFINE Elsewhere ==
        /\ \A v \in Worker \ {w} : pc'[v] = pc[v] /\ job'[v] = job[v] /\ count'[v] = count[v]
        /\ pc'[w] \notin {"readReroll", "writeReroll", "deadLetter"}
        /\ rerolls' = rerolls /\ failures' = failures
        /\ \A t \in Task : <<t, "reroll_limit_exhausted">> \in deadLetters' =>
              \/ <<t, "reroll_limit_exhausted">> \in deadLetters
              \/ pc[w] = "deadLetter" /\ t = job[w]
  <1>1. WorkerTypeOK
    BY DEF Inv, TypeOK
  <1> USE <1>1 DEF WorkerTypeOK, storeVars, taskVars, controlVars, observedVars, Leave, Advance, Goto
  <1>2. CASE Start(w) \/ Idle(w) \/ ToolDeclines(w) \/ Crash(w)
    BY <1>2 DEF Start, Idle, ToolDeclines, Crash
  <1>3. CASE SweepQueue(w)
    BY <1>3 DEF SweepQueue, ReleaseExpired
  <1>4. CASE SweepControl(w) \/ ClearLease(w) \/ RecordLease(w)
    BY <1>4 DEF SweepControl, ClearLease, RecordLease, DeleteLeases, InsertLease
  <1>5. ASSUME NEW t \in Task, Claim(w, t) PROVE Elsewhere
    BY <1>5 DEF Claim, ClaimRow
  <1>6. CASE RefusePayload(w) \/ DeadLetter(w)
    BY <1>6 DEF RefusePayload, DeadLetter, InsertDeadLetter
  <1>7. CASE ToolSucceeds(w)
    BY <1>7 DEF ToolSucceeds
  <1>8. CASE CheckComplete(w)
    BY <1>8 DEF CheckComplete
  <1>9. CASE Complete(w)
    BY <1>9 DEF Complete, WriteCompleted
  <1> QED
    BY <1>2, <1>3, <1>4, <1>5, <1>6, <1>7, <1>8, <1>9, RaisingIsCrashing DEF WorkerStep, RunOnce

LEMMA RerollStep == Inv /\ RerollInv /\ [Next]_vars => RerollInv'
  <1> SUFFICES ASSUME Inv, RerollInv, [Next]_vars PROVE RerollInv'
    OBVIOUS
  <1>a. /\ failures \in [Task -> 0 .. RerollCap] /\ RerollCap' = RerollCap
        /\ pc \in [Worker -> Label] /\ job \in [Worker -> Task \cup {Nil}]
        /\ \A w \in Worker : pc[w] = "deadLetter" => job[w] \in Task
    BY JobIsTask DEF Inv, TypeOK, WorkerTypeOK, Created, RerollCap
  <1>1. ASSUME \A w \in Worker : ~WorkerStep(w) PROVE RerollInv'
    <2>1. UNCHANGED <<pc, job, count, failures, rerolls, deadLetters>>
      BY <1>1, OutsideWorkers DEF workerVars, observedVars
    <2>2. \A t \in Task : Counted(t)'
      BY <2>1 DEF RerollInv, Counted, Counting, RerollCap
    <2> QED
      BY <1>a, <2>1, <2>2 DEF RerollInv, DeadLetterJustified
  <1>2. ASSUME NEW w \in Worker, WorkerStep(w) PROVE RerollInv'
    <2>1. CASE ToolFails(w)
      <3>1. \A t \in Task : Counted(t)'
        BY <2>1, ToolFailsCounted DEF RerollInv
      <3>2. \A t \in Task : failures[t] = RerollCap => failures'[t] = RerollCap
        BY <1>a, <2>1, CountersAreTyped DEF ToolFails, Capped
      <3>3. /\ deadLetters' = deadLetters /\ job' = job
            /\ \A v \in Worker : pc'[v] = "deadLetter" => pc[v] = "deadLetter"
        BY <1>a, <2>1 DEF ToolFails, Advance, Goto, storeVars, controlVars
      <3> QED
        BY <1>a, <3>1, <3>2, <3>3 DEF RerollInv, DeadLetterJustified
    <2>2. CASE ReadReroll(w)
      <3>1. \A t \in Task : Counted(t)'
        BY <2>2, ReadRerollCounted DEF RerollInv
      <3>2. /\ deadLetters' = deadLetters /\ job' = job /\ failures' = failures
            /\ \A v \in Worker : pc'[v] = "deadLetter" => pc[v] = "deadLetter"
        BY <1>a, <2>2 DEF ReadReroll, Goto, storeVars, controlVars, observedVars
      <3> QED
        BY <1>a, <3>1, <3>2 DEF RerollInv, DeadLetterJustified
    <2>3. CASE StoreReroll(w)
      <3>1. \A t \in Task : Counted(t)'
        BY <2>3, StoreRerollCounted DEF RerollInv
      <3>2. /\ deadLetters' = deadLetters /\ failures' = failures /\ pc[w] = "writeReroll"
            /\ \A v \in Worker \ {w} : pc'[v] = pc[v] /\ job'[v] = job[v]
            /\ pc'[w] = "deadLetter" => job'[w] = job[w] /\ Capped(count[w] + 1) > MaxRerolls
        BY <1>a, <2>3 DEF StoreReroll, Leave, Goto, controlVars, observedVars
      <3>3. pc'[w] = "deadLetter" => failures[job[w]] = RerollCap
        <4>1. Counted(job[w]) /\ failures[job[w]] \in 0 .. RerollCap /\ count[w] \in Int
          BY <1>a, <3>2, JobIsTask, CountersAreTyped
          DEF RerollInv, Inv, TypeOK, WorkerTypeOK, Created
        <4> QED
          BY <3>2, <4>1, AboutToStore, ConstantsOK DEF RerollCap
      <3> QED
        BY <1>a, <3>1, <3>2, <3>3 DEF RerollInv, DeadLetterJustified
    <2>4. CASE ~ToolFails(w) /\ ~ReadReroll(w) /\ ~StoreReroll(w)
      <3>1. /\ \A v \in Worker \ {w} :
                  pc'[v] = pc[v] /\ job'[v] = job[v] /\ count'[v] = count[v]
            /\ pc'[w] \notin {"readReroll", "writeReroll", "deadLetter"}
            /\ rerolls' = rerolls /\ failures' = failures
            /\ \A t \in Task : <<t, "reroll_limit_exhausted">> \in deadLetters' =>
                  \/ <<t, "reroll_limit_exhausted">> \in deadLetters
                  \/ pc[w] = "deadLetter" /\ t = job[w]
        BY <1>2, <2>4, ElsewhereNotCounting
      <3>2. \A t \in Task : Counted(t)'
        BY <3>1, NobodyMore DEF RerollInv
      <3> QED
        BY <1>a, <3>1, <3>2 DEF RerollInv, DeadLetterJustified
    <2> QED
      BY <2>1, <2>2, <2>3, <2>4
  <1> QED
    BY <1>1, <1>2

\* A task is dead-lettered for its rerolls only after it failed more than
\* max_rerolls times, however many workers run it at once: what the writes of
\* add_negative_constraint lose makes the counter late and never early
\* (execution_loop.py 42-52, queue_repo.py 395-411).
THEOREM DeadLetterJustifiedCorrect == Spec => []DeadLetterJustified
  <1>1. Init => RerollInv
    <2> SUFFICES ASSUME Init PROVE RerollInv
      OBVIOUS
    <2>1. ASSUME NEW t \in Task PROVE Counted(t)
      <3>1. Counting(t) = {} /\ rerolls[t] = 0 /\ failures[t] = 0
        BY DEF Init, StoreInit, WorkerInit, Counting
      <3>2. IsFiniteSet(Counting(t)) /\ Cardinality(Counting(t)) = 0
        BY <3>1, FS_EmptySet
      <3> QED
        BY <3>1, <3>2 DEF Counted
    <2> QED
      BY <2>1 DEF Init, StoreInit, WorkerInit, RerollInv, DeadLetterJustified
  <1>2. RerollInv => DeadLetterJustified
    BY DEF RerollInv
  <1> QED
    BY <1>1, <1>2, InitInv, NextKeepsInv, RerollStep, PTL DEF Spec

-----------------------------------------------------------------------------
(* Approvals.  A gate that will move a task to PENDING_APPROVAL has its row  *)
(* in the table, and rows never change their task.                          *)

\* Only the gates write approvals, or have calls.
LEMMA OutsideGates ==
  ASSUME [Next]_vars, \A g \in Gate : ~GateAction(g)
  PROVE  UNCHANGED <<gateVars, approvalVars>>
  <1>1. ASSUME NEW t \in Task, NEW p \in Task \cup {Nil}, CreateTask(t, p)
        PROVE  UNCHANGED <<gateVars, approvalVars>>
    BY <1>1 DEF CreateTask
  <1>2. CASE Tick
    BY <1>2 DEF Tick
  <1>3. ASSUME NEW w \in Worker, WorkerStep(w)
        PROVE  UNCHANGED <<gateVars, approvalVars>>
    BY <1>3 DEF WorkerStep, RunOnce, Start, SweepQueue, SweepControl, Claim, Idle, RecordLease,
       RefusePayload, ToolSucceeds, ToolDeclines, ToolFails, ToolRaises, ReadReroll, StoreReroll,
       DeadLetter, CheckComplete, Complete, ClearLease, Crash, storeVars
  <1>4. CASE UNCHANGED vars
    BY <1>4 DEF vars, storeVars
  <1> QED
    BY <1>1, <1>2, <1>3, <1>4 DEF Next

\* A state is written by create_task, by complete_task and by a transition.
LEMMA StateWritten ==
  ASSUME Inv, [Next]_vars, NEW t \in Task, state'[t] # state[t]
  PROVE  \/ state[t] = "NONE" /\ state'[t] = "PLANNING"
         \/ state'[t] = "COMPLETED"
         \/ \E g \in Gate : WriteTransition(g) /\ target[g] = t /\ state'[t] = move[g][2]
  <1>a. state \in [Task -> TaskState \cup {"NONE"}]
    BY DEF Inv, TypeOK, StoreTypeOK
  <1>1. ASSUME NEW u \in Task, NEW p \in Task \cup {Nil}, CreateTask(u, p)
        PROVE  state[t] = "NONE" /\ state'[t] = "PLANNING"
    BY <1>a, <1>1 DEF CreateTask, InsertTask
  <1>2. CASE Tick
    BY <1>2 DEF Tick, Elapse
  <1>3. ASSUME NEW w \in Worker, WorkerStep(w)
        PROVE  state'[t] = "COMPLETED"
    <2>1. CASE SweepQueue(w)
      BY <2>1 DEF SweepQueue, ReleaseExpired
    <2>2. CASE StoreReroll(w)
      BY <2>2 DEF StoreReroll, WriteReroll
    <2>3. CASE Complete(w)
      BY <1>a, <2>3 DEF Complete, WriteCompleted
    <2>4. ASSUME NEW u \in Task, Claim(w, u) PROVE state'[t] = "COMPLETED"
      BY <2>4 DEF Claim, ClaimRow
    <2>5. CASE UNCHANGED taskVars
      BY <2>5 DEF taskVars
    <2> QED
      BY <1>3, <2>1, <2>2, <2>3, <2>4, <2>5, WorkerWritesTasks
  <1>4. ASSUME NEW g \in Gate, GateAction(g)
        PROVE  WriteTransition(g) /\ target[g] = t /\ state'[t] = move[g][2]
    <2>1. CASE Prune(g)
      BY <2>1 DEF Prune, PruneRows
    <2>2. CASE UNCHANGED taskVars
      BY <2>2 DEF taskVars
    <2>3. CASE WriteTransition(g)
      BY <1>a, <2>3 DEF WriteTransition, WriteState
    <2> QED
      BY <1>4, <2>1, <2>2, <2>3, GateWritesTasks
  <1>5. CASE UNCHANGED vars
    BY <1>5 DEF vars, storeVars, taskVars
  <1> QED
    BY <1>1, <1>2, <1>3, <1>4, <1>5 DEF Next

\* The row of an approval is there for good.
LEMMA RowsStay ==
  ASSUME Inv, [Next]_vars, NEW a \in Approval, approvalTask[a] # Nil
  PROVE  approvalTask'[a] = approvalTask[a]
  <1>1. ASSUME NEW g \in Gate, GateAction(g) PROVE approvalTask'[a] = approvalTask[a]
    <2>1. CASE PutApproval(g)
      BY <2>1 DEF PutApproval, InsertApproval, approvalVars, Inv, TypeOK, StoreTypeOK
    <2>2. CASE ~PutApproval(g)
      BY <1>1, <2>2 DEF GateAction, GateStep, RequestApproval, CheckTransition, WriteTransition,
         Authorize, Reject, Decide, ReadDescendants, Prune, ClearLeases, BeginWait, WakeWaiter,
         WaitTimesOut, GateCrash, storeVars, approvalVars
    <2> QED
      BY <2>1, <2>2
  <1>2. CASE \A g \in Gate : ~GateAction(g)
    BY <1>2, OutsideGates DEF approvalVars
  <1> QED
    BY <1>1, <1>2

\* The calls of the other gates, and their waiters, stay.
LEMMA OtherGates ==
  ASSUME Inv, NEW g \in Gate, GateAction(g), NEW h \in Gate \ {g}
  PROVE  /\ at'[h] = at[h] /\ target'[h] = target[h] /\ move'[h] = move[h] /\ doomed'[h] = doomed[h]
         /\ seen'[h] = seen[h] /\ waiter'[h] = waiter[h] /\ signalled'[h] = signalled[h]
  BY DEF Inv, TypeOK, GateTypeOK, GateAction, GateStep, RequestApproval, PutApproval,
     CheckTransition, WriteTransition, Authorize, Reject, ReadDescendants, Prune, ClearLeases,
     BeginWait, WakeWaiter, WaitTimesOut, GateCrash, Return, Proceed, Signal, callVars

AskedInv ==
    /\ PendingHasApproval
    /\ \A g \in Gate :
        at[g] \in {"checkTransition", "writeTransition"} /\ move[g][2] = "PENDING_APPROVAL" =>
            \E a \in Approval : approvalTask[a] = target[g]

LEMMA AskedStep == Inv /\ AskedInv /\ [Next]_vars => AskedInv'
  <1> SUFFICES ASSUME Inv, AskedInv, [Next]_vars PROVE AskedInv'
    OBVIOUS
  <1>a. Nil \notin Task /\ (\A g \in Gate : at[g] # "idle" => target[g] \in Task)
    BY ConstantsOK, CallIsTyped DEF Created
  <1>1. \A u \in Task : (\E a \in Approval : approvalTask[a] = u) =>
                        (\E a \in Approval : approvalTask'[a] = u)
    BY <1>a, RowsStay
  <1>2. ASSUME NEW t \in Task, state'[t] = "PENDING_APPROVAL"
        PROVE  \E a \in Approval : approvalTask'[a] = t
    <2>1. CASE state[t] = "PENDING_APPROVAL"
      BY <1>1, <2>1 DEF AskedInv, PendingHasApproval
    <2>2. CASE state[t] # "PENDING_APPROVAL"
      <3>1. PICK g \in Gate : WriteTransition(g) /\ target[g] = t /\ move[g][2] = "PENDING_APPROVAL"
        BY <1>2, <2>2, StateWritten
      <3>2. \E a \in Approval : approvalTask[a] = t
        BY <3>1 DEF AskedInv, WriteTransition
      <3> QED
        BY <1>1, <3>2
    <2> QED
      BY <2>1, <2>2
  <1>3. ASSUME NEW h \in Gate, at'[h] \in {"checkTransition", "writeTransition"},
               move'[h][2] = "PENDING_APPROVAL"
        PROVE  \E a \in Approval : approvalTask'[a] = target'[h]
    <2>1. CASE /\ at'[h] = at[h] \/ at[h] = "checkTransition"
               /\ target'[h] = target[h] /\ move'[h] = move[h]
      <3>1. at[h] \in {"checkTransition", "writeTransition"}
        BY <1>3, <2>1
      <3> QED
        BY <1>1, <1>3, <1>a, <2>1, <3>1 DEF AskedInv
    <2>2. CASE GateAction(h)
      <3>1. GateTypeOK /\ StoreTypeOK
        BY DEF Inv, TypeOK
      <3> USE <1>3, <3>1 DEF GateTypeOK, StoreTypeOK
      <3>2. CASE PutApproval(h)
        <4>1. ticket[h] \in Approval /\ at[h] = "insertApproval"
          BY <3>2, CallIsTyped DEF PutApproval
        <4> QED
          BY <3>2, <4>1 DEF PutApproval, InsertApproval, Proceed, Return
      <3>3. CASE CheckTransition(h)
        <4>1. CASE Proceed(h, "checkTransition", "writeTransition")
          BY <2>1, <4>1 DEF Proceed
        <4>2. CASE Return(h)
          BY <4>2 DEF Return
        <4> QED
          BY <3>3, <4>1, <4>2 DEF CheckTransition
      <3>4. ASSUME NEW t \in Task, Authorize(h, t) \/ Reject(h, t)
            PROVE  FALSE
        BY <3>4 DEF Authorize, Reject
      <3>5. ASSUME NEW t \in Task, NEW a \in Approval, RequestApproval(h, t, a)
            PROVE  FALSE
        BY <3>5 DEF RequestApproval
      <3>6. CASE WriteTransition(h) \/ ClearLeases(h) \/ GateCrash(h)
        BY <3>6 DEF WriteTransition, ClearLeases, GateCrash, Return
      <3>7. CASE ReadDescendants(h) \/ Prune(h)
        BY <3>7 DEF ReadDescendants, Prune, Proceed
      <3>8. ASSUME NEW t \in Task, BeginWait(h, t) \/ WakeWaiter(h, t) \/ WaitTimesOut(h, t)
            PROVE  at' = at /\ at[h] = "idle"
        BY <3>8 DEF BeginWait, WakeWaiter, WaitTimesOut, callVars
      <3> QED
        BY <2>2, <3>2, <3>3, <3>4, <3>5, <3>6, <3>7, <3>8 DEF GateAction, GateStep
    <2>3. CASE \E g \in Gate \ {h} : GateAction(g)
      BY <2>1, <2>3, OtherGates
    <2>4. CASE \A g \in Gate : ~GateAction(g)
      BY <2>1, <2>4, OutsideGates DEF gateVars, callVars
    <2> QED
      BY <2>2, <2>3, <2>4
  <1> QED
    BY <1>2, <1>3 DEF AskedInv, PendingHasApproval

\* A task waits for approval only if there is a row an operator can decide or
\* has decided, whatever the workers and the other gates do between the SELECT
\* and the UPDATE of its transition (queue_repo.py 215-242, 332-353).
THEOREM PendingHasApprovalCorrect == Spec => []PendingHasApproval
  <1>1. Init => AskedInv
    BY DEF Init, StoreInit, GateInit, AskedInv, PendingHasApproval
  <1>2. AskedInv => PendingHasApproval
    BY DEF AskedInv
  <1> QED
    BY <1>1, <1>2, InitInv, NextKeepsInv, AskedStep, PTL DEF Spec

-----------------------------------------------------------------------------
(* The lease rows of one daemon.  A gate deletes rows by task id in a later *)
(* commit than it cleared the leases in; that this meets no lease given in  *)
(* between is because what it pruned is over.                               *)

\* No resolution becomes ACTIVE again.
LEMMA OverForGood ==
  ASSUME Inv, [Next]_vars, NEW u \in Task, resolution[u] # "ACTIVE"
  PROVE  resolution'[u] # "ACTIVE"
  <1>1. ASSUME NEW t \in Task, NEW p \in Task \cup {Nil}, CreateTask(t, p)
        PROVE  resolution' = resolution
    BY <1>1 DEF CreateTask, InsertTask
  <1>2. CASE Tick
    BY <1>2 DEF Tick, Elapse
  <1>3. ASSUME NEW w \in Worker, WorkerStep(w) PROVE resolution' = resolution
    <2>1. CASE SweepQueue(w)
      BY <2>1 DEF SweepQueue, ReleaseExpired
    <2>2. CASE StoreReroll(w)
      BY <2>2 DEF StoreReroll, WriteReroll
    <2>3. CASE Complete(w)
      BY <2>3 DEF Complete, WriteCompleted
    <2>4. ASSUME NEW t \in Task, Claim(w, t) PROVE resolution' = resolution
      BY <2>4 DEF Claim, ClaimRow
    <2>5. CASE UNCHANGED taskVars
      BY <2>5 DEF taskVars
    <2> QED
      BY <1>3, <2>1, <2>2, <2>3, <2>4, <2>5, WorkerWritesTasks
  <1>4. ASSUME NEW g \in Gate, GateAction(g) PROVE resolution'[u] # "ACTIVE"
    <2>1. CASE WriteTransition(g)
      BY <2>1 DEF WriteTransition, WriteState
    <2>2. CASE Prune(g)
      BY <2>2 DEF Prune, PruneRows
    <2>3. CASE UNCHANGED taskVars
      BY <2>3 DEF taskVars
    <2> QED
      BY <1>4, <2>1, <2>2, <2>3, GateWritesTasks
  <1>5. CASE UNCHANGED vars
    BY <1>5 DEF vars, storeVars, taskVars
  <1> QED
    BY <1>1, <1>2, <1>3, <1>4, <1>5 DEF Next

\* What a gate is about to delete the lease rows of has been rejected or pruned.
DoomedOver ==
    \A g \in Gate : at[g] = "clearLeases" =>
        \A u \in {target[g]} \cup doomed[g] : resolution[u] # "ACTIVE"

LEMMA DoomedStep == Inv /\ DoomedOver /\ [Next]_vars => DoomedOver'
  <1> SUFFICES ASSUME Inv, DoomedOver, [Next]_vars, NEW h \in Gate, at'[h] = "clearLeases",
                      NEW u \in {target'[h]} \cup doomed'[h]
               PROVE  resolution'[u] # "ACTIVE"
    BY DEF DoomedOver
  <1>a. GateTypeOK /\ StoreTypeOK
    BY DEF Inv, TypeOK
  <1>1. CASE at[h] = "clearLeases" /\ target'[h] = target[h] /\ doomed'[h] = doomed[h]
    <2>1. u \in Task
      BY <1>1, <1>a, CallIsTyped DEF GateTypeOK, Created
    <2> QED
      BY <1>1, <2>1, OverForGood DEF DoomedOver
  <1>2. CASE GateAction(h)
    <2>1. Prune(h)
      BY <1>2, <1>a DEF GateAction, GateStep, RequestApproval, PutApproval, CheckTransition,
         WriteTransition, Authorize, Reject, ReadDescendants, ClearLeases, BeginWait, WakeWaiter,
         WaitTimesOut, GateCrash, Return, Proceed, callVars, GateTypeOK
    <2>2. target'[h] = target[h] /\ doomed'[h] = doomed[h] /\ at[h] = "prune"
      BY <2>1 DEF Prune, Proceed
    <2>3. u \in Task
      BY <2>2, <1>a, CallIsTyped DEF GateTypeOK, Created
    <2> QED
      BY <2>1, <2>2, <2>3 DEF Prune, PruneRows
  <1>3. CASE \E g \in Gate \ {h} : GateAction(g)
    BY <1>1, <1>3, OtherGates
  <1>4. CASE \A g \in Gate : ~GateAction(g)
    BY <1>1, <1>4, OutsideGates DEF gateVars, callVars
  <1> QED
    BY <1>2, <1>3, <1>4

\* A gate gives nobody a lease.
LEMMA GateLeasesNobody ==
  ASSUME Inv, NEW g \in Gate, GateAction(g), NEW t \in Task, NEW w \in Worker, owner'[t] = w
  PROVE  owner[t] = w
  <1>1. StoreTypeOK /\ Nil \notin Worker
    BY ConstantsOK DEF Inv, TypeOK
  <1>2. CASE WriteTransition(g)
    BY <1>2 DEF WriteTransition, WriteState
  <1>3. CASE Prune(g)
    BY <1>1, <1>3 DEF Prune, PruneRows, DropLeases
  <1>4. CASE UNCHANGED taskVars
    BY <1>4 DEF taskVars
  <1> QED
    BY <1>2, <1>3, <1>4, GateWritesTasks

\* And it deletes no row of a task that is leased.
LEMMA GateKeepsRows ==
  ASSUME Inv, TerminalUnleased, DoomedOver, NEW g \in Gate, GateAction(g),
         NEW t \in Task, NEW w \in Worker, owner[t] = w, <<t, w>> \in leases
  PROVE  <<t, w>> \in leases'
  <1>1. CASE ClearLeases(g)
    <2>1. Nil \notin Worker
      BY ConstantsOK
    <2>2. t \notin {target[g]} \cup doomed[g]
      BY <1>1, <2>1 DEF ClearLeases, DoomedOver, TerminalUnleased
    <2> QED
      BY <1>1, <2>2 DEF ClearLeases, DeleteLeases
  <1>2. CASE ~ClearLeases(g)
    BY <1>2 DEF GateAction, GateStep, RequestApproval, PutApproval, CheckTransition,
       WriteTransition, Authorize, Reject, ReadDescendants, Prune, BeginWait, WakeWaiter,
       WaitTimesOut, GateCrash, storeVars, controlVars
  <1> QED
    BY <1>1, <1>2

\* One daemon on the state directory, as main.py deploys it.
OneWorker == \A v, w \in Worker : v = w

LEMMA LeaseRowStep ==
  OneWorker /\ Inv /\ TerminalUnleased /\ DoomedOver /\ OwnerHasLeaseRow /\ [Next]_vars
    => OwnerHasLeaseRow'
  <1> SUFFICES ASSUME OneWorker, Inv, TerminalUnleased, DoomedOver, OwnerHasLeaseRow, [Next]_vars,
                      NEW w \in Worker, pc'[w] = "execute", owner'[job'[w]] = w
               PROVE  <<job'[w], w>> \in leases'
    BY DEF OwnerHasLeaseRow
  <1>a. WorkerTypeOK /\ Inv
    BY DEF Inv, TypeOK
  <1>1. CASE WorkerStep(w)
    <2>1. RecordLease(w)
      BY <1>1, <1>a DEF WorkerStep, RunOnce, Start, SweepQueue, SweepControl, Claim, Idle,
         RefusePayload, ToolSucceeds, ToolDeclines, ToolFails, ToolRaises, ReadReroll, StoreReroll,
         DeadLetter, CheckComplete, Complete, ClearLease, Crash, Leave, Advance, Goto, WorkerTypeOK
    <2> QED
      BY <2>1 DEF RecordLease, InsertLease, Advance
  <1>2. CASE pc' = pc /\ job' = job /\ owner' = owner /\ leases' = leases
    BY <1>2 DEF OwnerHasLeaseRow
  <1>3. ASSUME NEW g \in Gate, GateAction(g) PROVE <<job'[w], w>> \in leases'
    <2>1. pc' = pc /\ job' = job
      BY <1>3 DEF GateAction, workerVars
    <2>2. job[w] \in Task
      BY <2>1, <1>a, JobIsTask DEF Created
    <2>3. owner[job[w]] = w
      BY <1>3, <2>1, <2>2, GateLeasesNobody
    <2>4. <<job[w], w>> \in leases
      BY <2>1, <2>3 DEF OwnerHasLeaseRow
    <2> QED
      BY <1>3, <2>1, <2>2, <2>3, <2>4, GateKeepsRows
  <1>4. ASSUME NEW t \in Task, NEW p \in Task \cup {Nil}, CreateTask(t, p)
        PROVE  <<job'[w], w>> \in leases'
    BY <1>2, <1>4 DEF CreateTask, InsertTask, workerVars, controlVars
  <1>5. CASE Tick
    BY <1>2, <1>5 DEF Tick, Elapse, workerVars, controlVars
  <1>6. CASE UNCHANGED vars
    BY <1>2, <1>6 DEF vars, storeVars, taskVars, workerVars, controlVars
  <1> QED
    BY <1>1, <1>3, <1>4, <1>5, <1>6 DEF Next, OneWorker

\* While the only worker executes a task it owns, the lease row an operator
\* would look for is in control.db, whatever the gates reject meanwhile
\* (queue_repo.py 118-169, 274-312).
THEOREM OwnerHasLeaseRowCorrect ==
  ASSUME OneWorker
  PROVE  Spec => []OwnerHasLeaseRow
  <1>1. Init => TerminalUnleased /\ DoomedOver /\ OwnerHasLeaseRow
    BY DEF Init, StoreInit, WorkerInit, GateInit, TerminalUnleased, DoomedOver, OwnerHasLeaseRow
  <1>2. Inv /\ TerminalUnleased /\ DoomedOver /\ OwnerHasLeaseRow /\ [Next]_vars => OwnerHasLeaseRow'
    BY LeaseRowStep
  <1> QED
    BY <1>1, <1>2, InitInv, NextKeepsInv, TerminalUnleasedStep, DoomedStep, PTL DEF Spec

-----------------------------------------------------------------------------
(* Decisions.  The rows a call of approve_task saw stay decided, whatever   *)
(* the other processes insert before its transition is written.             *)

\* Nothing makes a decided approval pending again.
LEMMA DecisionsStay ==
  ASSUME Inv, [Next]_vars, NEW a \in Approval, decision[a] # "PENDING"
  PROVE  decision'[a] = decision[a]
  <1>1. ASSUME NEW g \in Gate, GateAction(g) PROVE decision'[a] = decision[a]
    <2>1. ASSUME NEW t \in Task, Authorize(g, t) \/ Reject(g, t) PROVE decision'[a] = decision[a]
      BY <2>1 DEF Authorize, Reject, Decide
    <2>2. CASE \A t \in Task : ~Authorize(g, t) /\ ~Reject(g, t)
      BY <1>1, <2>2 DEF GateAction, GateStep, RequestApproval, PutApproval, InsertApproval,
         CheckTransition, WriteTransition, ReadDescendants, Prune, ClearLeases, BeginWait, WakeWaiter,
         WaitTimesOut, GateCrash, storeVars, approvalVars
    <2> QED
      BY <2>1, <2>2
  <1>2. CASE \A g \in Gate : ~GateAction(g)
    BY <1>2, OutsideGates DEF approvalVars
  <1> QED
    BY <1>1, <1>2

\* A call that is not about to ask for PENDING_APPROVAL is one of approve_task,
\* and it has decided the rows it saw.
ReleaseOK(g) ==
    /\ at[g] = "insertApproval" => move[g][2] = "PENDING_APPROVAL"
    /\ at[g] \in {"checkTransition", "writeTransition"} /\ move[g][2] # "PENDING_APPROVAL" =>
         /\ g \in Decider
         /\ move[g] = <<"PENDING_APPROVAL", "PLANNING">>
         /\ \A a \in seen[g] : decision[a] # "PENDING"

ReleaseInv == \A g \in Gate : ReleaseOK(g)

LEMMA ReleaseStep == Inv /\ ReleaseInv /\ [Next]_vars => ReleaseInv'
  <1> SUFFICES ASSUME Inv, ReleaseInv, [Next]_vars, NEW g \in Gate
               PROVE  ReleaseOK(g)'
    BY DEF ReleaseInv
  <1>a. /\ GateTypeOK /\ StoreTypeOK /\ ReleaseOK(g)
        /\ \A a \in Approval : decision[a] # "PENDING" => decision'[a] # "PENDING"
    BY DecisionsStay DEF Inv, TypeOK, ReleaseInv
  <1> USE <1>a DEF GateTypeOK, StoreTypeOK
  <1>1. CASE /\ target'[g] = target[g] /\ move'[g] = move[g] /\ seen'[g] = seen[g]
             /\ \/ at'[g] = at[g]
                \/ at[g] = "insertApproval" /\ at'[g] = "checkTransition"
                \/ at[g] = "checkTransition" /\ at'[g] = "writeTransition"
    <2>1. seen[g] \subseteq Approval
      OBVIOUS
    <2> QED
      BY <1>1, <2>1 DEF ReleaseOK
  <1>2. CASE GateAction(g)
    <2>1. ASSUME NEW t \in Task, NEW a \in Approval, RequestApproval(g, t, a) PROVE ReleaseOK(g)'
      BY <2>1 DEF RequestApproval, ReleaseOK
    <2>2. ASSUME NEW t \in Task, Authorize(g, t) PROVE ReleaseOK(g)'
      <3>1. /\ g \in Decider /\ at'[g] = "checkTransition"
            /\ move'[g] = <<"PENDING_APPROVAL", "PLANNING">>
            /\ seen'[g] = RowsOf(t) /\ Decide(t, "APPROVED")
        BY <2>2 DEF Authorize
      <3>2. \A a \in RowsOf(t) : decision'[a] # "PENDING"
        BY <3>1 DEF Decide, RowsOf
      <3> QED
        BY <3>1, <3>2 DEF ReleaseOK
    <2>3. ASSUME NEW t \in Task, Reject(g, t) PROVE ReleaseOK(g)'
      BY <2>3 DEF Reject, ReleaseOK
    <2>4. ASSUME NEW t \in Task, BeginWait(g, t) \/ WakeWaiter(g, t) \/ WaitTimesOut(g, t)
          PROVE  ReleaseOK(g)'
      BY <1>1, <2>4 DEF BeginWait, WakeWaiter, WaitTimesOut, callVars
    <2>5. CASE PutApproval(g) \/ CheckTransition(g)
      <3>1. CASE at'[g] = "idle"
        BY <3>1 DEF ReleaseOK
      <3>2. CASE at'[g] # "idle"
        BY <1>1, <2>5, <3>2 DEF PutApproval, CheckTransition, Proceed, Return
      <3> QED
        BY <3>1, <3>2
    <2>6. CASE WriteTransition(g) \/ ClearLeases(g) \/ GateCrash(g) \/ ReadDescendants(g) \/ Prune(g)
      <3>1. at'[g] \in {"idle", "prune", "clearLeases"}
        BY <2>6 DEF WriteTransition, ClearLeases, GateCrash, ReadDescendants, Prune, Return, Proceed
      <3> QED
        BY <3>1 DEF ReleaseOK
    <2> QED
      BY <1>2, <2>1, <2>2, <2>3, <2>4, <2>5, <2>6 DEF GateAction, GateStep
  <1>3. CASE \E h \in Gate \ {g} : GateAction(h)
    BY <1>1, <1>3, OtherGates
  <1>4. CASE \A h \in Gate : ~GateAction(h)
    BY <1>1, <1>4, OutsideGates DEF gateVars, callVars
  <1> QED
    BY <1>2, <1>3, <1>4

\* For any number of processes that ask and decide: a task goes from
\* PENDING_APPROVAL back to PLANNING by a call of approve_task which has decided
\* all the approvals of the task it found; what is still pending was inserted
\* after its first commit (queue_repo.py 354-366).
THEOREM ReleaseDecidesCorrect == Spec => ReleaseDecides
  <1> DEFINE A ==
        \A t \in Task :
            state[t] = "PENDING_APPROVAL" /\ state'[t] = "PLANNING" =>
                \E g \in Decider :
                    /\ at[g] = "writeTransition" /\ target[g] = t
                    /\ PendingOf(t) \cap seen[g] = {}
  <1>1. Init => ReleaseInv
    BY DEF Init, GateInit, ReleaseInv, ReleaseOK
  <1>2. Inv /\ ReleaseInv /\ [Next]_vars => ReleaseInv'
    BY ReleaseStep
  <1>3. Inv /\ ReleaseInv /\ [Next]_vars => A
    <2> SUFFICES ASSUME Inv, ReleaseInv, [Next]_vars, NEW t \in Task,
                        state[t] = "PENDING_APPROVAL", state'[t] = "PLANNING"
                 PROVE  \E g \in Decider : /\ at[g] = "writeTransition" /\ target[g] = t
                                           /\ PendingOf(t) \cap seen[g] = {}
      OBVIOUS
    <2>1. PICK g \in Gate : WriteTransition(g) /\ target[g] = t /\ move[g][2] = "PLANNING"
      BY StateWritten
    <2>2. at[g] = "writeTransition" /\ g \in Decider /\ \A a \in seen[g] : decision[a] # "PENDING"
      BY <2>1 DEF WriteTransition, ReleaseInv, ReleaseOK
    <2> QED
      BY <2>1, <2>2 DEF PendingOf
  <1>4. Inv /\ ReleaseInv /\ [Next]_vars => [A]_vars
    BY <1>3
  <1> QED
    BY <1>1, <1>2, <1>4, InitInv, NextKeepsInv, PTL DEF Spec, ReleaseDecides

-----------------------------------------------------------------------------
(* Waiters.  One process decides and waits, as its events are its own; any  *)
(* number of others ask for approvals between its commits.                  *)

OneDecider == \A g, h \in Decider : g = h

\* A completion is logged for good.
LEMMA CompletionsStay ==
  ASSUME Inv, [Next]_vars, NEW t \in completions
  PROVE  t \in completions'
  <1>1. ASSUME NEW w \in Worker, WorkerStep(w) PROVE t \in completions'
    <2>1. CASE Complete(w)
      BY <2>1 DEF Complete, WriteCompleted
    <2>2. CASE SweepQueue(w) \/ StoreReroll(w) \/ \E u \in Task : Claim(w, u)
      BY <2>2 DEF SweepQueue, ReleaseExpired, StoreReroll, WriteReroll, Claim, ClaimRow
    <2>3. CASE UNCHANGED taskVars
      BY <2>3 DEF taskVars
    <2> QED
      BY <1>1, <2>1, <2>2, <2>3, WorkerWritesTasks
  <1>2. ASSUME NEW g \in Gate, GateAction(g) PROVE t \in completions'
    <2>1. CASE WriteTransition(g) \/ Prune(g)
      BY <2>1 DEF WriteTransition, WriteState, Prune, PruneRows
    <2>2. CASE UNCHANGED taskVars
      BY <2>2 DEF taskVars
    <2> QED
      BY <1>2, <2>1, <2>2, GateWritesTasks
  <1> QED
    BY <1>1, <1>2 DEF Next, CreateTask, InsertTask, Tick, Elapse, vars, storeVars, taskVars

\* The coroutine waits, one of its approvals is decided, and its event is not set.
Waiting(g, t) == waiter[g][t].status = "waiting"
Owed(g, t) ==
    /\ Waiting(g, t)
    /\ t \notin signalled[g]
    /\ \E a \in waiter[g][t].awaited : decision[a] # "PENDING"

\* The call of g that decided will set it, or find the task completed.
Deciding(g, t) ==
    /\ target[g] = t
    /\ \/ at[g] \in {"readDescendants", "prune", "clearLeases"}
       \/ /\ at[g] \in {"checkTransition", "writeTransition"}
          /\ move[g] = <<"PENDING_APPROVAL", "PLANNING">>

WaitOK(g, t) ==
    /\ Waiting(g, t) =>
         /\ g \in Decider
         /\ t \in Awaited
         /\ \A a \in waiter[g][t].awaited : approvalTask[a] = t
         /\ t \notin signalled[g] => state[t] = "PENDING_APPROVAL" \/ t \in completions
    /\ Owed(g, t) => t \in completions \/ Deciding(g, t)

WaitInv == \A g \in Gate, t \in Task : WaitOK(g, t)

\* The waiter and its event stay, and so do the rows it waits for.
LEMMA WaitGoesOn ==
  ASSUME Inv, [Next]_vars, NEW g \in Gate, NEW t \in Task, WaitOK(g, t),
         waiter'[g][t] = waiter[g][t], t \in signalled'[g] <=> t \in signalled[g],
         \A a \in Approval : approvalTask[a] = t => approvalTask'[a] = t /\ decision'[a] = decision[a],
         state'[t] \in {state[t], "PENDING_APPROVAL", "COMPLETED"},
         Deciding(g, t) => Deciding(g, t)' \/ t \in completions \/ ~Owed(g, t)
  PROVE  WaitOK(g, t)'
  <1>1. Waiting(g, t) => waiter[g][t].awaited \subseteq Approval
    BY DEF Inv, TypeOK, GateTypeOK
  <1>2. Owed(g, t)' => Owed(g, t)
    BY <1>1 DEF Owed, Waiting, WaitOK
  <1>3. t \in completions => t \in completions'
    BY CompletionsStay
  <1>4. state'[t] = "COMPLETED" => t \in completions'
    BY NextKeepsInv DEF Inv, OrderInv, CompletionsLogged
  <1> QED
    BY <1>1, <1>2, <1>3, <1>4 DEF WaitOK, Waiting

\* Its event is set, or it does not wait.
LEMMA WaitEnds ==
  ASSUME Inv, NEW g \in Gate, NEW t \in Task, WaitOK(g, t),
         \/ waiter'[g][t].status # "waiting"
         \/ /\ waiter'[g][t] = waiter[g][t]
            /\ t \in Awaited => t \in signalled'[g]
            /\ approvalTask' = approvalTask
  PROVE  WaitOK(g, t)'
  BY DEF WaitOK, Waiting, Owed

\* A decision of the rows of one task.
LEMMA DecideWaits ==
  ASSUME Inv, [Next]_vars, NEW g \in Gate, NEW u \in Task, NEW verdict \in Decision,
         Decide(u, verdict), at[g] = "idle", UNCHANGED <<waiter, signalled, state, completions>>,
         Deciding(g, u)', \A t \in Task : WaitOK(g, t), NEW t \in Task
  PROVE  WaitOK(g, t)'
  <1>1. decision \in [Approval -> Decision] /\ ~Deciding(g, t)
    BY DEF Inv, TypeOK, StoreTypeOK, Deciding
  <1>2. CASE t # u
    <2>1. \A a \in Approval : approvalTask[a] = t => approvalTask'[a] = t /\ decision'[a] = decision[a]
      BY <1>1, <1>2 DEF Decide
    <2> QED
      BY <1>1, <2>1, WaitGoesOn
  <1>3. CASE t = u
    <2>1. approvalTask' = approvalTask
      BY DEF Decide
    <2> QED
      BY <1>3, <2>1 DEF WaitOK, Waiting
  <1> QED
    BY <1>2, <1>3

\* The steps of the process that waits.
LEMMA GateKeepsWaits ==
  ASSUME Inv, [Next]_vars, NEW g \in Gate, ReleaseOK(g), \A t \in Task : WaitOK(g, t), GateAction(g)
  PROVE  \A t \in Task : WaitOK(g, t)'
  <1> DEFINE Kept == \A t \in Task : WaitOK(g, t)'
  <1>a. GateTypeOK /\ StoreTypeOK
    BY DEF Inv, TypeOK
  <1> USE <1>a DEF GateTypeOK, StoreTypeOK
  <1>1. ASSUME NEW u \in Task, NEW a \in Approval, RequestApproval(g, u, a) PROVE Kept
    <2>1. at[g] = "idle" /\ UNCHANGED <<waiter, signalled, approvalTask, decision, state>>
      BY <1>1 DEF RequestApproval, storeVars, taskVars, approvalVars
    <2>2. \A t \in Task : ~Deciding(g, t)
      BY <2>1 DEF Deciding
    <2> QED
      BY <2>1, <2>2, WaitGoesOn
  <1>2. ASSUME NEW u \in Task, Authorize(g, u) PROVE Kept
    <2>1. /\ at[g] = "idle" /\ Decide(u, "APPROVED")
          /\ UNCHANGED <<waiter, signalled, state, completions>> /\ Deciding(g, u)'
      BY <1>2 DEF Authorize, taskVars, Deciding
    <2> QED
      BY <2>1, DecideWaits
  <1>3. ASSUME NEW u \in Task, Reject(g, u) PROVE Kept
    <2>1. /\ at[g] = "idle" /\ Decide(u, "REJECTED")
          /\ UNCHANGED <<waiter, signalled, state, completions>> /\ Deciding(g, u)'
      BY <1>3 DEF Reject, taskVars, Deciding
    <2> QED
      BY <2>1, DecideWaits
  <1>4. ASSUME NEW u \in Task, BeginWait(g, u) \/ WakeWaiter(g, u) \/ WaitTimesOut(g, u) PROVE Kept
    <2>1. /\ at[g] = "idle" /\ UNCHANGED <<signalled, approvalTask, decision, state>>
          /\ \A t \in Task \ {u} : waiter'[g][t] = waiter[g][t]
          /\ \/ waiter'[g][u].status # "waiting"
             \/ /\ waiter'[g][u] = [status |-> "waiting", awaited |-> PendingOf(u)]
                /\ g \in Decider /\ u \in Awaited /\ state[u] = "PENDING_APPROVAL"
      BY <1>4 DEF BeginWait, WakeWaiter, WaitTimesOut, NoWait, storeVars, taskVars, approvalVars
    <2>2. \A t \in Task : ~Deciding(g, t)
      BY <2>1 DEF Deciding
    <2>3. \A t \in Task \ {u} : WaitOK(g, t)'
      BY <2>1, <2>2, WaitGoesOn
    <2>4. WaitOK(g, u)'
      BY <2>1 DEF WaitOK, Waiting, Owed, PendingOf, RowsOf
    <2> QED
      BY <2>3, <2>4
  <1>5. CASE PutApproval(g)
    <2>1. at[g] = "insertApproval" /\ UNCHANGED <<waiter, signalled, decision, state>>
      BY <1>5 DEF PutApproval, InsertApproval, taskVars, approvalVars
    <2>2. \A t \in Task : ~Deciding(g, t)
      BY <2>1 DEF Deciding
    <2>3. \A t \in Task, a \in Approval : approvalTask[a] = t => approvalTask'[a] = t
      BY RowsStay, ConstantsOK
    <2> QED
      BY <2>1, <2>2, <2>3, WaitGoesOn
  <1>6. CASE CheckTransition(g)
    <2>1. at[g] = "checkTransition" /\ UNCHANGED <<waiter, signalled, approvalTask, decision, state>>
      BY <1>6 DEF CheckTransition, storeVars, taskVars, approvalVars
    <2>2. CASE Proceed(g, "checkTransition", "writeTransition")
      <3>1. \A t \in Task : Deciding(g, t) => Deciding(g, t)'
        BY <2>1, <2>2 DEF Proceed, Deciding
      <3> QED
        BY <2>1, <3>1, WaitGoesOn
    <2>3. CASE ~(move[g] \in AllowedTransitions /\ state[target[g]] = move[g][1])
      <3>1. ASSUME NEW t \in Task, Deciding(g, t), Owed(g, t) PROVE t \in completions
        <4>1. state[t] # "PENDING_APPROVAL"
          BY <2>1, <2>3, <3>1 DEF Deciding, AllowedTransitions
        <4> QED
          BY <3>1, <4>1 DEF WaitOK, Owed
      <3> QED
        BY <2>1, <3>1, WaitGoesOn
    <2> QED
      BY <1>6, <2>2, <2>3 DEF CheckTransition
  <1>7. CASE WriteTransition(g)
    <2>1. /\ at[g] = "writeTransition" /\ target[g] \in Task
          /\ state' = [state EXCEPT ![target[g]] = move[g][2]]
          /\ UNCHANGED <<waiter, approvalTask, decision>>
      BY <1>7, CallIsTyped DEF WriteTransition, WriteState, approvalVars, Created
    <2>2. \A t \in Task \ {target[g]} :
             state'[t] = state[t] /\ ~Deciding(g, t) /\ (t \in signalled'[g] <=> t \in signalled[g])
      BY <1>7, <2>1 DEF Deciding, WriteTransition, Signal
    <2>3. \A t \in Task \ {target[g]} : WaitOK(g, t)'
      BY <2>1, <2>2, WaitGoesOn
    <2>4. ASSUME NEW t \in Task, t = target[g] PROVE WaitOK(g, t)'
      <3>1. CASE move[g][1] = "PENDING_APPROVAL"
        <4>1. t \in Awaited => t \in signalled'[g]
          BY <1>7, <2>4, <3>1 DEF WriteTransition, Signal
        <4> QED
          BY <2>1, <4>1, WaitEnds
      <3>2. CASE move[g][1] # "PENDING_APPROVAL"
        <4>1. ~Deciding(g, t) /\ move[g][2] = "PENDING_APPROVAL"
          BY <2>1, <3>2 DEF Deciding, ReleaseOK
        <4>2. signalled' = signalled /\ state'[t] = "PENDING_APPROVAL"
          BY <1>7, <2>1, <2>4, <3>2, <4>1 DEF WriteTransition
        <4> QED
          BY <2>1, <4>1, <4>2, WaitGoesOn
      <3> QED
        BY <3>1, <3>2
    <2> QED
      BY <2>3, <2>4
  <1>8. CASE ReadDescendants(g) \/ Prune(g)
    <2>1. /\ at'[g] \in {"prune", "clearLeases"} /\ target' = target
          /\ UNCHANGED <<waiter, signalled, approvalTask, decision, state>>
      BY <1>8 DEF ReadDescendants, Prune, PruneRows, Proceed, storeVars, taskVars, approvalVars
    <2>2. \A t \in Task : Deciding(g, t) => Deciding(g, t)'
      BY <2>1 DEF Deciding
    <2> QED
      BY <2>1, <2>2, WaitGoesOn
  <1>9. CASE ClearLeases(g)
    <2>1. /\ UNCHANGED <<waiter, approvalTask, decision, state>>
          /\ \A t \in Task : /\ t = target[g] /\ t \in Awaited => t \in signalled'[g]
                             /\ t # target[g] => (t \in signalled'[g] <=> t \in signalled[g])
      BY <1>9 DEF ClearLeases, Signal, taskVars, approvalVars
    <2>2. \A t \in Task : t # target[g] => ~Deciding(g, t)
      BY DEF Deciding
    <2>3. \A t \in Task : t # target[g] => WaitOK(g, t)'
      BY <2>1, <2>2, WaitGoesOn
    <2>4. \A t \in Task : t = target[g] => WaitOK(g, t)'
      BY <2>1, WaitEnds
    <2> QED
      BY <2>3, <2>4
  <1>10. CASE GateCrash(g)
    <2>1. \A t \in Task : waiter'[g][t].status # "waiting"
      BY <1>10 DEF GateCrash, NoWait
    <2> QED
      BY <2>1, WaitEnds
  <1> QED
    BY <1>1, <1>2, <1>3, <1>4, <1>5, <1>6, <1>7, <1>8, <1>9, <1>10 DEF GateAction, GateStep

\* The steps of the processes that only ask: they decide nothing, and the state
\* they write is PENDING_APPROVAL.
LEMMA AskingKeepsWaits ==
  ASSUME Inv, ReleaseInv, [Next]_vars, NEW g \in Gate, NEW t \in Task, WaitOK(g, t),
         NEW h \in Gate \ {g}, GateAction(h), h \notin Decider
  PROVE  WaitOK(g, t)'
  <1>1. /\ waiter'[g] = waiter[g] /\ signalled'[g] = signalled[g]
        /\ at'[g] = at[g] /\ target'[g] = target[g] /\ move'[g] = move[g]
    BY OtherGates
  <1>2. Deciding(g, t) => Deciding(g, t)'
    BY <1>1 DEF Deciding
  <1>3. decision' = decision
    BY DEF GateAction, GateStep, RequestApproval, PutApproval, InsertApproval, CheckTransition,
       WriteTransition, Authorize, Reject, ReadDescendants, Prune, ClearLeases, BeginWait, WakeWaiter,
       WaitTimesOut, GateCrash, storeVars, approvalVars
  <1>4. \A a \in Approval : approvalTask[a] = t => approvalTask'[a] = t
    BY RowsStay, ConstantsOK
  <1>5. state'[t] \in {state[t], "PENDING_APPROVAL"}
    <2>1. CASE WriteTransition(h)
      <3>1. move[h][2] = "PENDING_APPROVAL"
        BY <2>1 DEF WriteTransition, ReleaseInv, ReleaseOK
      <3> QED
        BY <2>1, <3>1 DEF WriteTransition, WriteState, Inv, TypeOK, StoreTypeOK
    <2>2. CASE Prune(h)
      BY <2>2 DEF Prune, PruneRows
    <2>3. CASE UNCHANGED taskVars
      BY <2>3 DEF taskVars
    <2> QED
      BY <2>1, <2>2, <2>3, GateWritesTasks
  <1> QED
    BY <1>1, <1>2, <1>3, <1>4, <1>5, WaitGoesOn

LEMMA WaitStep == OneDecider /\ Inv /\ ReleaseInv /\ WaitInv /\ [Next]_vars => WaitInv'
  <1> SUFFICES ASSUME OneDecider, Inv, ReleaseInv, WaitInv, [Next]_vars, NEW g \in Gate, NEW t \in Task
               PROVE  WaitOK(g, t)'
    BY DEF WaitInv
  <1>a. WaitOK(g, t)
    BY DEF WaitInv
  <1>1. CASE GateAction(g)
    BY <1>1, GateKeepsWaits DEF WaitInv, ReleaseInv
  <1>2. ASSUME NEW h \in Gate \ {g}, GateAction(h) PROVE WaitOK(g, t)'
    <2>1. CASE g \notin Decider
      BY <2>1, <1>2, <1>a, OtherGates DEF WaitOK, Waiting, Owed
    <2>2. CASE g \in Decider
      BY <2>2, <1>2, <1>a, AskingKeepsWaits DEF OneDecider
    <2> QED
      BY <2>1, <2>2
  <1>3. CASE \A h \in Gate : ~GateAction(h)
    <2>1. UNCHANGED <<at, target, move, waiter, signalled, approvalTask, decision>>
      BY <1>3, OutsideGates DEF gateVars, callVars, approvalVars
    <2>2. Deciding(g, t) => Deciding(g, t)'
      BY <2>1 DEF Deciding
    <2>3. CASE state'[t] \in {state[t], "COMPLETED"}
      BY <1>a, <2>1, <2>2, <2>3, WaitGoesOn
    <2>4. CASE state[t] = "NONE" /\ state'[t] = "PLANNING"
      <3>1. t \in completions => t \in completions'
        BY CompletionsStay
      <3> QED
        BY <1>a, <2>1, <2>4, <3>1 DEF WaitOK, Owed, Waiting, Deciding
    <2>5. ~(\E h \in Gate : WriteTransition(h) /\ target[h] = t /\ state'[t] = move[h][2])
      BY <2>1 DEF WriteTransition, Return, Inv, TypeOK, GateTypeOK
    <2> QED
      BY <2>3, <2>4, <2>5, StateWritten
  <1> QED
    BY <1>1, <1>2, <1>3

\* With one process that decides, and any number that ask for approvals, no
\* coroutine is left behind by the decision it waits for, except by a decision
\* about a task that a worker completed meanwhile, where approve_task raises
\* before authorize reaches the event (hitl.py 20-37).
THEOREM DecidedWaitersSignalledCorrect ==
  ASSUME OneDecider
  PROVE  Spec => []DecidedWaitersSignalled
  <1>1. Init => ReleaseInv /\ WaitInv
    BY DEF Init, GateInit, NoWait, ReleaseInv, ReleaseOK, WaitInv, WaitOK, Waiting, Owed
  <1>2. Inv /\ ReleaseInv /\ WaitInv /\ [Next]_vars => WaitInv'
    BY WaitStep
  <1>3. WaitInv => DecidedWaitersSignalled
    BY DEF WaitInv, WaitOK, Owed, Waiting, Deciding, DecidedWaitersSignalled
  <1> QED
    BY <1>1, <1>2, <1>3, InitInv, NextKeepsInv, ReleaseStep, PTL DEF Spec

=============================================================================
