---------------------------- MODULE ApprovalGate ----------------------------
(***************************************************************************)
(* The human-in-the-loop side: QueueRepository.create_approval,            *)
(* approve_task and reject_approval as ApprovalGate (hitl.py) calls them,  *)
(* and the coroutines that wait for a decision.  create_approval is a      *)
(* method of the repository, which any process may call; deciding and      *)
(* waiting take an ApprovalGate.  The coroutines of a process share one    *)
(* event loop and none of these methods awaits between its commits, so a   *)
(* process runs one call at a time, while workers and the other processes  *)
(* may come in between any two commits.                                    *)
(***************************************************************************)
EXTENDS TaskQueue

CONSTANTS
    Gate,     \* processes that call create_approval or hold an ApprovalGate
    Decider,  \* those of them that hold an ApprovalGate
    Awaited   \* the tasks some coroutine calls wait_for_approval on

ASSUME DecidersOK == Decider \subseteq Gate

VARIABLES
    at,        \* the next transaction of gate g
    target,    \* the task its call is about
    ticket,    \* the approval create_approval inserts
    move,      \* <<from_state, to_state>> of its transition_task_state
    doomed,    \* the descendants reject_and_prune read
    seen,      \* the approvals of target in the table when approve_task decided
               \* (observed by the properties only)
    signalled, \* awaited tasks whose asyncio.Event is set in g
    waiter     \* wait_for_approval(t) in g, with the approvals pending then

callVars == <<at, target, ticket, move, doomed, seen>>
gateVars == <<callVars, signalled, waiter>>

GateLabel ==
    {"idle", "insertApproval", "checkTransition", "writeTransition",
     "readDescendants", "prune", "clearLeases"}

NoWait == [status |-> "none", awaited |-> {}]

GateTypeOK ==
    /\ at \in [Gate -> GateLabel]
    /\ target \in [Gate -> Task \cup {Nil}]
    /\ ticket \in [Gate -> Approval \cup {Nil}]
    /\ move \in [Gate -> (TaskState \X TaskState) \cup {<<>>}]
    /\ doomed \in [Gate -> SUBSET Task]
    /\ seen \in [Gate -> SUBSET Approval]
    /\ signalled \in [Gate -> SUBSET Task]
    /\ waiter \in [Gate -> [Task -> [status: {"none", "waiting", "released"},
                                     awaited: SUBSET Approval]]]

GateInit ==
    /\ at = [g \in Gate |-> "idle"]
    /\ target = [g \in Gate |-> Nil]
    /\ ticket = [g \in Gate |-> Nil]
    /\ move = [g \in Gate |-> <<>>]
    /\ doomed = [g \in Gate |-> {}]
    /\ seen = [g \in Gate |-> {}]
    /\ signalled = [g \in Gate |-> {}]
    /\ waiter = [g \in Gate |-> [t \in Task |-> NoWait]]

\* _event(t).set().
Signal(g, t) == signalled' = [signalled EXCEPT ![g] = @ \cup ({t} \cap Awaited)]

\* The rows of a task, and those approve_task and reject_approval decide.
RowsOf(t) == {a \in Approval : approvalTask[a] = t}
PendingOf(t) == {a \in RowsOf(t) : decision[a] = "PENDING"}

\* The call of g is over: it returned, or raised.
Return(g) ==
    /\ at' = [at EXCEPT ![g] = "idle"]
    /\ target' = [target EXCEPT ![g] = Nil]
    /\ ticket' = [ticket EXCEPT ![g] = Nil]
    /\ move' = [move EXCEPT ![g] = <<>>]
    /\ doomed' = [doomed EXCEPT ![g] = {}]
    /\ seen' = [seen EXCEPT ![g] = {}]

Proceed(g, from, to) ==
    /\ at[g] = from
    /\ at' = [at EXCEPT ![g] = to]
    /\ UNCHANGED <<target, ticket, move, doomed, seen>>

-----------------------------------------------------------------------------
\* Mutant of RequestApproval: the task is moved before the row is inserted.
RequestApprovalUnrecorded(g, t, a) ==
    /\ at[g] = "idle"
    /\ state[t] # "NONE"
    /\ approvalTask[a] = Nil
    /\ at' = [at EXCEPT ![g] = "checkTransition"]
    /\ target' = [target EXCEPT ![g] = t]
    /\ ticket' = [ticket EXCEPT ![g] = a]
    /\ move' = [move EXCEPT ![g] = <<state[t], "PENDING_APPROVAL">>]
    /\ UNCHANGED <<doomed, seen, signalled, waiter, storeVars>>

\* create_approval reads the task; the state it saw is the from_state of the
\* transition it will ask for.
RequestApproval(g, t, a) ==
    /\ at[g] = "idle"
    /\ state[t] # "NONE"
    /\ approvalTask[a] = Nil
    /\ at' = [at EXCEPT ![g] = "insertApproval"]
    /\ target' = [target EXCEPT ![g] = t]
    /\ ticket' = [ticket EXCEPT ![g] = a]
    /\ move' = [move EXCEPT ![g] = <<state[t], "PENDING_APPROVAL">>]
    /\ UNCHANGED <<doomed, seen, signalled, waiter, storeVars>>

\* It inserts the approval whatever state it saw, unless the id was taken.
PutApproval(g) ==
    /\ at[g] = "insertApproval"
    /\ IF approvalTask[ticket[g]] = Nil
       THEN /\ Proceed(g, "insertApproval", "checkTransition")
            /\ InsertApproval(ticket[g], target[g])
       ELSE Return(g) /\ UNCHANGED approvalVars
    /\ UNCHANGED <<signalled, waiter, taskVars, controlVars>>

\* transition_task_state: the SELECT and the two ValueErrors.
CheckTransition(g) ==
    /\ at[g] = "checkTransition"
    /\ IF move[g] \in AllowedTransitions /\ state[target[g]] = move[g][1]
       THEN Proceed(g, "checkTransition", "writeTransition")
       ELSE Return(g)
    /\ UNCHANGED <<signalled, waiter, storeVars>>

\* transition_task_state: the UPDATE.  authorize then sets the event.
WriteTransition(g) ==
    /\ at[g] = "writeTransition"
    /\ WriteState(target[g], move[g][2])
    /\ IF move[g][1] = "PENDING_APPROVAL"
       THEN Signal(g, target[g])
       ELSE UNCHANGED signalled
    /\ Return(g)
    /\ UNCHANGED <<waiter, approvalVars, controlVars>>

\* Mutant of Authorize: the task is moved and the rows are left pending.
AuthorizeUndecided(g, t) ==
    /\ g \in Decider
    /\ at[g] = "idle"
    /\ state[t] # "NONE"
    /\ at' = [at EXCEPT ![g] = "checkTransition"]
    /\ target' = [target EXCEPT ![g] = t]
    /\ move' = [move EXCEPT ![g] = <<"PENDING_APPROVAL", "PLANNING">>]
    /\ seen' = [seen EXCEPT ![g] = RowsOf(t)]
    /\ UNCHANGED <<ticket, doomed, signalled, waiter, storeVars>>

\* authorize with a valid HMAC: approve_task decides the rows that are pending
\* by then, however many there are; the transition comes in later steps.  (With a wrong HMAC
\* authorize returns False and changes nothing.)
Authorize(g, t) ==
    /\ g \in Decider
    /\ at[g] = "idle"
    /\ state[t] # "NONE"
    /\ Decide(t, "APPROVED")
    /\ at' = [at EXCEPT ![g] = "checkTransition"]
    /\ target' = [target EXCEPT ![g] = t]
    /\ move' = [move EXCEPT ![g] = <<"PENDING_APPROVAL", "PLANNING">>]
    /\ seen' = [seen EXCEPT ![g] = RowsOf(t)]
    /\ UNCHANGED <<ticket, doomed, signalled, waiter, taskVars, controlVars>>

\* reject: reject_approval decides the pending rows ...
Reject(g, t) ==
    /\ g \in Decider
    /\ at[g] = "idle"
    /\ state[t] # "NONE"
    /\ Decide(t, "REJECTED")
    /\ at' = [at EXCEPT ![g] = "readDescendants"]
    /\ target' = [target EXCEPT ![g] = t]
    /\ UNCHANGED <<ticket, move, doomed, seen, signalled, waiter, taskVars, controlVars>>

\* ... reject_and_prune reads the descendants through one connection ...
ReadDescendants(g) ==
    /\ at[g] = "readDescendants"
    /\ doomed' = [doomed EXCEPT ![g] = Descendants(target[g])]
    /\ at' = [at EXCEPT ![g] = "prune"]
    /\ UNCHANGED <<target, ticket, move, seen, signalled, waiter, storeVars>>

\* ... prunes them in one transaction of another ...
Prune(g) ==
    /\ Proceed(g, "prune", "clearLeases")
    /\ PruneRows(target[g], doomed[g])
    /\ UNCHANGED <<signalled, waiter, approvalVars, controlVars>>

\* Mutant of ClearLeases: reject does not set the event.
ClearLeasesSilently(g) ==
    /\ at[g] = "clearLeases"
    /\ DeleteLeases({target[g]} \cup doomed[g])
    /\ Return(g)
    /\ UNCHANGED <<signalled, waiter, taskVars, approvalVars>>

\* ... and deletes their lease rows.  The gate then sets the event.
ClearLeases(g) ==
    /\ at[g] = "clearLeases"
    /\ DeleteLeases({target[g]} \cup doomed[g])
    /\ Signal(g, target[g])
    /\ Return(g)
    /\ UNCHANGED <<waiter, taskVars, approvalVars>>

-----------------------------------------------------------------------------
\* wait_for_approval on a task that is not pending returns at once and leaves
\* nothing behind; on a pending one the caller waits for the event.
BeginWait(g, t) ==
    /\ g \in Decider
    /\ t \in Awaited
    /\ at[g] = "idle"
    /\ state[t] = "PENDING_APPROVAL"
    /\ waiter[g][t].status # "waiting"
    /\ waiter' = [waiter EXCEPT ![g][t] = [status |-> "waiting", awaited |-> PendingOf(t)]]
    /\ UNCHANGED <<callVars, signalled, storeVars>>

\* The event is set, by this decision or by one taken earlier: nothing clears it.
WakeWaiter(g, t) ==
    /\ at[g] = "idle"
    /\ waiter[g][t].status = "waiting"
    /\ t \in signalled[g]
    /\ waiter' = [waiter EXCEPT ![g][t] = [status  |-> "released",
                                         awaited |-> waiter[g][t].awaited]]
    /\ UNCHANGED <<callVars, signalled, storeVars>>

\* asyncio.wait_for raises TimeoutError in the caller.
WaitTimesOut(g, t) ==
    /\ at[g] = "idle"
    /\ waiter[g][t].status = "waiting"
    /\ waiter' = [waiter EXCEPT ![g][t] = NoWait]
    /\ UNCHANGED <<callVars, signalled, storeVars>>

\* The process of the gate ends: its call is cut off and its events and
\* waiters, which exist in memory only, are gone.
GateCrash(g) ==
    /\ Return(g)
    /\ signalled' = [signalled EXCEPT ![g] = {}]
    /\ waiter' = [waiter EXCEPT ![g] = [t \in Task |-> NoWait]]
    /\ UNCHANGED storeVars

GateStep(g) ==
    \/ \E t \in Task :
        \/ \E a \in Approval : RequestApproval(g, t, a)
        \/ Authorize(g, t) \/ Reject(g, t)
        \/ BeginWait(g, t) \/ WakeWaiter(g, t) \/ WaitTimesOut(g, t)
    \/ PutApproval(g) \/ CheckTransition(g) \/ WriteTransition(g)
    \/ ReadDescendants(g) \/ Prune(g) \/ ClearLeases(g)
    \/ GateCrash(g)
=============================================================================
