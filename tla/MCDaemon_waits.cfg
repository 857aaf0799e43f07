\* A process that decides and whose coroutines wait, a second one that asks for
\* approvals of the same task, and a worker that may be executing it meanwhile.
\* The payload is refused, the shortest way for the worker to complete the task.
CONSTANTS
    Task = {t1}
    Malformed = {t1}
    Worker = {w1}
    Gate = {g1, g2}
    Decider = {g1}
    Awaited = {t1}
    Approval = {a1, a2}
    Nil = Nil
    Root = t1
    Child = t1
    LeaseTicks = 0
    MaxRerolls = 0
SPECIFICATION Spec
SYMMETRY TasksAndApprovals
INVARIANTS DecidedWaitersSignalled PendingHasApproval
PROPERTIES ReleaseDecides
