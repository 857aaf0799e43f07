\* One daemon, as main.py runs it, and one approval gate that asks for one
\* approval of a task or its child, releases it or rejects the task.  Both
\* payloads are refused: that is the shortest way to complete a task, and what
\* tools answer varies in the run on MCDaemon_workers.cfg.
CONSTANTS
    Task = {t1, t2}
    Malformed = {t1, t2}
    Worker = {w1}
    Gate = {g1}
    Decider = {g1}
    Awaited = {}
    Approval = {a1}
    Nil = Nil
    Root = t1
    Child = t2
    LeaseTicks = 0
    MaxRerolls = 0
SPECIFICATION Spec
SYMMETRY TasksAndApprovals
INVARIANTS TerminalUnleased OwnerHasLeaseRow
PROPERTIES RejectionFinal
