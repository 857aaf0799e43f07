\* Two daemons that may crash, a parent or a child with a payload to refuse.
CONSTANTS
    Task = {t1, t2}
    Malformed = {t2}
    Worker = {w1, w2}
    Gate = {}
    Decider = {}
    Awaited = {}
    Approval = {}
    Nil = Nil
    Root = t1
    Child = t2
    LeaseTicks = 0
    MaxRerolls = 0
SPECIFICATION SeededSpec
PROPERTIES TasksComplete
