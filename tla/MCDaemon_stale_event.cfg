\* One gate, two rounds of approval of one task: does the second wait block?
CONSTANTS
    Task = {t1}
    Malformed = {}
    Worker = {w1}
    Gate = {g1}
    Decider = {g1}
    Awaited = {t1}
    Approval = {a1, a2}
    Nil = Nil
    Root = t1
    Child = t1
    LeaseTicks = 0
    MaxRerolls = 0
SPECIFICATION Spec
INVARIANTS WaitEndsDecided
