\* Two daemons and no gate; two tasks, of which one has a payload to refuse.
CONSTANTS
    Task = {t1, t2}
    Malformed = {t2}
    Worker = {w1, w2}
    Gate = {}
    Decider = {}
    Awaited = {}
    Approval = {}
    Nil = Nil
    Root = t1
    Child = t2
    LeaseTicks = 0
    MaxRerolls = 1
SPECIFICATION Spec
SYMMETRY Workers
INVARIANTS TypeOK OrderInv TerminalUnleased DeadLetterJustified
PROPERTIES KeepsContract
