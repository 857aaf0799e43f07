SPECIFICATION MaintainedSpec
CONSTANTS
    Nil = Nil
    NoFolder = NoFolder
    a = a
    b = b
    w = w
    P = P
    Q = Q
    chat = chat
    loose = loose
    Caller = {a, b}
    Watcher = w
    Project = {P, Q}
    Conv = {chat, loose}
    FolderOf <- Folders
    Outside = {}
    Budgets <- Calls
    MaxRecords = 3
    Limit = 2
    Unembeddable = {1}
    Unstorable = {3}
CHECK_DEADLOCK FALSE
INVARIANTS TypeOK ActiveIsKnown IndexedIsInIndex VectorHasRow
PROPERTIES NewestIsApplied RebuildsRepair
