\* Two processes, three calls, one edit; the lower target is a file.
CONSTANTS
    Proc = {x1, x2}
    Path = {top, deep}
    Content = {old, new, blank}
    Piece = {p1, p2}
    Target = {root, leaf}
    Directory = {root}
    Absent = Absent
    Nil = Nil
    MaxCalls = 3
    MaxEdits = 1
    Pieces <- Slices
    Under <- Tree
    root = root
    leaf = leaf
    top = top
    deep = deep
    old = old
    new = new
    blank = blank
    p1 = p1
    p2 = p2
SPECIFICATION SeededSpec
SYMMETRY Symmetry
CHECK_DEADLOCK FALSE
INVARIANTS IngestTypeOK
PROPERTIES ForcedIngestRepairs ManifestMatchesDisk ReconciledIsIndexed UpsertFailureKept
