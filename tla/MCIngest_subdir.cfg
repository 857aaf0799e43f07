\* One process and no edits; the lower target is a directory.
CONSTANTS
    Proc = {x1}
    Path = {top, deep}
    Content = {old, new, blank}
    Piece = {p1, p2}
    Target = {root, leaf}
    Directory = {root, leaf}
    Absent = Absent
    Nil = Nil
    MaxCalls = 2
    MaxEdits = 0
    Pieces <- Slices
    Under <- Tree
    root = root
    leaf = leaf
    top = top
    deep = deep
    old = old
    new = new
    blank = blank
    p1 = p1
    p2 = p2
SPECIFICATION SeededSpec
CHECK_DEADLOCK FALSE
PROPERTIES OnlyDeletedRemoved
