\* Two processes, two runs, two patches.
CONSTANTS
    Proc = {x1, x2}
    Run = {r1, r2}
    Path = {here, there}
    Content = {text, Foreign}
    Typed = {text}
    Patch = {move, back}
    Approval = {tested, plain, withheld}
    Unsafe = {}
    Foreign = Foreign
    Absent = Absent
    Nil = Nil
    Edit <- Edits
    Marked <- Marks
    Record <- Records
    here = here
    there = there
    text = text
    move = move
    back = back
    tested = tested
    plain = plain
    withheld = withheld
SPECIFICATION Spec
SYMMETRY Symmetry
INVARIANTS PatchTypeOK ApprovedBytesOnly SnapshotsFirst NeverUnderstated
PROPERTIES OriginalsRestored
