---------------------------- MODULE MCPatchApply ----------------------------
EXTENDS PatchApply, TLC

\* A patch that moves a file, which is to delete one and to create another, and
\* one that moves it back by a copy, whose section has no "+++ " line, and a
\* deletion; an approval that declares tests, one that declares none, and one
\* that was not given.
CONSTANTS here, there, text, move, back, tested, plain, withheld

Edits ==
    move :> (here :> [from |-> text, to |-> Absent] @@ there :> [from |-> Absent, to |-> text])
    @@ back :> (there :> [from |-> text, to |-> Absent] @@ here :> [from |-> Absent, to |-> text])

Marks == move :> {here, there, "/dev/null"} @@ back :> {there, "/dev/null"}

Records ==
    [a \in Approval |->
        [patch |-> IF a = plain THEN back ELSE move,
         approved |-> a # withheld, exact |-> TRUE, tests |-> a = tested]]

Symmetry == Permutations(Proc) \cup Permutations(Run)
=============================================================================
