------------------------------ MODULE MCIngest ------------------------------
EXTENDS Ingest, TLC

\* A project with a file at its top and one below; contents of one chunk each,
\* and one without chunks.
CONSTANTS root, leaf, top, deep, old, new, blank, p1, p2

Slices == old :> {p1} @@ new :> {p2} @@ blank :> {}
Tree   == root :> {top, deep} @@ leaf :> {deep}

\* Both files exist to begin with.
SeededInit == Init /\ disk = [f \in Path |-> old]
SeededSpec == SeededInit /\ [][Next]_vars

Symmetry == Permutations(Proc)
=============================================================================
