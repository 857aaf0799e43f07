------------------------------ MODULE MCMemory ------------------------------
(* Memory and ActivePartition with small constants. *)
EXTENDS Memory, TLC

CONSTANTS a, b, w, P, Q, chat, loose

Folders == chat :> P @@ loose :> NoFolder

Bounds(ed, sw, sa, se, fa) ==
    [edits |-> ed, switches |-> sw, saves |-> sa, searches |-> se, faults |-> fa]

\* With the watcher, and without it, which is the default.
Calls == {Bounds(2, 1, 0, 0, 1), Bounds(0, 1, 2, 0, 1), Bounds(0, 2, 1, 1, 1), Bounds(0, 2, 2, 0, 0),
          Bounds(0, 1, 3, 0, 0)}
=============================================================================
