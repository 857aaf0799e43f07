---------------------------- MODULE TaskContract ----------------------------
(***************************************************************************)
(* What the task queue promises whoever inserts tasks, and nothing of how  *)
(* it does it: a task is handled only after its parent was completed, and  *)
(* it is completed only on the strength of a result that was reported for  *)
(* it.  A task may be given up and handled again any number of times.      *)
(***************************************************************************)
CONSTANTS Task, Nil

VARIABLES
    known,     \* tasks that were inserted
    needs,     \* the parent of a task, or Nil
    handled,   \* tasks some worker is handling
    reported,  \* tasks with a result: a tool's success, or a refused payload
    completed  \* tasks that were completed

vars == <<known, needs, handled, reported, completed>>

Init ==
    /\ known = {}
    /\ needs = [t \in Task |-> Nil]
    /\ handled = {}
    /\ reported = {}
    /\ completed = {}

Insert(t, p) ==
    /\ t \notin known
    /\ p \in known \cup {Nil}
    /\ known' = known \cup {t}
    /\ needs' = [needs EXCEPT ![t] = p]
    /\ UNCHANGED <<handled, reported, completed>>

Begin(t) ==
    /\ t \in known
    /\ needs[t] \in completed \cup {Nil}
    /\ handled' = handled \cup {t}
    /\ UNCHANGED <<known, needs, reported, completed>>

\* The only worker that handles t returned, failed or died.
GiveUp(t) ==
    /\ handled' = handled \ {t}
    /\ UNCHANGED <<known, needs, reported, completed>>

Report(t) ==
    /\ t \in handled
    /\ reported' = reported \cup {t}
    /\ UNCHANGED <<known, needs, handled, completed>>

Finish(t) ==
    /\ t \in reported
    /\ completed' = completed \cup {t}
    /\ UNCHANGED <<known, needs, handled, reported>>

Next ==
    \E t \in Task :
        \/ \E p \in Task \cup {Nil} : Insert(t, p)
        \/ Begin(t) \/ GiveUp(t) \/ Report(t) \/ Finish(t)

Spec == Init /\ [][Next]_vars
=============================================================================
