------------------------------ MODULE MCStartup ------------------------------
(***************************************************************************)
(* The daemon and a command of the administrator whose code is one release *)
(* older, on new databases or on those of the release that had two         *)
(* migrations, whose columns are still to be added.                        *)
(***************************************************************************)
EXTENDS Startup

CONSTANTS daemon, command

Releases == [p \in Process |-> IF p = daemon THEN 8 ELSE 7]

Old == {QUEUE_MIGRATION_0001, QUEUE_MIGRATION_0002, CONTROL_MIGRATION_0001}

SeededInit ==
    /\ \E past \in {{}, Old} :
        /\ versions = {Row(m) : m \in past}
        /\ schema = UNION {Creates(m) : m \in past}
    /\ stage = [p \in Process |-> "down"]
    /\ file = [p \in Process |-> QueueDb]
    /\ applied = [p \in Process |-> {}]
    /\ next = [p \in Process |-> 1]
    /\ done = [p \in Process |-> 0]
    /\ columns = [p \in Process |-> {}]
    /\ rows = [p \in Process |-> {}]
    /\ altered = [p \in Process |-> {}]

SeededSpec == SeededInit /\ [][StartupNext]_startVars /\ StartupFairness
=============================================================================
