------------------------------ MODULE MCDaemon ------------------------------
EXTENDS Daemon, TLC

Workers           == Permutations(Worker)
TasksAndApprovals == Permutations(Task) \cup Permutations(Approval)

\* For the liveness run, the state after two calls of create_task that insert
\* a task and its child.
CONSTANTS Root, Child

SeededInit ==
    /\ state = [t \in Task |-> "PLANNING"]
    /\ parent = [t \in Task |-> IF t = Child THEN Root ELSE Nil]
    /\ born = [t \in Task |-> IF t = Child THEN 1 ELSE 0]
    /\ resolution = [t \in Task |-> "ACTIVE"]
    /\ owner = [t \in Task |-> Nil]
    /\ ttl = [t \in Task |-> -1]
    /\ rerolls = [t \in Task |-> 0]
    /\ completions = {}
    /\ approvalTask = [a \in Approval |-> Nil]
    /\ decision = [a \in Approval |-> "PENDING"]
    /\ leases = {}
    /\ deadLetters = {}
    /\ WorkerInit
    /\ GateInit

SeededSpec == SeededInit /\ [][Next]_vars /\ Fairness
=============================================================================
