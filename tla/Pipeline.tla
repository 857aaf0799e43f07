------------------------------ MODULE Pipeline ------------------------------
(***************************************************************************)
(* Pipeline templates: loading, compiling into a plan, and the order in    *)
(* which the steps of a plan run (pipeline/, agent_workflow/policies.py).  *)
(* Pure operators.  A definition is what a YAML file says: its steps, in   *)
(* the order of the file, with the steps they depend on, the steps whose   *)
(* artifacts they are bound to, and the variables their arguments name.    *)
(* Bindings and variables below the first level of the arguments are left  *)
(* out.                                                                    *)
(***************************************************************************)
EXTENDS SequencesExt

CONSTANTS
    Pipeline,       \* ids that a caller may name
    Active,         \* ACTIVE_PIPELINES
    Tool,
    AllowedTools,   \* ALLOWED_TOOLS
    Variable,
    RuntimeVars,    \* the variables a run gives values to
    Definition,     \* what template files may say
    Missing,        \* there is no file
    Malformed       \* a file the loader refuses: no mapping, against the schema, ...

ASSUME PipelineConstantsOK ==
    /\ Active \subseteq Pipeline
    /\ AllowedTools \subseteq Tool
    /\ Missing \notin Definition /\ Malformed \notin Definition
    /\ RuntimeVars \subseteq Variable
    /\ \A def \in Definition : Len(def.steps) \in Nat /\ def.maxSteps \in Nat

Ids(def) == {def.steps[i].id : i \in 1..Len(def.steps)}

StepOf(def, s) == CHOOSE step \in {def.steps[i] : i \in 1..Len(def.steps)} : step.id = s

\* PipelineLoader.load: malformed and reserved ids are not active either.
Loads(p, file) == p \in Active /\ file \notin {Missing, Malformed}

Validates(def) ==
    /\ Len(def.steps) \in 1..def.maxSteps
    /\ Cardinality(Ids(def)) = Len(def.steps)
    /\ \A i \in 1..Len(def.steps) :
          /\ def.steps[i].tool \in AllowedTools
          /\ def.steps[i].deps \subseteq Ids(def)

\* graphlib hands the steps out in rounds: a step is ready in the round after
\* the last of the steps it depends on.
Rounds(def) ==
    {round \in [Ids(def) -> 1..Len(def.steps)] :
        \A s \in Ids(def) : LET before == {round[d] : d \in StepOf(def, s).deps} IN
            /\ \A n \in before : n < round[s]
            /\ round[s] > 1 => round[s] - 1 \in before}

Acyclic(def) == Rounds(def) # {}

\* The orders that TopologicalSorter.static_order may give: round after
\* round, the steps of one round in any order.
Orders(def) ==
    UNION {{order \in [1..Len(def.steps) -> Ids(def)] :
              /\ IsInjective(order)
              /\ \A i, j \in DOMAIN order : i < j => round[order[i]] <= round[order[j]]}
           : round \in Rounds(def)}

\* A binding is to another step that runs before and is among depends_on.
BindingsValidate(def, order) ==
    \A i \in DOMAIN order : \A from \in StepOf(def, order[i]).binds :
        /\ \E j \in 1..i - 1 : order[j] = from
        /\ from \in StepOf(def, order[i]).deps

\* Every ${name} of the arguments has a value.
Resolves(def) ==
    \A i \in 1..Len(def.steps) : def.steps[i].vars \subseteq RuntimeVars \cup def.declared

\* PipelineCompiler.compile: the plans it may give, none when it raises.
Plans ==
    [def \in Definition |->
        IF Validates(def) /\ Acyclic(def) /\ Resolves(def)
        THEN {o \in Orders(def) : BindingsValidate(def, o)}
        ELSE {}]

Compiles(p, file) == Loads(p, file) /\ Plans[file] # {}
=============================================================================
