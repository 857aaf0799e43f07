------------------------------ MODULE Workflow ------------------------------
(***************************************************************************)
(* Runs of the agent workflow (agent_workflow/).  A run compiles a         *)
(* pipeline into todos, calls their tools one by one and writes its state  *)
(* to a file of its own around each of them.  It is started on one of      *)
(* three surfaces: the tool mcp_agent_workflow_run of the daemon, which    *)
(* calls the tools of its own process on the event loop; the command line, *)
(* which calls them over the TCP bridge of the daemon; and a caller of     *)
(* run_agent_workflow that hands over its own services, as the tests do.   *)
(***************************************************************************)
EXTENDS Registries

CONSTANTS
    Run,
    StepId,
    Investigation,  \* the pipeline of a run that names none
    MaxSteps,       \* of a plan, 8 in the code
    DirectTools,    \* what the daemon lets a run call in process
    Handoff,        \* mcp_investigation_compile_handoff, which ends a run
    PatchApply,     \* stands for the pipeline of a patch_apply_request
    Nil,
    Calls           \* bound: the surface and the pipeline of the calls of each run

Surface == {"daemon", "cli", "library"}

ASSUME WorkflowConstantsOK ==
    /\ DirectTools \subseteq Tool /\ Handoff \in Tool
    /\ Investigation \in Pipeline /\ PatchApply \notin Pipeline
    /\ \A d \in Definition : Ids(d) \subseteq StepId
    /\ Nil \notin Definition
    /\ MaxSteps \in Nat
    /\ Calls \in [Run -> SUBSET (Surface \X (Pipeline \cup {PatchApply}))]

VARIABLES
    pc,
    via, pipeline, selected,    \* the call: its surface, pipeline and skill
    def,        \* the definition a run has compiled
    todo,       \* its todos: the step and the status of each
    at,         \* the todo it is at
    result,     \* what the call of a tool came to
    artifacts,  \* step_outputs: the steps that gave their artifact
    saved,      \* the state file: phase and todos
    answer,     \* what the caller got
    wire,       \* a call over the bridge, and its answer
    recorded, remembered,   \* runs with a snapshot row, with a memory row
    ran         \* history: how often the tool of each step of a run ran

callVars == <<via, pipeline, selected>>
planVars == <<def, todo, at>>
effectVars == <<wire, recorded, remembered, ran>>
vars == <<registryVars, pc, callVars, planVars, result, artifacts, saved, answer, effectVars>>

Todo == [step: StepId, status: {"pending", "active", "done", "blocked"}]
Phase == {"PLAN", "ACT", "SUMMARISE_TOOL_RESULT", "CHECK", "SYNTHESIZE", "FINAL",
          "PATCH_APPLY"}
\* A tool answers ok, with the artifact that others are bound to or without.
Ok == {"artifact", "no_artifact"}
BlockCode == {"tool_not_allowed", "binding_resolution_failed"}
ErrorCode == {"tool_failed", "tool_execution_failed", "bridge_call_failed"}
Result == Ok \cup BlockCode \cup ErrorCode
AnswerCode == BlockCode \cup ErrorCode \cup
    {"none", "invalid_input", "patch_apply_request", "capability_policy_block",
     "plan_too_long", "workflow_runner_failed"}
Asked == {"none", "request", "closed"}
Answers == [status: {"COMPLETE", "ERROR", "POLICY_BLOCK"}, code: AnswerCode, path: BOOLEAN]

TypeOK ==
    /\ RegistriesTypeOK
    /\ pc \in [Run -> {"idle", "skills", "patch", "policy", "build", "next", "act",
                       "sent", "result", "summarised", "checked", "snapshot",
                       "memory", "report", "synthesized", "over", "dead"}]
    /\ via \in [Run -> Surface \cup {Nil}]
    /\ pipeline \in [Run -> Pipeline \cup {PatchApply, Nil}]
    /\ selected \in [Run -> Skill \cup {NoRow}]
    /\ def \in [Run -> Definition \cup {Nil}]
    /\ todo \in [Run -> Seq(Todo)]
    /\ at \in [Run -> Nat]
    /\ result \in [Run -> Result \cup {Nil}]
    /\ artifacts \in [Run -> SUBSET StepId]
    /\ saved \in [Run -> [phase: Phase, todo: Seq(Todo)] \cup {Nil}]
    /\ answer \in [Run -> Answers \cup {Nil}]
    /\ wire \in [Run -> Result \cup Asked]
    /\ recorded \subseteq Run /\ remembered \subseteq Run
    /\ ran \in [Run -> [StepId -> Nat]]

Init ==
    /\ RegistriesInit
    /\ pc = [r \in Run |-> "idle"]
    /\ via = [r \in Run |-> Nil]
    /\ pipeline = [r \in Run |-> Nil]
    /\ selected = [r \in Run |-> NoRow]
    /\ def = [r \in Run |-> Nil]
    /\ todo = [r \in Run |-> <<>>]
    /\ at = [r \in Run |-> 0]
    /\ result = [r \in Run |-> Nil]
    /\ artifacts = [r \in Run |-> {}]
    /\ saved = [r \in Run |-> Nil]
    /\ answer = [r \in Run |-> Nil]
    /\ wire = [r \in Run |-> "none"]
    /\ recorded = {} /\ remembered = {}
    /\ ran = [r \in Run |-> [s \in StepId |-> 0]]

Goto(r, label) == pc' = [pc EXCEPT ![r] = label]

Save(r, phase, todos) == saved' = [saved EXCEPT ![r] = [phase |-> phase, todo |-> todos]]

Return(r, status, code, path) ==
    /\ answer' = [answer EXCEPT ![r] = [status |-> status, code |-> code, path |-> path]]
    /\ Goto(r, "over")

\* An exception leaves the runner: the answer names neither run nor file.
Raise(r) == Return(r, "ERROR", "workflow_runner_failed", FALSE)

\* A run in the daemon holds its event loop until it is over.
LoopFree == \A r \in Run : via[r] = "daemon" => pc[r] \in {"idle", "over", "dead"}

-----------------------------------------------------------------------------
(* run_agent_workflow, and the runner up to its first todo.                *)

\* The command line names no pipeline, and no surface but a library has the
\* services of patch apply.
Begin(r, surface, p) ==
    /\ pc[r] = "idle" /\ <<surface, p>> \in Calls[r]
    /\ Bound("calls")
    /\ surface = "daemon" => daemon = "up" /\ LoopFree
    /\ surface = "cli" => p = Investigation
    /\ p = PatchApply => surface = "library"
    /\ via' = [via EXCEPT ![r] = surface]
    /\ pipeline' = [pipeline EXCEPT ![r] = p]
    /\ Goto(r, "skills")
    /\ UNCHANGED <<template, skillFile, cap, skill, daemon, imports, nextDir, selected, planVars, result, artifacts, saved, answer,
                   effectVars>>

\* The profile is not safe, or the target is not a directory under a root.
RefuseInput(r) ==
    /\ pc[r] = "skills"
    /\ Return(r, "POLICY_BLOCK", "invalid_input", FALSE)
    /\ UNCHANGED <<registryVars, callVars, planVars, result, artifacts, saved, effectVars>>

\* _load_selected_skill_metadata: imports when there is none; a failure is a
\* warning.
LoadSkills(r) ==
    /\ pc[r] = "skills"
    /\ \E rows \in {IF Verified(skill) = {} THEN ImportAll ELSE skill} :
          \/ skill' = rows /\ selected' = [selected EXCEPT ![r] = SelectSkill(Verified(rows))]
          \/ UNCHANGED <<skill, selected>>
    /\ Goto(r, IF pipeline[r] = PatchApply THEN "patch" ELSE "policy")
    /\ UNCHANGED <<template, skillFile, cap, daemon, imports, nextDir, budget, via, pipeline,
                   planVars, result, artifacts, saved, answer, effectVars>>

\* _run_internal_patch_apply: not configured or without its ids, applied, not
\* applied, or an exception.
ApplyPatch(r) ==
    /\ pc[r] = "patch"
    /\ \/ \E status \in {"ERROR", "POLICY_BLOCK"} :
             /\ Save(r, "PATCH_APPLY", <<>>)
             /\ Return(r, status, "patch_apply_request", TRUE)
       \/ \E status \in {"COMPLETE", "ERROR"} :
             /\ Save(r, "FINAL", <<>>)
             /\ Return(r, status, "none", TRUE)
       \/ Raise(r) /\ UNCHANGED saved
    /\ UNCHANGED <<registryVars, callVars, planVars, result, artifacts, effectVars>>

\* Neither the daemon nor the command line hands the registry over.
HasRegistry(r) == via[r] = "library"

CheckPolicy(r) ==
    /\ pc[r] = "policy"
    /\ IF HasRegistry(r) /\ PolicyError(pipeline[r])
       THEN /\ Save(r, "FINAL", <<>>)
            /\ Return(r, "POLICY_BLOCK", "capability_policy_block", TRUE)
       ELSE Goto(r, "build") /\ UNCHANGED <<saved, answer>>
    /\ UNCHANGED <<registryVars, callVars, planVars, result, artifacts, wire, recorded,
                   remembered, ran>>

\* _build_plan reads and compiles the template.
Build(r) ==
    /\ pc[r] = "build"
    /\ LET file == template[pipeline[r]]
       IN IF ~Compiles(pipeline[r], file)
          THEN Raise(r) /\ UNCHANGED <<planVars, saved>>
          ELSE \E order \in Plans[file] :
            /\ def' = [def EXCEPT ![r] = file]
            /\ IF Len(order) > MaxSteps
               THEN /\ Save(r, "FINAL", <<>>)
                    /\ Return(r, "POLICY_BLOCK", "plan_too_long", TRUE)
                    /\ UNCHANGED <<todo, at>>
               ELSE /\ todo' = [todo EXCEPT ![r] =
                         [i \in DOMAIN order |-> [step |-> order[i], status |-> "pending"]]]
                    /\ Save(r, "PLAN", todo'[r])
                    /\ at' = [at EXCEPT ![r] = 1]
                    /\ Goto(r, "next")
                    /\ UNCHANGED answer
    /\ UNCHANGED <<registryVars, callVars, result, artifacts, effectVars>>

-----------------------------------------------------------------------------
(* One todo: a save before the call, two after it.                         *)

Step(r) == todo[r][at[r]].step
StepAt(r) == StepOf(def[r], Step(r))
Unbound(r) == StepAt(r).binds \ artifacts[r]
SetTodo(r, status) == todo' = [todo EXCEPT ![r][at[r]].status = status]

\* Mutant of StartTodo: the state is saved after the call only.
StartTodoUnsaved(r) ==
    /\ pc[r] = "next" /\ at[r] <= Len(todo[r])
    /\ SetTodo(r, "active")
    /\ Goto(r, "act")
    /\ UNCHANGED <<registryVars, callVars, def, at, result, artifacts, saved, answer, effectVars>>

StartTodo(r) ==
    /\ pc[r] = "next" /\ at[r] <= Len(todo[r])
    /\ SetTodo(r, "active")
    /\ Save(r, "ACT", todo'[r])
    /\ Goto(r, "act")
    /\ UNCHANGED <<registryVars, callVars, def, at, result, artifacts, answer, effectVars>>

Comes(r, res) == result' = [result EXCEPT ![r] = res] /\ Goto(r, "result")

ToolRuns(r) == ran' = [ran EXCEPT ![r][Step(r)] = @ + 1]

\* No call is made: an artifact is missing, or the tool is not for direct use.
NotCalled(r) ==
    /\ pc[r] = "act"
    /\ \/ Unbound(r) # {} /\ Comes(r, "binding_resolution_failed")
       \/ /\ Unbound(r) = {} /\ via[r] = "daemon" /\ StepAt(r).tool \notin DirectTools
          /\ Comes(r, "tool_not_allowed")
    /\ UNCHANGED <<registryVars, callVars, planVars, artifacts, saved, answer, effectVars>>

\* InProcessToolClient: the tool answers or raises before the run goes on.
CallDirect(r) ==
    /\ pc[r] = "act" /\ Unbound(r) = {}
    /\ via[r] = "daemon" => StepAt(r).tool \in DirectTools
    /\ via[r] # "cli"
    /\ ToolRuns(r)
    /\ \E res \in {"artifact", "no_artifact", "tool_failed",
                   "tool_execution_failed"} : Comes(r, res)
    /\ UNCHANGED <<registryVars, callVars, planVars, artifacts, saved, answer, wire,
                   recorded, remembered>>

\* TcpBridgeClient.call_tool: the bridge listens when the daemon is up.
Send(r) ==
    /\ pc[r] = "act" /\ Unbound(r) = {} /\ via[r] = "cli"
    /\ IF daemon = "up"
       THEN wire' = [wire EXCEPT ![r] = "request"] /\ Goto(r, "sent") /\ UNCHANGED result
       ELSE Comes(r, "bridge_call_failed") /\ UNCHANGED wire
    /\ UNCHANGED <<registryVars, callVars, planVars, artifacts, saved, answer, recorded,
                   remembered, ran>>

\* handle_client reads the line whether or not its sender still waits.  An
\* exception that is no AdapterFailure closes the connection.
Serve(r) ==
    /\ wire[r] = "request" /\ daemon = "up" /\ LoopFree
    /\ ToolRuns(r)
    /\ \E res \in {"artifact", "no_artifact", "tool_failed", "closed"} :
          wire' = [wire EXCEPT ![r] = res]
    /\ UNCHANGED <<registryVars, pc, callVars, planVars, result, artifacts, saved, answer,
                   recorded, remembered>>

Receive(r) ==
    /\ pc[r] = "sent" /\ wire[r] # "request"
    /\ Comes(r, IF wire[r] = "closed" THEN "bridge_call_failed" ELSE wire[r])
    /\ UNCHANGED <<registryVars, callVars, planVars, artifacts, saved, answer, effectVars>>

\* Mutant of CallTimesOut: only a closed connection ends the wait.
CallTimesOutNever(r) ==
    /\ pc[r] = "sent" /\ wire[r] = "closed"
    /\ Comes(r, "bridge_call_failed")
    /\ UNCHANGED <<registryVars, callVars, planVars, artifacts, saved, answer, effectVars>>

\* The request stays where it is.
CallTimesOut(r) ==
    /\ pc[r] = "sent" /\ wire[r] = "request"
    /\ Comes(r, "bridge_call_failed")
    /\ UNCHANGED <<registryVars, callVars, planVars, artifacts, saved, answer, effectVars>>

\* Mutant of Summarise: the status of the tool is taken for the status of the todo.
SummariseStatus(r) ==
    /\ pc[r] = "result"
    /\ SetTodo(r, result[r])
    /\ artifacts' = IF result[r] = "artifact"
                    THEN [artifacts EXCEPT ![r] = @ \cup {Step(r)}] ELSE artifacts
    /\ Save(r, "SUMMARISE_TOOL_RESULT", todo'[r])
    /\ Goto(r, "summarised")
    /\ UNCHANGED <<registryVars, callVars, def, at, result, answer, effectVars>>

Summarise(r) ==
    /\ pc[r] = "result"
    /\ SetTodo(r, IF result[r] \in Ok THEN "done" ELSE "blocked")
    /\ artifacts' = IF result[r] = "artifact"
                    THEN [artifacts EXCEPT ![r] = @ \cup {Step(r)}] ELSE artifacts
    /\ Save(r, "SUMMARISE_TOOL_RESULT", todo'[r])
    /\ Goto(r, "summarised")
    /\ UNCHANGED <<registryVars, callVars, def, at, result, answer, effectVars>>

Check(r) ==
    /\ pc[r] = "summarised"
    /\ Save(r, "CHECK", todo[r])
    /\ Goto(r, "checked")
    /\ UNCHANGED <<registryVars, callVars, planVars, result, artifacts, answer, effectVars>>

\* The first todo that is not done ends the run.
Halt(r) ==
    /\ pc[r] = "checked" /\ result[r] \notin Ok
    /\ Save(r, "FINAL", todo[r])
    /\ \E status \in {"POLICY_BLOCK", "ERROR"} :
          /\ result[r] \in BlockCode => status = "POLICY_BLOCK"
          /\ result[r] \in {"tool_execution_failed", "bridge_call_failed"} => status = "ERROR"
          /\ Return(r, status, result[r], TRUE)
    /\ UNCHANGED <<registryVars, callVars, planVars, result, artifacts, effectVars>>

\* Mutant of NextTodo: a todo that is blocked does not end the run.
NextTodoAnyway(r) ==
    /\ pc[r] = "checked"
    /\ at' = [at EXCEPT ![r] = @ + 1]
    /\ Goto(r, IF StepAt(r).tool = Handoff \/ at[r] = Len(todo[r]) THEN "snapshot" ELSE "next")
    /\ UNCHANGED <<registryVars, callVars, def, todo, result, artifacts, saved, answer,
                   effectVars>>

NextTodo(r) ==
    /\ pc[r] = "checked" /\ result[r] \in Ok
    /\ at' = [at EXCEPT ![r] = @ + 1]
    /\ Goto(r, IF StepAt(r).tool = Handoff \/ at[r] = Len(todo[r]) THEN "snapshot" ELSE "next")
    /\ UNCHANGED <<registryVars, callVars, def, todo, result, artifacts, saved, answer,
                   effectVars>>

-----------------------------------------------------------------------------
(* The end of a run whose todos are done.                                  *)

HasServices(r) == via[r] # "cli"

Snapshot(r) ==
    /\ pc[r] = "snapshot"
    /\ recorded' = IF HasServices(r) THEN recorded \cup {r} ELSE recorded
    /\ Goto(r, "memory")
    /\ UNCHANGED <<registryVars, callVars, planVars, result, artifacts, saved, answer, wire,
                   remembered, ran>>

\* Only with an active project, and when the summary may be written.
Remember(r) ==
    /\ pc[r] = "memory"
    /\ \/ HasServices(r) /\ remembered' = remembered \cup {r}
       \/ UNCHANGED remembered
    /\ Goto(r, "report")
    /\ UNCHANGED <<registryVars, callVars, planVars, result, artifacts, saved, answer, wire,
                   recorded, ran>>

\* The receipt, and the report of a code review or of a research.
Report(r) ==
    /\ pc[r] = "report"
    /\ Save(r, "SYNTHESIZE", todo[r])
    /\ Goto(r, "synthesized")
    /\ UNCHANGED <<registryVars, callVars, planVars, result, artifacts, answer, effectVars>>

\* Mutant of Finish: the last save is forgotten.
FinishUnsaved(r) ==
    /\ pc[r] = "synthesized"
    /\ Return(r, "COMPLETE", "none", TRUE)
    /\ UNCHANGED <<registryVars, callVars, planVars, result, artifacts, saved, effectVars>>

Finish(r) ==
    /\ pc[r] = "synthesized"
    /\ Save(r, "FINAL", todo[r])
    /\ Return(r, "COMPLETE", "none", TRUE)
    /\ UNCHANGED <<registryVars, callVars, planVars, result, artifacts, effectVars>>

-----------------------------------------------------------------------------
(* What goes wrong. *)

Midway == {"policy", "build", "next", "act", "result", "summarised", "checked", "snapshot",
           "memory", "report", "synthesized"}

\* A save, the first one too, a snapshot, a memory or a report raises.
\* write_text truncates the file first.
StepRaises(r) ==
    /\ pc[r] \in Midway \ {"act"}
    /\ Bound("faults")
    /\ Raise(r)
    /\ \/ UNCHANGED saved
       \/ pc[r] \notin {"snapshot", "memory"} /\ saved' = [saved EXCEPT ![r] = Nil]
    /\ UNCHANGED <<template, skillFile, cap, skill, daemon, imports, nextDir, callVars, planVars, result, artifacts, wire, recorded,
                   remembered, ran>>

CallerDies(r) ==
    /\ pc[r] \in Midway \cup {"skills", "patch", "sent"} /\ via[r] # "daemon"
    /\ Bound("faults")
    /\ Goto(r, "dead")
    /\ \/ UNCHANGED saved
       \/ pc[r] \notin {"act", "sent"} /\ saved' = [saved EXCEPT ![r] = Nil]
    /\ UNCHANGED <<template, skillFile, cap, skill, daemon, imports, nextDir, callVars, planVars, result, artifacts, answer, wire,
                   recorded, remembered, ran>>

\* With it go its run, the requests it has not read, and its start.
DaemonDies ==
    /\ daemon # "down"
    /\ Bound("faults")
    /\ daemon' = "down"
    /\ imports' = {} /\ nextDir' = 1
    /\ pc' = [r \in Run |-> IF via[r] = "daemon" /\ pc[r] # "over" THEN "dead" ELSE pc[r]]
    /\ wire' = [r \in Run |-> IF wire[r] = "request" THEN "closed" ELSE wire[r]]
    /\ UNCHANGED <<template, skillFile, cap, skill, callVars, planVars, result,
                   artifacts, saved, answer, recorded, remembered, ran>>

-----------------------------------------------------------------------------
RunStep(r) ==
    \/ RefuseInput(r) \/ LoadSkills(r) \/ ApplyPatch(r) \/ CheckPolicy(r) \/ Build(r)
    \/ StartTodo(r) \/ NotCalled(r) \/ CallDirect(r) \/ Send(r) \/ Receive(r)
    \/ CallTimesOut(r) \/ Summarise(r) \/ Check(r) \/ Halt(r) \/ NextTodo(r)
    \/ Snapshot(r) \/ Remember(r) \/ Report(r) \/ Finish(r)

Next ==
    \/ \E r \in Run : RunStep(r)
    \/ \E r \in Run, surface \in Surface, p \in Pipeline \cup {PatchApply} :
          Begin(r, surface, p)
    \/ \E r \in Run : Serve(r) \/ StepRaises(r) \/ CallerDies(r)
    \/ DaemonDies
    \/ RegistriesNext /\ UNCHANGED <<pc, callVars, planVars, result, artifacts, saved,
                                     answer, effectVars>>

Spec == Init /\ [][Next]_vars

\* The code of a run goes on by itself: a tool returns, and a call over the
\* bridge is answered or times out.
FairSpec == Spec /\ \A r \in Run : WF_vars(RunStep(r))

-----------------------------------------------------------------------------
(* Properties. *)

\* The state file never understates what a run has done: a todo it calls
\* pending has not been called, not even by a request that was answered too
\* late, one it calls done ran once, and none ran twice, after whatever death
\* or failure (the save with status active before call_tool, the saves after).
SavedTellsWhatRan ==
    \A r \in Run : saved[r] # Nil =>
        \A i \in DOMAIN saved[r].todo : LET t == saved[r].todo[i] IN
            /\ ran[r][t.step] <= 1
            /\ t.status = "pending" => ran[r][t.step] = 0
            /\ t.status = "done" => ran[r][t.step] = 1

\* A tool runs only when every step it depends on ran and answered ok
\* (the order of the compiler, and the end of a run at its first failure).
DependenciesRanFirst ==
    \A r \in Run, s \in StepId : ran[r][s] > 0 =>
        \A d \in StepOf(def[r], s).deps : \E i \in DOMAIN todo[r] :
            todo[r][i] = [step |-> d, status |-> "done"] /\ ran[r][d] = 1

\* Every todo is done, but those behind the handoff, which ends a run.
Worked(r) ==
    \A i \in DOMAIN todo[r] :
        \/ todo[r][i].status = "done"
        \/ \E j \in 1..i - 1 : StepOf(def[r], todo[r][j].step).tool = Handoff

\* A run leaves a snapshot or a memory only of finished work, and answers
\* COMPLETE only for finished work whose file says so (_attach_round_one_artifacts,
\* reached from the end of the loop and from the handoff).
OnlyWorkIsKept ==
    /\ \A r \in recorded \cup remembered : Worked(r)
    /\ \A r \in Run : answer[r] # Nil /\ answer[r].status = "COMPLETE" =>
          Worked(r) /\ saved[r] = [phase |-> "FINAL", todo |-> todo[r]]

\* Every run is answered, or the process it runs in dies (the timeout of the
\* bridge client, and run_agent_workflow's handler of all exceptions).
RunsAreAnswered ==
    \A r \in Run : pc[r] # "idle" ~> pc[r] \in {"over", "dead"}
=============================================================================
