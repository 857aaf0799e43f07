--------------------------- MODULE WorkflowProofs ---------------------------
(***************************************************************************)
(* Theorems about Workflow for any number of runs, any templates that the  *)
(* compiler accepts, and any of the surfaces a run is started on.          *)
(*                                                                         *)
(* The three invariants say what a run, its state file and its answer show *)
(* of the tools that ran.  They rest on an invariant of each run (RunInv): *)
(* todos before the one it is at are done and ran once, those behind it    *)
(* are pending and did not run; and of the one it is at, the label, the    *)
(* result and what is on the wire tell whether its tool can still run: a   *)
(* request may be served after its caller timed out or died, but then the  *)
(* run never goes on.  The types come last, with what they need of the     *)
(* choice of a skill and of the labels at which a result is there.         *)
(***************************************************************************)
EXTENDS Workflow, FiniteSetTheorems, SequenceTheorems, WellFoundedInduction, TLAPS

(***************************************************************************)
(* What the compiler promises of a plan.                                   *)
(***************************************************************************)

\* The record found for the id of a step is one of the steps.
LEMMA StepOfIsStep ==
  ASSUME NEW tmpl, NEW s \in Ids(tmpl)
  PROVE  /\ StepOf(tmpl, s) \in {tmpl.steps[i] : i \in 1..Len(tmpl.steps)}
         /\ StepOf(tmpl, s).id = s
  <1>1. PICK i \in 1..Len(tmpl.steps) : tmpl.steps[i].id = s
    BY DEF Ids
  <1>2. \E step \in {tmpl.steps[j] : j \in 1..Len(tmpl.steps)} : step.id = s
    BY <1>1
  <1> QED
    BY <1>2 DEF StepOf

\* An order of a plan has every step once: as many steps as places, no step
\* twice.
LEMMA OrderIsOnto ==
  ASSUME NEW tmpl \in Definition, Validates(tmpl),
         NEW order \in [1..Len(tmpl.steps) -> Ids(tmpl)], IsInjective(order)
  PROVE  /\ \A i, j \in DOMAIN order : order[i] = order[j] => i = j
         /\ \A s \in Ids(tmpl) : \E j \in DOMAIN order : order[j] = s
  <1> DEFINE n == Len(tmpl.steps)
  <1>1. n \in Nat
    BY PipelineConstantsOK
  <1>2. \A i, j \in DOMAIN order : order[i] = order[j] => i = j
    BY DEF IsInjective
  <1>3. order \in Injection(1..n, Ids(tmpl))
    BY <1>2 DEF Injection, IsInjective
  <1>4. IsFiniteSet(1..n) /\ Cardinality(1..n) = n
    BY <1>1, FS_Interval
  <1>5. IsFiniteSet(Ids(tmpl))
    <2> DEFINE id == [i \in 1..n |-> tmpl.steps[i].id]
    <2>1. id \in Surjection(1..n, Ids(tmpl))
      BY DEF Surjection, Ids
    <2> QED
      BY <1>4, <2>1, FS_Surjection
  <1>6. Cardinality(Ids(tmpl)) = n
    BY DEF Validates
  <1>7. order \in Surjection(1..n, Ids(tmpl))
    BY <1>3, <1>4, <1>5, <1>6, FS_Injection
  <1> QED
    BY <1>2, <1>7 DEF Surjection

\* What static_order and the checks of the compiler come to: a plan is a
\* sequence of known steps without repetition, in which every step comes after
\* those it depends on.
THEOREM PlansAreOrdered ==
  ASSUME NEW tmpl \in Definition, NEW order \in Plans[tmpl]
  PROVE  /\ order \in Seq(StepId) /\ Len(order) >= 1
         /\ \A i, j \in DOMAIN order : order[i] = order[j] => i = j
         /\ \A i \in DOMAIN order : \A d \in StepOf(tmpl, order[i]).deps :
               \E j \in 1..i - 1 : order[j] = d
  <1> DEFINE n == Len(tmpl.steps)
  <1>1. n \in Nat /\ tmpl.maxSteps \in Nat /\ Ids(tmpl) \subseteq StepId
    BY PipelineConstantsOK, WorkflowConstantsOK
  <1>2. Validates(tmpl) /\ order \in Orders(tmpl)
    BY DEF Plans
  <1>3. n >= 1
    BY <1>1, <1>2 DEF Validates
  <1>4. PICK round \in Rounds(tmpl) :
          /\ order \in [1..n -> Ids(tmpl)]
          /\ IsInjective(order)
          /\ \A i, j \in DOMAIN order : i < j => round[order[i]] <= round[order[j]]
    BY <1>2 DEF Orders
  <1>5. order \in Seq(StepId) /\ Len(order) = n
    BY <1>1, <1>4
  <1>6. /\ \A i, j \in DOMAIN order : order[i] = order[j] => i = j
        /\ \A s \in Ids(tmpl) : \E j \in DOMAIN order : order[j] = s
    BY <1>2, <1>4, OrderIsOnto
  <1>7. ASSUME NEW i \in DOMAIN order, NEW d \in StepOf(tmpl, order[i]).deps
        PROVE  \E j \in 1..i - 1 : order[j] = d
    <2>1. order[i] \in Ids(tmpl) /\ i \in 1..n
      BY <1>4
    <2>2. d \in Ids(tmpl)
      BY <1>2, <2>1, StepOfIsStep DEF Validates
    <2>3. PICK j \in 1..n : order[j] = d
      BY <1>4, <1>6, <2>2
    <2>4. round[d] < round[order[i]] /\ round[d] \in Int /\ round[order[i]] \in Int
      BY <1>1, <2>1, <2>2 DEF Rounds
    <2>5. ~(i < j)
      BY <1>4, <2>1, <2>3, <2>4
    <2>6. j # i
      BY <2>3, <2>4
    <2> QED
      BY <2>1, <2>3, <2>5, <2>6
  <1> QED
    BY <1>3, <1>5, <1>6, <1>7

-----------------------------------------------------------------------------
(***************************************************************************)
(* The invariant of a run.                                                 *)
(***************************************************************************)

Early   == {"idle", "skills", "patch", "policy", "build"}
Working == {"next", "act", "sent", "result", "summarised", "checked"}
Late    == {"snapshot", "memory", "report", "synthesized"}

\* What the proofs need of the types.
RunsAreTyped ==
    /\ DOMAIN pc = Run /\ DOMAIN def = Run /\ DOMAIN result = Run
    /\ DOMAIN saved = Run /\ DOMAIN answer = Run /\ DOMAIN wire = Run
    /\ todo \in [Run -> Seq(Todo)]
    /\ at \in [Run -> Nat]
    /\ ran \in [Run -> [StepId -> Nat]]
    /\ recorded \cup remembered \subseteq Run
    /\ template \in [Pipeline -> Definition \cup {Missing, Malformed}]

\* The todos of a run are those of a plan.
PlanInv(r) ==
    /\ \A i, j \in DOMAIN todo[r] : todo[r][i].step = todo[r][j].step => i = j
    /\ \A i \in DOMAIN todo[r] : \A d \in StepOf(def[r], todo[r][i].step).deps :
          \E j \in 1..i - 1 : todo[r][j].step = d

\* What the todos say of the tools that ran.
RanInv(r) ==
    /\ \A i \in DOMAIN todo[r] :
          /\ i < at[r] => todo[r][i].status = "done" /\ ran[r][todo[r][i].step] = 1
          /\ i > at[r] => todo[r][i].status = "pending"
          /\ ran[r][todo[r][i].step] <= 1
          /\ todo[r][i].status = "pending" => ran[r][todo[r][i].step] = 0
          /\ todo[r][i].status = "done" => ran[r][todo[r][i].step] = 1
    /\ \A s \in StepId : ran[r][s] > 0 =>
          \E i \in DOMAIN todo[r] : i <= at[r] /\ todo[r][i].step = s

StatusAt(r) == todo[r][at[r]].status
Count(r)    == ran[r][Step(r)]

\* Whether the tool of the todo a run is at can still run.
AtInv(r) ==
    /\ pc[r] \in Early => todo[r] = <<>>
    /\ pc[r] \in Working \/ wire[r] = "request" => at[r] \in DOMAIN todo[r]
    /\ pc[r] = "next" => StatusAt(r) = "pending"
    /\ pc[r] \in {"act", "sent", "result"} => StatusAt(r) = "active"
    /\ pc[r] = "act" => Count(r) = 0
    /\ pc[r] = "sent" /\ wire[r] \in Ok => Count(r) = 1
    /\ pc[r] = "result" /\ result[r] \in Ok => Count(r) = 1
    /\ pc[r] \in {"summarised", "checked"} /\ result[r] \in Ok => StatusAt(r) = "done"
    /\ pc[r] \in Late => Worked(r)
    /\ wire[r] = "request" =>
         /\ pc[r] \in {"sent", "result", "summarised", "checked", "over", "dead"}
         /\ StatusAt(r) # "pending"
         /\ Count(r) = 0

\* What a run leaves behind.
KeptInv(r) ==
    /\ r \in recorded \cup remembered => Worked(r) /\ pc[r] \in Late \cup {"over", "dead"}
    /\ saved[r] # Nil => saved[r].todo = todo[r]
    /\ answer[r] # Nil => pc[r] = "over"
    /\ answer[r] # Nil /\ answer[r].status = "COMPLETE" =>
          Worked(r) /\ saved[r] = [phase |-> "FINAL", todo |-> todo[r]]

RunInv(r) == PlanInv(r) /\ RanInv(r) /\ AtInv(r) /\ KeptInv(r)

Inv == RunsAreTyped /\ \A r \in Run : RunInv(r)

-----------------------------------------------------------------------------

LEMMA InitInv == Init => Inv
  <1> SUFFICES ASSUME Init PROVE Inv
    OBVIOUS
  <1>1. RunsAreTyped
    <2>1. template \in [Pipeline -> Definition \cup {Missing, Malformed}]
      BY RegistriesConstantsOK DEF Init, RegistriesInit
    <2> QED
      BY <2>1 DEF Init, RunsAreTyped
  <1>2. ASSUME NEW r \in Run PROVE RunInv(r)
    <2>1. todo[r] = <<>> /\ DOMAIN todo[r] = {} /\ pc[r] = "idle" /\ wire[r] = "none"
      BY DEF Init
    <2>2. PlanInv(r) /\ RanInv(r)
      BY <2>1 DEF Init, PlanInv, RanInv
    <2>3. AtInv(r)
      BY <2>1 DEF AtInv, Early, Working, Late
    <2>4. KeptInv(r)
      BY <2>1 DEF Init, KeptInv
    <2> QED
      BY <2>2, <2>3, <2>4 DEF RunInv
  <1> QED
    BY <1>1, <1>2 DEF Inv

(***************************************************************************)
(* What a step leaves of the runs.                                         *)
(***************************************************************************)

\* All that the invariant says of a run is as before.
Untouched(q) ==
    /\ pc'[q] = pc[q] /\ def'[q] = def[q] /\ todo'[q] = todo[q] /\ at'[q] = at[q]
    /\ result'[q] = result[q] /\ saved'[q] = saved[q] /\ answer'[q] = answer[q]
    /\ wire'[q] = wire[q] /\ ran'[q] = ran[q]
    /\ q \in (recorded \cup remembered)' <=> q \in recorded \cup remembered

\* The plan of a run and the count of its calls are as before.
PlanStays(r) ==
    def'[r] = def[r] /\ todo'[r] = todo[r] /\ at'[r] = at[r] /\ ran'[r] = ran[r]

LEMMA PlanStaysKeeps ==
  ASSUME NEW r \in Run, RunInv(r), PlanStays(r)
  PROVE  /\ PlanInv(r)' /\ RanInv(r)'
         /\ StatusAt(r)' = StatusAt(r) /\ Count(r)' = Count(r)
         /\ Worked(r) => Worked(r)'
  BY DEF RunInv, PlanStays, PlanInv, RanInv, StatusAt, Count, Step, Worked

LEMMA PlanKeeps ==
  ASSUME NEW r \in Run, PlanInv(r), def'[r] = def[r], todo'[r] = todo[r]
  PROVE  PlanInv(r)'
  BY DEF PlanInv

LEMMA UntouchedKeeps ==
  ASSUME NEW q \in Run, RunInv(q), Untouched(q)
  PROVE  RunInv(q)'
  <1>1. PlanStays(q)
    BY DEF Untouched, PlanStays
  <1>2. /\ PlanInv(q)' /\ RanInv(q)'
        /\ StatusAt(q)' = StatusAt(q) /\ Count(q)' = Count(q)
        /\ Worked(q) => Worked(q)'
    BY <1>1, PlanStaysKeeps
  <1>3. AtInv(q)'
    BY <1>2 DEF RunInv, AtInv, Untouched
  <1>4. KeptInv(q)'
    BY <1>2 DEF RunInv, KeptInv, Untouched
  <1> QED
    BY <1>2, <1>3, <1>4 DEF RunInv

\* A step of the run r, whose own part is left to prove.
LEMMA OneRun ==
  ASSUME Inv, NEW r \in Run, RunsAreTyped', RunInv(r)', \A q \in Run \ {r} : Untouched(q)
  PROVE  Inv'
  BY UntouchedKeeps DEF Inv

\* What a step that calls nothing and moves on from one label to another has
\* to show.
LEMMA MovesOn ==
  ASSUME NEW r \in Run, RunInv(r), PlanStays(r), wire'[r] = wire[r] \/ wire'[r] # "request",
         r \in (recorded \cup remembered)' => r \in recorded \cup remembered \/ Worked(r),
         r \in (recorded \cup remembered)' => pc'[r] \in Late \cup {"over", "dead"},
         saved'[r] = saved[r] \/ saved'[r] = Nil \/ saved'[r].todo = todo[r],
         answer'[r] = Nil \/ (pc'[r] = "over" /\
            (answer'[r].status = "COMPLETE" =>
               Worked(r) /\ saved'[r] = [phase |-> "FINAL", todo |-> todo[r]])),
         AtInv(r)'
  PROVE  RunInv(r)'
  <1>1. /\ PlanInv(r)' /\ RanInv(r)'
        /\ Worked(r) => Worked(r)'
    BY PlanStaysKeeps
  <1>2. KeptInv(r)'
    BY <1>1 DEF RunInv, KeptInv, PlanStays
  <1> QED
    BY <1>1, <1>2 DEF RunInv

-----------------------------------------------------------------------------
(* Up to the first todo. *)

LEMMA EarlySteps ==
  ASSUME Inv, NEW r \in Run,
         \/ \E surface \in Surface, p \in Pipeline \cup {PatchApply} : Begin(r, surface, p)
         \/ RefuseInput(r) \/ LoadSkills(r) \/ ApplyPatch(r) \/ CheckPolicy(r)
  PROVE  Inv'
  <1> DEFINE Moved ==
        /\ pc'[r] \in Early \cup {"over"}
        /\ \/ saved'[r] = saved[r]
           \/ saved'[r] = [phase |-> "FINAL", todo |-> <<>>]
           \/ saved'[r] = [phase |-> "PATCH_APPLY", todo |-> <<>>]
        /\ \/ answer'[r] = answer[r]
           \/ /\ pc'[r] = "over"
              /\ answer'[r].status = "COMPLETE" => saved'[r] = [phase |-> "FINAL", todo |-> <<>>]
        Rest ==
        /\ RunsAreTyped'
        /\ \A q \in Run \ {r} : Untouched(q)
        /\ PlanStays(r) /\ wire' = wire /\ recorded' = recorded /\ remembered' = remembered
        /\ pc[r] \in Early
  <1>1. Moved /\ Rest
    <2> USE DEF Inv, RunsAreTyped, Untouched, PlanStays, Goto, Early, planVars, effectVars,
             registryVars
    <2>1. CASE \E surface \in Surface, p \in Pipeline \cup {PatchApply} : Begin(r, surface, p)
      <3>1. PICK surface \in Surface, p \in Pipeline \cup {PatchApply} : Begin(r, surface, p)
        BY <2>1
      <3>2. /\ pc[r] = "idle" /\ pc' = [pc EXCEPT ![r] = "skills"]
            /\ UNCHANGED <<template, planVars, result, saved, answer, effectVars>>
        BY <3>1 DEF Begin
      <3> QED
        BY <3>2
    <2>2. CASE RefuseInput(r)
      BY <2>2 DEF RefuseInput, Return
    <2>3. CASE LoadSkills(r)
      <3>1. PICK l \in {"patch", "policy"} :
              /\ pc[r] = "skills" /\ pc' = [pc EXCEPT ![r] = l]
              /\ UNCHANGED <<template, planVars, result, saved, answer, effectVars>>
        BY <2>3 DEF LoadSkills
      <3> QED
        BY <3>1
    <2>4. CASE ApplyPatch(r)
      <3> USE <2>4 DEF ApplyPatch, Return, Save, Raise
      <3>1. CASE \E status \in {"ERROR", "POLICY_BLOCK"} :
                   Save(r, "PATCH_APPLY", <<>>) /\ Return(r, status, "patch_apply_request", TRUE)
        BY <3>1
      <3>2. CASE \E status \in {"COMPLETE", "ERROR"} :
                   Save(r, "FINAL", <<>>) /\ Return(r, status, "none", TRUE)
        BY <3>2
      <3>3. CASE Raise(r) /\ UNCHANGED saved
        BY <3>3
      <3> QED
        BY <3>1, <3>2, <3>3
    <2>5. CASE CheckPolicy(r)
      <3>1. /\ pc[r] = "policy" /\ UNCHANGED template
            /\ UNCHANGED <<planVars, result, wire, recorded, remembered, ran>>
        BY <2>5 DEF CheckPolicy, registryVars
      <3>2. CASE HasRegistry(r) /\ PolicyError(pipeline[r])
        BY <2>5, <3>1, <3>2 DEF CheckPolicy, Return, Save
      <3>3. CASE ~(HasRegistry(r) /\ PolicyError(pipeline[r]))
        BY <2>5, <3>1, <3>3 DEF CheckPolicy
      <3> QED
        BY <3>2, <3>3
    <2> QED
      BY <2>1, <2>2, <2>3, <2>4, <2>5
  <1>2. /\ RunInv(r) /\ todo[r] = <<>> /\ answer[r] = Nil
        /\ r \notin recorded \cup remembered /\ wire[r] # "request"
    BY <1>1 DEF Inv, RunInv, AtInv, KeptInv, Early, Late
  <1>3. Worked(r)
    BY <1>2 DEF Worked
  <1>4. AtInv(r)'
    BY <1>1, <1>2 DEF AtInv, PlanStays, Early, Working, Late
  <1>5. RunInv(r)'
    BY <1>1, <1>2, <1>3, <1>4, MovesOn
  <1> QED
    BY <1>1, <1>5, OneRun

LEMMA BuildStep ==
  ASSUME Inv, NEW r \in Run, Build(r)
  PROVE  Inv'
  <1> USE DEF Goto, Save, Return, Raise
  <1>1. /\ RunInv(r) /\ todo[r] = <<>> /\ DOMAIN todo[r] = {} /\ answer[r] = Nil
        /\ r \notin recorded \cup remembered /\ wire[r] # "request"
        /\ \A s \in StepId : ran[r][s] = 0
    <2>1. RunInv(r) /\ todo[r] = <<>>
      BY DEF Build, Inv, RunInv, AtInv, Early
    <2>2. \A s \in StepId : ran[r][s] = 0
      BY <2>1 DEF RunInv, RanInv, Inv, RunsAreTyped
    <2> QED
      BY <2>1, <2>2 DEF Build, RunInv, AtInv, KeptInv, Late
  <1>2. Worked(r)
    BY <1>1 DEF Worked
  <1>3. \A q \in Run \ {r} : Untouched(q)
    BY DEF Build, Inv, RunsAreTyped, Untouched, planVars, effectVars
  <1>4. DOMAIN pc' = Run /\ DOMAIN def' = Run /\ DOMAIN saved' = Run /\ DOMAIN answer' = Run
    BY DEF Build, Inv, RunsAreTyped, planVars
  <1>5. CASE ~Compiles(pipeline[r], template[pipeline[r]])
    <2>1. RunsAreTyped' /\ PlanStays(r)
      BY <1>4, <1>5 DEF Build, Inv, RunsAreTyped, PlanStays, planVars, effectVars, registryVars
    <2>2. pc'[r] = "over" /\ saved' = saved /\ answer'[r].status = "ERROR"
      BY <1>5 DEF Build, Inv, RunsAreTyped
    <2>3. AtInv(r)'
      BY <1>1, <2>1, <2>2 DEF AtInv, PlanStays, Early, Working, Late, Build, effectVars
    <2>4. RunInv(r)'
      BY <1>1, <1>2, <2>1, <2>2, <2>3, MovesOn DEF Build, effectVars
    <2> QED
      BY <1>3, <2>1, <2>4, OneRun
  <1>6. CASE Compiles(pipeline[r], template[pipeline[r]])
    <2> DEFINE file == template[pipeline[r]]
    <2>1. file \in Definition
      BY <1>6, PipelineConstantsOK DEF Compiles, Loads, Inv, RunsAreTyped
    <2>2. PICK order \in Plans[file] :
            /\ def' = [def EXCEPT ![r] = file]
            /\ \/ /\ Save(r, "FINAL", <<>>)
                  /\ Return(r, "POLICY_BLOCK", "plan_too_long", TRUE)
                  /\ UNCHANGED <<todo, at>>
               \/ /\ todo' = [todo EXCEPT ![r] =
                         [i \in DOMAIN order |-> [step |-> order[i], status |-> "pending"]]]
                  /\ Save(r, "PLAN", todo'[r])
                  /\ at' = [at EXCEPT ![r] = 1]
                  /\ Goto(r, "next")
                  /\ UNCHANGED answer
      BY <1>6 DEF Build
    <2> HIDE DEF file
    <2>3. /\ UNCHANGED <<template, result, wire, recorded, remembered, ran>>
          /\ def'[r] = file
      BY <2>2 DEF Build, effectVars, registryVars, Inv, RunsAreTyped
    <2>4. CASE /\ Save(r, "FINAL", <<>>)
               /\ Return(r, "POLICY_BLOCK", "plan_too_long", TRUE)
               /\ UNCHANGED <<todo, at>>
      <3>1. RunsAreTyped'
        BY <1>4, <2>3, <2>4 DEF Inv, RunsAreTyped
      <3>2. /\ pc'[r] = "over" /\ saved'[r].todo = <<>> /\ answer'[r].status = "POLICY_BLOCK"
        BY <2>4 DEF Inv, RunsAreTyped
      <3>3. PlanInv(r)' /\ RanInv(r)'
        BY <1>1, <2>3, <2>4 DEF PlanInv, RanInv
      <3>4. AtInv(r)' /\ KeptInv(r)'
        BY <1>1, <2>3, <2>4, <3>2 DEF AtInv, KeptInv, Early, Working, Late
      <3> QED
        BY <1>3, <3>1, <3>3, <3>4, OneRun DEF RunInv
    <2>5. CASE /\ todo' = [todo EXCEPT ![r] =
                      [i \in DOMAIN order |-> [step |-> order[i], status |-> "pending"]]]
               /\ Save(r, "PLAN", todo'[r])
               /\ at' = [at EXCEPT ![r] = 1]
               /\ Goto(r, "next")
               /\ UNCHANGED answer
      <3>1. /\ order \in Seq(StepId) /\ Len(order) >= 1
            /\ \A i, j \in DOMAIN order : order[i] = order[j] => i = j
            /\ \A i \in DOMAIN order : \A d \in StepOf(file, order[i]).deps :
                  \E j \in 1..i - 1 : order[j] = d
        BY <2>1, PlansAreOrdered
      <3>2. /\ todo'[r] = [i \in DOMAIN order |-> [step |-> order[i], status |-> "pending"]]
            /\ at'[r] = 1 /\ pc'[r] = "next" /\ saved'[r].todo = todo'[r]
        BY <2>5 DEF Inv, RunsAreTyped
      <3>3. /\ todo'[r] \in Seq(Todo)
            /\ DOMAIN todo'[r] = DOMAIN order /\ 1 \in DOMAIN order
            /\ \A i \in DOMAIN order : i \in Nat /\ i >= 1 /\ order[i] \in StepId
            /\ \A i \in DOMAIN order : 1..i - 1 \subseteq DOMAIN order
        <4>1. /\ DOMAIN order = 1..Len(order) /\ Len(order) \in Nat
              /\ \A i \in DOMAIN order : order[i] \in StepId
          BY <3>1
        <4>2. todo'[r] \in [1..Len(order) -> Todo]
          BY <3>2, <4>1 DEF Todo
        <4> QED
          BY <3>1, <4>1, <4>2
      <3>4. RunsAreTyped'
        BY <1>4, <2>3, <2>5, <3>2, <3>3 DEF Inv, RunsAreTyped
      <3>5. PlanInv(r)'
        <4>1. \A i \in DOMAIN order : todo'[r][i].step = order[i]
          BY <3>2
        <4>2. ASSUME NEW i \in DOMAIN todo'[r], NEW d \in StepOf(file, order[i]).deps
              PROVE  \E j \in 1..i - 1 : todo'[r][j].step = d
          BY <3>1, <3>3, <4>1, <4>2
        <4>3. \A i, j \in DOMAIN todo'[r] : todo'[r][i].step = todo'[r][j].step => i = j
          BY <3>1, <3>3, <4>1
        <4> QED
          BY <2>3, <3>3, <4>1, <4>2, <4>3 DEF PlanInv
      <3>6. RanInv(r)'
        BY <1>1, <2>3, <3>2, <3>3 DEF RanInv
      <3>7. AtInv(r)' /\ KeptInv(r)'
        BY <1>1, <2>3, <2>5, <3>2, <3>3 DEF AtInv, KeptInv, StatusAt, Early, Working, Late
      <3> QED
        BY <1>3, <3>4, <3>5, <3>6, <3>7, OneRun DEF RunInv
    <2> QED
      BY <2>2, <2>4, <2>5
  <1> QED
    BY <1>5, <1>6

-----------------------------------------------------------------------------
(* One todo. *)

\* A todo gets a status that is true of the calls of its tool.
LEMMA SetTodoKeeps ==
  ASSUME Inv, NEW r \in Run, at[r] \in DOMAIN todo[r],
         NEW st \in {"active", "blocked", "done"}, SetTodo(r, st), UNCHANGED <<def, at, ran>>,
         st = "done" => Count(r) = 1,
         StatusAt(r) = "done" => st = "done"
  PROVE  /\ todo' \in [Run -> Seq(Todo)]
         /\ \A q \in Run \ {r} : todo'[q] = todo[q]
         /\ at'[r] \in DOMAIN todo'[r] /\ StatusAt(r)' = st /\ Count(r)' = Count(r)
         /\ Step(r)' = Step(r)
         /\ PlanInv(r)' /\ RanInv(r)'
  <1>1. /\ todo[r] \in Seq(Todo) /\ at[r] \in Nat /\ DOMAIN todo = Run /\ PlanInv(r) /\ RanInv(r)
    BY DEF Inv, RunsAreTyped, RunInv
  <1>2. todo[r][at[r]] \in Todo
    BY <1>1
  <1> DEFINE item == [todo[r][at[r]] EXCEPT !.status = st]
             list == [todo[r] EXCEPT ![at[r]] = item]
  <1>3. item \in Todo /\ item.status = st /\ item.step = todo[r][at[r]].step
    BY <1>2 DEF Todo
  <1>4. todo' = [todo EXCEPT ![r] = list]
    BY DEF SetTodo
  <1> HIDE DEF item
  <1>5. /\ list \in Seq(Todo) /\ DOMAIN list = DOMAIN todo[r]
        /\ \A i \in DOMAIN list : list[i].step = todo[r][i].step
        /\ \A i \in DOMAIN list \ {at[r]} : list[i] = todo[r][i]
        /\ list[at[r]].status = st
    BY <1>1, <1>3
  <1> HIDE DEF list
  <1>6. /\ todo' \in [Run -> Seq(Todo)]
        /\ \A q \in Run \ {r} : todo'[q] = todo[q]
        /\ todo'[r] = list
    BY <1>4, <1>5 DEF Inv, RunsAreTyped
  <1>7. at'[r] \in DOMAIN todo'[r] /\ StatusAt(r)' = st /\ Step(r)' = Step(r) /\ Count(r)' = Count(r)
    BY <1>5, <1>6 DEF StatusAt, Step, Count
  <1>8. PlanInv(r)'
    <2>1. DOMAIN list = 1..Len(list) /\ Len(list) \in Nat
      BY <1>5
    <2>2. ASSUME NEW i \in DOMAIN list, NEW d \in StepOf(def[r], list[i].step).deps
          PROVE  \E j \in 1..i - 1 : list[j].step = d
      <3>1. PICK j \in 1..i - 1 : todo[r][j].step = d
        BY <1>1, <1>5 DEF PlanInv
      <3> QED
        BY <1>5, <2>1, <3>1
    <2>3. \A i, j \in DOMAIN list : list[i].step = list[j].step => i = j
      BY <1>1, <1>5 DEF PlanInv
    <2> QED
      BY <1>6, <2>2, <2>3 DEF PlanInv
  <1>9. RanInv(r)'
    <2>1. ASSUME NEW i \in DOMAIN list
          PROVE  /\ i < at[r] => list[i].status = "done" /\ ran[r][list[i].step] = 1
                 /\ i > at[r] => list[i].status = "pending"
                 /\ ran[r][list[i].step] <= 1
                 /\ list[i].status = "pending" => ran[r][list[i].step] = 0
                 /\ list[i].status = "done" => ran[r][list[i].step] = 1
      <3>1. CASE i = at[r]
        BY <1>1, <1>5, <3>1 DEF RanInv, Count, Step
      <3>2. CASE i # at[r]
        BY <1>1, <1>5, <3>2 DEF RanInv
      <3> QED
        BY <3>1, <3>2
    <2>2. \A s \in StepId : ran[r][s] > 0 =>
            \E i \in DOMAIN list : i <= at[r] /\ list[i].step = s
      BY <1>1, <1>5 DEF RanInv
    <2> QED
      BY <1>6, <2>1, <2>2 DEF RanInv
  <1> QED
    BY <1>6, <1>7, <1>8, <1>9

LEMMA StartTodoStep ==
  ASSUME Inv, NEW r \in Run, StartTodo(r)
  PROVE  Inv'
  <1> USE DEF StartTodo, Goto, Save
  <1>1. /\ RunInv(r) /\ at[r] \in DOMAIN todo[r] /\ StatusAt(r) = "pending" /\ wire[r] # "request"
        /\ answer[r] = Nil /\ r \notin recorded \cup remembered
    BY DEF Inv, RunInv, AtInv, KeptInv, Working, Late
  <1>2. Count(r) = 0
    BY <1>1 DEF RunInv, RanInv, StatusAt, Count, Step
  <1>3. /\ todo' \in [Run -> Seq(Todo)]
        /\ \A q \in Run \ {r} : todo'[q] = todo[q]
        /\ at'[r] \in DOMAIN todo'[r] /\ StatusAt(r)' = "active" /\ Count(r)' = Count(r)
        /\ PlanInv(r)' /\ RanInv(r)'
    BY <1>1, SetTodoKeeps DEF effectVars
  <1>4. RunsAreTyped' /\ \A q \in Run \ {r} : Untouched(q)
    BY <1>3 DEF Inv, RunsAreTyped, Untouched, effectVars, registryVars
  <1>5. pc'[r] = "act" /\ saved'[r].todo = todo'[r]
    BY DEF Inv, RunsAreTyped
  <1>6. AtInv(r)' /\ KeptInv(r)'
    BY <1>1, <1>2, <1>3, <1>5 DEF AtInv, KeptInv, Early, Working, Late, effectVars
  <1> QED
    BY <1>3, <1>4, <1>6, OneRun DEF RunInv

LEMMA SummariseStep ==
  ASSUME Inv, NEW r \in Run, Summarise(r)
  PROVE  Inv'
  <1> USE DEF Summarise, Goto, Save
  <1>1. /\ RunInv(r) /\ at[r] \in DOMAIN todo[r] /\ StatusAt(r) = "active"
        /\ result[r] \in Ok => Count(r) = 1
        /\ answer[r] = Nil /\ r \notin recorded \cup remembered
    BY DEF Inv, RunInv, AtInv, KeptInv, Working, Late
  <1>2. PICK st \in {"done", "blocked"} : SetTodo(r, st) /\ (st = "done" <=> result[r] \in Ok)
    BY DEF Summarise
  <1>3. /\ todo' \in [Run -> Seq(Todo)]
        /\ \A q \in Run \ {r} : todo'[q] = todo[q]
        /\ at'[r] \in DOMAIN todo'[r] /\ StatusAt(r)' = st /\ Count(r)' = Count(r)
        /\ PlanInv(r)' /\ RanInv(r)'
    BY <1>1, <1>2, SetTodoKeeps DEF effectVars
  <1>4. RunsAreTyped' /\ \A q \in Run \ {r} : Untouched(q)
    BY <1>3 DEF Inv, RunsAreTyped, Untouched, effectVars, registryVars
  <1>5. pc'[r] = "summarised" /\ saved'[r].todo = todo'[r]
    BY DEF Inv, RunsAreTyped
  <1>6. AtInv(r)' /\ KeptInv(r)'
    <2>1. AtInv(r)'
      BY <1>1, <1>2, <1>3, <1>5 DEF RunInv, AtInv, Early, Working, Late, effectVars
    <2>2. KeptInv(r)'
      BY <1>1, <1>5 DEF KeptInv, effectVars
    <2> QED
      BY <2>1, <2>2
  <1> QED
    BY <1>3, <1>4, <1>6, OneRun DEF RunInv

\* The steps of a todo that run no tool and leave its status.
LEMMA WaitingSteps ==
  ASSUME Inv, NEW r \in Run,
         NotCalled(r) \/ Send(r) \/ Receive(r) \/ CallTimesOut(r) \/ Check(r)
  PROVE  Inv'
  <1> USE DEF Goto, Save, Comes
  <1>1. /\ RunsAreTyped' /\ \A q \in Run \ {r} : Untouched(q)
        /\ PlanStays(r) /\ answer' = answer /\ recorded' = recorded /\ remembered' = remembered
        /\ saved'[r] = saved[r] \/ saved'[r].todo = todo[r]
    <2> USE DEF Inv, RunsAreTyped, Untouched, PlanStays, planVars, effectVars, registryVars
    <2>1. CASE NotCalled(r)
      BY <2>1 DEF NotCalled
    <2>2. CASE Send(r)
      BY <2>2 DEF Send
    <2>3. CASE Receive(r)
      BY <2>3 DEF Receive
    <2>4. CASE CallTimesOut(r)
      BY <2>4 DEF CallTimesOut
    <2>5. CASE Check(r)
      BY <2>5 DEF Check
    <2> QED
      BY <2>1, <2>2, <2>3, <2>4, <2>5
  <1>2. /\ RunInv(r) /\ at[r] \in DOMAIN todo[r] /\ pc[r] \in Working
        /\ answer[r] = Nil /\ r \notin recorded \cup remembered
    BY DEF Inv, RunInv, AtInv, KeptInv, Working, Late, NotCalled, Send, Receive, CallTimesOut, Check
  <1>3. StatusAt(r)' = StatusAt(r) /\ Count(r)' = Count(r) /\ at'[r] \in DOMAIN todo'[r]
    BY <1>1, <1>2, PlanStaysKeeps DEF PlanStays
  <1>4. AtInv(r)'
    <2> USE <1>2, <1>3 DEF RunInv, AtInv, Early, Working, Late
    <2>1. CASE NotCalled(r)
      <3>1. pc'[r] = "result" /\ result'[r] \notin Ok /\ wire'[r] = wire[r]
        BY <2>1 DEF NotCalled, effectVars, Ok, Inv, RunsAreTyped
      <3> QED
        BY <2>1, <3>1 DEF NotCalled
    <2>2. CASE Send(r)
      <3>1. \/ pc'[r] = "result" /\ result'[r] \notin Ok /\ wire'[r] = wire[r]
            \/ pc'[r] = "sent" /\ wire'[r] = "request"
        BY <2>2 DEF Send, Ok, Inv, RunsAreTyped
      <3> QED
        BY <2>2, <3>1 DEF Send, Ok
    <2>3. CASE Receive(r)
      <3>1. /\ pc'[r] = "result" /\ wire'[r] = wire[r]
            /\ result'[r] \in Ok => wire[r] \in Ok
        BY <2>3 DEF Receive, effectVars, Ok, Inv, RunsAreTyped
      <3> QED
        BY <2>3, <3>1 DEF Receive
    <2>4. CASE CallTimesOut(r)
      <3>1. pc'[r] = "result" /\ result'[r] \notin Ok /\ wire'[r] = wire[r]
        BY <2>4 DEF CallTimesOut, effectVars, Ok, Inv, RunsAreTyped
      <3> QED
        BY <2>4, <3>1 DEF CallTimesOut
    <2>5. CASE Check(r)
      <3>1. pc'[r] = "checked" /\ result' = result /\ wire'[r] = wire[r]
        BY <2>5 DEF Check, effectVars, Inv, RunsAreTyped
      <3> QED
        BY <2>5, <3>1 DEF Check
    <2> QED
      BY <2>1, <2>2, <2>3, <2>4, <2>5
  <1>5. RunInv(r)'
    <2>1. PlanInv(r)' /\ RanInv(r)'
      BY <1>1, <1>2, PlanStaysKeeps
    <2>2. KeptInv(r)'
      BY <1>1, <1>2 DEF RunInv, KeptInv, PlanStays
    <2> QED
      BY <1>4, <2>1, <2>2 DEF RunInv
  <1> QED
    BY <1>1, <1>5, OneRun

\* The tool of the todo a run is at runs, which it had not done yet.
LEMMA ToolRunsKeeps ==
  ASSUME Inv, NEW r \in Run, at[r] \in DOMAIN todo[r], Count(r) = 0, StatusAt(r) # "pending",
         ToolRuns(r), UNCHANGED <<def, todo, at>>
  PROVE  /\ ran' \in [Run -> [StepId -> Nat]]
         /\ \A q \in Run \ {r} : ran'[q] = ran[q]
         /\ at'[r] \in DOMAIN todo'[r] /\ StatusAt(r)' = StatusAt(r) /\ Count(r)' = 1
         /\ PlanInv(r)' /\ RanInv(r)'
  <1>1. /\ todo[r] \in Seq(Todo) /\ at[r] \in Nat /\ PlanInv(r) /\ RanInv(r)
        /\ ran \in [Run -> [StepId -> Nat]]
    BY DEF Inv, RunsAreTyped, RunInv
  <1>2. Step(r) \in StepId /\ \A i \in DOMAIN todo[r] : todo[r][i].step \in StepId
    <2>1. \A i \in DOMAIN todo[r] : todo[r][i] \in Todo
      BY <1>1
    <2> QED
      BY <2>1 DEF Step, Todo
  <1>3. /\ ran' \in [Run -> [StepId -> Nat]]
        /\ \A q \in Run \ {r} : ran'[q] = ran[q]
        /\ ran'[r][Step(r)] = 1
        /\ \A s \in StepId \ {Step(r)} : ran'[r][s] = ran[r][s]
    BY <1>1, <1>2 DEF ToolRuns, Count
  <1>4. StatusAt(r)' = StatusAt(r) /\ Count(r)' = 1
    BY <1>3 DEF StatusAt, Count, Step
  <1>5. PlanInv(r)'
    BY <1>1, PlanKeeps
  <1>6. \A i \in DOMAIN todo[r] : i # at[r] => todo[r][i].step # Step(r)
    BY <1>1 DEF PlanInv, Step
  <1>7. StatusAt(r) # "done"
    BY <1>1 DEF RanInv, StatusAt, Count, Step
  <1>8. RanInv(r)'
    <2>1. ASSUME NEW i \in DOMAIN todo[r]
          PROVE  /\ i < at[r] => todo[r][i].status = "done" /\ ran'[r][todo[r][i].step] = 1
                 /\ i > at[r] => todo[r][i].status = "pending"
                 /\ ran'[r][todo[r][i].step] <= 1
                 /\ todo[r][i].status = "pending" => ran'[r][todo[r][i].step] = 0
                 /\ todo[r][i].status = "done" => ran'[r][todo[r][i].step] = 1
      <3>1. CASE i = at[r]
        BY <1>1, <1>3, <1>7, <3>1 DEF StatusAt, Step
      <3>2. CASE i # at[r]
        BY <1>1, <1>2, <1>3, <1>6, <3>2 DEF RanInv
      <3> QED
        BY <3>1, <3>2
    <2>2. ASSUME NEW s \in StepId, ran'[r][s] > 0
          PROVE  \E i \in DOMAIN todo[r] : i <= at[r] /\ todo[r][i].step = s
      <3>1. CASE s = Step(r)
        BY <1>1, <3>1 DEF Step
      <3>2. CASE s # Step(r)
        BY <1>1, <1>3, <2>2, <3>2 DEF RanInv
      <3> QED
        BY <3>1, <3>2
    <2> QED
      BY <2>1, <2>2 DEF RanInv
  <1> QED
    BY <1>3, <1>4, <1>5, <1>8

LEMMA CallDirectStep ==
  ASSUME Inv, NEW r \in Run, CallDirect(r)
  PROVE  Inv'
  <1> USE DEF CallDirect, Goto, Comes, planVars
  <1>1. /\ RunInv(r) /\ at[r] \in DOMAIN todo[r] /\ StatusAt(r) = "active" /\ Count(r) = 0
        /\ wire[r] # "request" /\ answer[r] = Nil /\ r \notin recorded \cup remembered
    BY DEF Inv, RunInv, AtInv, KeptInv, Working, Late
  <1>2. /\ ran' \in [Run -> [StepId -> Nat]]
        /\ \A q \in Run \ {r} : ran'[q] = ran[q]
        /\ at'[r] \in DOMAIN todo'[r] /\ StatusAt(r)' = StatusAt(r) /\ Count(r)' = 1
        /\ PlanInv(r)' /\ RanInv(r)'
    BY <1>1, ToolRunsKeeps
  <1>3. RunsAreTyped' /\ \A q \in Run \ {r} : Untouched(q)
    BY <1>2 DEF Inv, RunsAreTyped, Untouched, registryVars
  <1>4. pc'[r] = "result"
    BY DEF Inv, RunsAreTyped
  <1>5. AtInv(r)' /\ KeptInv(r)'
    BY <1>1, <1>2, <1>4 DEF RunInv, AtInv, KeptInv, Early, Working, Late
  <1> QED
    BY <1>2, <1>3, <1>5, OneRun DEF RunInv

\* A request is served, whoever still waits for it.
LEMMA ServeStep ==
  ASSUME Inv, NEW r \in Run, Serve(r)
  PROVE  Inv'
  <1> USE DEF Serve, planVars
  <1>1. /\ RunInv(r) /\ at[r] \in DOMAIN todo[r] /\ StatusAt(r) # "pending" /\ Count(r) = 0
        /\ pc[r] \in {"sent", "result", "summarised", "checked", "over", "dead"}
    BY DEF Inv, RunInv, AtInv
  <1>2. /\ ran' \in [Run -> [StepId -> Nat]]
        /\ \A q \in Run \ {r} : ran'[q] = ran[q]
        /\ at'[r] \in DOMAIN todo'[r] /\ StatusAt(r)' = StatusAt(r) /\ Count(r)' = 1
        /\ PlanInv(r)' /\ RanInv(r)'
    BY <1>1, ToolRunsKeeps
  <1>3. RunsAreTyped' /\ (\A q \in Run \ {r} : Untouched(q)) /\ wire'[r] # "request"
    BY <1>2 DEF Inv, RunsAreTyped, Untouched, registryVars
  <1>4. AtInv(r)'
    BY <1>1, <1>2, <1>3 DEF RunInv, AtInv, Early, Working, Late
  <1>5. KeptInv(r)'
    BY <1>1 DEF RunInv, KeptInv, Worked
  <1> QED
    BY <1>2, <1>3, <1>4, <1>5, OneRun DEF RunInv

LEMMA HaltStep ==
  ASSUME Inv, NEW r \in Run, Halt(r)
  PROVE  Inv'
  <1> USE DEF Halt, Goto, Save, Return, planVars, effectVars
  <1>1. RunsAreTyped' /\ (\A q \in Run \ {r} : Untouched(q)) /\ PlanStays(r)
    BY DEF Inv, RunsAreTyped, Untouched, PlanStays, registryVars
  <1>2. RunInv(r) /\ at[r] \in DOMAIN todo[r] /\ r \notin recorded \cup remembered
    BY DEF Inv, RunInv, AtInv, KeptInv, Working, Late
  <1>3. /\ pc'[r] = "over" /\ saved'[r].todo = todo[r]
        /\ answer'[r].status \in {"POLICY_BLOCK", "ERROR"}
    BY DEF Inv, RunsAreTyped
  <1>4. AtInv(r)'
    BY <1>1, <1>2, <1>3, PlanStaysKeeps DEF RunInv, AtInv, PlanStays, Early, Working, Late
  <1>5. RunInv(r)'
    BY <1>1, <1>2, <1>3, <1>4, MovesOn
  <1> QED
    BY <1>1, <1>5, OneRun

LEMMA NextTodoStep ==
  ASSUME Inv, NEW r \in Run, NextTodo(r)
  PROVE  Inv'
  <1> USE DEF NextTodo, Goto
  <1>1. /\ RunInv(r) /\ at[r] \in DOMAIN todo[r] /\ StatusAt(r) = "done" /\ Count(r) = 1
        /\ answer[r] = Nil /\ r \notin recorded \cup remembered
    <2>1. /\ RunInv(r) /\ at[r] \in DOMAIN todo[r] /\ StatusAt(r) = "done"
      BY DEF Inv, RunInv, AtInv, Working
    <2>2. Count(r) = 1
      BY <2>1 DEF RunInv, RanInv, StatusAt, Count, Step
    <2> QED
      BY <2>1, <2>2 DEF RunInv, KeptInv, Late
  <1>2. wire[r] # "request"
    BY <1>1 DEF RunInv, AtInv
  <1>3. todo[r] \in Seq(Todo) /\ at[r] \in Nat /\ DOMAIN todo[r] = 1..Len(todo[r]) /\ Len(todo[r]) \in Nat
    BY DEF Inv, RunsAreTyped
  <1>4. /\ RunsAreTyped' /\ (\A q \in Run \ {r} : Untouched(q)) /\ at'[r] = at[r] + 1
    BY DEF Inv, RunsAreTyped, Untouched, registryVars, effectVars
  <1>5. PlanInv(r)'
    BY <1>1, PlanKeeps DEF RunInv
  <1>6. RanInv(r)'
    <2>1. ASSUME NEW i \in DOMAIN todo[r]
          PROVE  /\ i < at[r] + 1 => todo[r][i].status = "done" /\ ran[r][todo[r][i].step] = 1
                 /\ i > at[r] + 1 => todo[r][i].status = "pending"
      BY <1>1, <1>3 DEF RunInv, RanInv, StatusAt, Count, Step
    <2>2. ASSUME NEW s \in StepId, ran[r][s] > 0
          PROVE  \E i \in DOMAIN todo[r] : i <= at[r] + 1 /\ todo[r][i].step = s
      <3>1. PICK i \in DOMAIN todo[r] : i <= at[r] /\ todo[r][i].step = s
        BY <1>1, <2>2 DEF RunInv, RanInv
      <3> QED
        BY <1>3, <3>1
    <2> QED
      BY <1>1, <1>4, <2>1, <2>2 DEF RunInv, RanInv, effectVars
  <1>7. AtInv(r)'
    <2>1. CASE StepAt(r).tool = Handoff \/ at[r] = Len(todo[r])
      <3>1. pc'[r] = "snapshot"
        BY <2>1 DEF Inv, RunsAreTyped
      <3>2. Worked(r)'
        <4>1. ASSUME NEW i \in DOMAIN todo[r]
              PROVE  \/ todo[r][i].status = "done"
                     \/ \E j \in 1..i - 1 : StepOf(def[r], todo[r][j].step).tool = Handoff
          <5>1. CASE i <= at[r]
            BY <1>1, <1>3, <5>1 DEF RunInv, RanInv, StatusAt
          <5>2. CASE i > at[r]
            BY <1>1, <1>3, <2>1, <5>2 DEF StepAt, Step
          <5> QED
            BY <1>3, <5>1, <5>2
        <4> QED
          BY <4>1 DEF Worked
      <3> QED
        BY <1>2, <3>1, <3>2 DEF AtInv, Early, Working, Late, effectVars
    <2>2. CASE ~(StepAt(r).tool = Handoff \/ at[r] = Len(todo[r]))
      <3>1. pc'[r] = "next"
        BY <2>2 DEF Inv, RunsAreTyped
      <3>2. at[r] + 1 \in DOMAIN todo[r]
        BY <1>1, <1>3, <2>2
      <3>3. StatusAt(r)' = "pending"
        BY <1>1, <1>3, <1>4, <3>2 DEF RunInv, RanInv, StatusAt
      <3> QED
        BY <1>2, <1>4, <3>1, <3>2, <3>3 DEF AtInv, Early, Working, Late, effectVars
    <2> QED
      BY <2>1, <2>2
  <1>8. KeptInv(r)'
    BY <1>1 DEF RunInv, KeptInv, effectVars
  <1> QED
    BY <1>4, <1>5, <1>6, <1>7, <1>8, OneRun DEF RunInv

-----------------------------------------------------------------------------
(* The end of a run, and what goes wrong. *)

LEMMA LateSteps ==
  ASSUME Inv, NEW r \in Run, Snapshot(r) \/ Remember(r) \/ Report(r) \/ Finish(r)
  PROVE  Inv'
  <1> USE DEF Goto, Save, Return, planVars, effectVars
  <1>1. /\ RunsAreTyped' /\ (\A q \in Run \ {r} : Untouched(q)) /\ PlanStays(r)
        /\ wire' = wire
    <2> USE DEF Inv, RunsAreTyped, Untouched, PlanStays, registryVars
    <2>1. CASE Snapshot(r)
      BY <2>1 DEF Snapshot
    <2>2. CASE Remember(r)
      BY <2>2 DEF Remember
    <2>3. CASE Report(r)
      BY <2>3 DEF Report
    <2>4. CASE Finish(r)
      BY <2>4 DEF Finish
    <2> QED
      BY <2>1, <2>2, <2>3, <2>4
  <1>2. pc[r] \in Late /\ RunInv(r) /\ Worked(r) /\ wire[r] # "request" /\ answer[r] = Nil
    BY DEF Snapshot, Remember, Report, Finish, Inv, RunInv, AtInv, KeptInv, Late
  <1>3. /\ pc'[r] \in Late \cup {"over"}
        /\ saved'[r] = saved[r] \/ saved'[r].todo = todo[r]
        /\ \/ answer'[r] = Nil
           \/ pc'[r] = "over" /\ saved'[r] = [phase |-> "FINAL", todo |-> todo[r]]
    BY <1>2 DEF Snapshot, Remember, Report, Finish, Late, Inv, RunsAreTyped
  <1>4. AtInv(r)'
    BY <1>1, <1>2, <1>3, PlanStaysKeeps DEF AtInv, Early, Working, Late
  <1>5. RunInv(r)'
    BY <1>1, <1>2, <1>3, <1>4, MovesOn
  <1> QED
    BY <1>1, <1>5, OneRun

LEMMA FaultSteps ==
  ASSUME Inv, NEW r \in Run, StepRaises(r) \/ CallerDies(r)
  PROVE  Inv'
  <1> USE DEF Goto, Raise, Return, planVars, effectVars
  <1>1. /\ RunsAreTyped' /\ (\A q \in Run \ {r} : Untouched(q)) /\ PlanStays(r)
        /\ wire' = wire /\ recorded' = recorded /\ remembered' = remembered
    <2> USE DEF Inv, RunsAreTyped, Untouched, PlanStays
    <2>1. CASE StepRaises(r)
      BY <2>1 DEF StepRaises
    <2>2. CASE CallerDies(r)
      BY <2>2 DEF CallerDies
    <2> QED
      BY <2>1, <2>2
  <1>2. pc[r] \in (Early \ {"idle"}) \cup Working \cup Late /\ RunInv(r) /\ answer[r] = Nil
    BY DEF StepRaises, CallerDies, Midway, Inv, RunInv, KeptInv, Early, Late, Working
  <1>3. /\ pc'[r] \in {"over", "dead"}
        /\ saved'[r] = saved[r] \/ saved'[r] = Nil
        /\ \/ answer'[r] = Nil
           \/ pc'[r] = "over" /\ answer'[r].status = "ERROR"
    <2>1. CASE StepRaises(r)
      BY <2>1 DEF StepRaises, Inv, RunsAreTyped
    <2>2. CASE CallerDies(r)
      BY <1>2, <2>2 DEF CallerDies, Inv, RunsAreTyped
    <2> QED
      BY <2>1, <2>2
  <1>4. AtInv(r)'
    <2>1. wire[r] = "request" =>
            at'[r] \in DOMAIN todo'[r] /\ StatusAt(r)' # "pending" /\ Count(r)' = 0
      BY <1>1, <1>2, PlanStaysKeeps DEF RunInv, AtInv, PlanStays
    <2> QED
      BY <1>1, <1>3, <2>1 DEF AtInv, Early, Working, Late
  <1>5. RunInv(r)'
    BY <1>1, <1>2, <1>3, <1>4, MovesOn
  <1> QED
    BY <1>1, <1>5, OneRun

\* The daemon dies with its run and its requests.
LEMMA DaemonDiesStep ==
  ASSUME Inv, DaemonDies
  PROVE  Inv'
  <1> USE DEF DaemonDies, planVars
  <1>1. RunsAreTyped'
    BY DEF Inv, RunsAreTyped
  <1>2. ASSUME NEW r \in Run PROVE RunInv(r)'
    <2>1. /\ \/ pc'[r] = pc[r]
             \/ pc'[r] = "dead" /\ pc[r] # "over"
          /\ \/ wire'[r] = "closed" /\ wire[r] = "request"
             \/ wire'[r] = wire[r] /\ wire[r] # "request"
          /\ PlanStays(r) /\ RunInv(r)
      BY DEF Inv, PlanStays
    <2>2. /\ StatusAt(r)' = StatusAt(r) /\ Count(r)' = Count(r)
          /\ Worked(r) => Worked(r)'
      BY <2>1, PlanStaysKeeps
    <2>3. AtInv(r)'
      BY <2>1, <2>2 DEF RunInv, AtInv, PlanStays, Early, Working, Late, Ok
    <2>4. KeptInv(r)'
      BY <2>1, <2>2 DEF RunInv, KeptInv, PlanStays
    <2> QED
      BY <2>1, <2>3, <2>4, PlanStaysKeeps DEF RunInv
  <1> QED
    BY <1>1, <1>2 DEF Inv

\* Starts of the daemon and edits of the files and rows touch no run.
LEMMA RegistriesStep ==
  ASSUME Inv,
         \/ RegistriesNext /\ UNCHANGED <<pc, callVars, planVars, result, artifacts, saved, answer,
                                          effectVars>>
         \/ UNCHANGED vars
  PROVE  Inv'
  <1>1. UNCHANGED <<pc, planVars, result, saved, answer, effectVars>>
    BY DEF vars
  <1>2. template' \in [Pipeline -> Definition \cup {Missing, Malformed}]
    BY RegistriesConstantsOK DEF Inv, RunsAreTyped, RegistriesNext, StartDaemon, ImportTemplate,
       ImportNextSkill, DaemonIsUp, EditTemplate, EditSkill, SetStatus, Upsert, Delete, vars,
       registryVars
  <1>3. RunsAreTyped'
    BY <1>1, <1>2 DEF Inv, RunsAreTyped, planVars, effectVars
  <1>4. \A q \in Run : Untouched(q)
    BY <1>1 DEF Untouched, planVars, effectVars
  <1> QED
    BY <1>3, <1>4, UntouchedKeeps DEF Inv

-----------------------------------------------------------------------------

LEMMA StepInv == Inv /\ [Next]_vars => Inv'
  <1> SUFFICES ASSUME Inv, [Next]_vars PROVE Inv'
    OBVIOUS
  <1>1. CASE \E r \in Run : RunStep(r)
    BY <1>1, EarlySteps, BuildStep, StartTodoStep, WaitingSteps, CallDirectStep, SummariseStep,
       HaltStep, NextTodoStep, LateSteps DEF RunStep
  <1>2. CASE \E r \in Run, surface \in Surface, p \in Pipeline \cup {PatchApply} :
               Begin(r, surface, p)
    BY <1>2, EarlySteps
  <1>3. CASE \E r \in Run : Serve(r) \/ StepRaises(r) \/ CallerDies(r)
    BY <1>3, ServeStep, FaultSteps
  <1>4. CASE DaemonDies
    BY <1>4, DaemonDiesStep
  <1>5. CASE \/ RegistriesNext /\ UNCHANGED <<pc, callVars, planVars, result, artifacts, saved,
                                              answer, effectVars>>
             \/ UNCHANGED vars
    BY <1>5, RegistriesStep
  <1> QED
    BY <1>1, <1>2, <1>3, <1>4, <1>5 DEF Next

\* The state file never understates what a run has done, whatever dies between
\* a save and a call, and whichever request is served too late
\* (runner.py: the save with status active before call_tool, the saves after).
THEOREM SavedTellsWhatRanAlways == Spec => []SavedTellsWhatRan
  <1>1. Inv => SavedTellsWhatRan
    <2> SUFFICES ASSUME Inv, NEW r \in Run, saved[r] # Nil, NEW i \in DOMAIN saved[r].todo
                 PROVE  LET t == saved[r].todo[i] IN
                          /\ ran[r][t.step] <= 1
                          /\ t.status = "pending" => ran[r][t.step] = 0
                          /\ t.status = "done" => ran[r][t.step] = 1
      BY DEF SavedTellsWhatRan
    <2>1. RunInv(r) /\ saved[r].todo = todo[r]
      BY DEF Inv, RunInv, KeptInv
    <2> QED
      BY <2>1 DEF RunInv, RanInv
  <1> QED
    BY <1>1, InitInv, StepInv, PTL DEF Spec

\* The tool of a step runs only after those of all steps it depends on, which
\* ran once and answered ok (the compiler's order, and the end of a run at its
\* first failure).
THEOREM DependenciesRanFirstAlways == Spec => []DependenciesRanFirst
  <1>1. Inv => DependenciesRanFirst
    <2> SUFFICES ASSUME Inv, NEW r \in Run, NEW s \in StepId, ran[r][s] > 0,
                        NEW d \in StepOf(def[r], s).deps
                 PROVE  \E i \in DOMAIN todo[r] :
                          todo[r][i] = [step |-> d, status |-> "done"] /\ ran[r][d] = 1
      BY DEF DependenciesRanFirst
    <2>1. todo[r] \in Seq(Todo) /\ at[r] \in Nat /\ RunInv(r)
      BY DEF Inv, RunsAreTyped
    <2>2. PICK i \in DOMAIN todo[r] : i <= at[r] /\ todo[r][i].step = s
      BY <2>1 DEF RunInv, RanInv
    <2>3. PICK j \in 1..i - 1 : todo[r][j].step = d
      BY <2>1, <2>2 DEF RunInv, PlanInv
    <2>4. j \in DOMAIN todo[r] /\ j < at[r]
      BY <2>1, <2>2
    <2>5. todo[r][j].status = "done" /\ ran[r][d] = 1 /\ todo[r][j] \in Todo
      BY <2>1, <2>3, <2>4 DEF RunInv, RanInv
    <2> QED
      BY <2>3, <2>4, <2>5 DEF Todo
  <1> QED
    BY <1>1, InitInv, StepInv, PTL DEF Spec

\* A snapshot or a memory row is left only by finished work, and COMPLETE is
\* answered only for finished work whose file says so
\* (_attach_round_one_artifacts and the handoff).
THEOREM OnlyWorkIsKeptAlways == Spec => []OnlyWorkIsKept
  <1>1. Inv => OnlyWorkIsKept
    BY DEF Inv, RunsAreTyped, RunInv, KeptInv, OnlyWorkIsKept
  <1> QED
    BY <1>1, InitInv, StepInv, PTL DEF Spec
-----------------------------------------------------------------------------
(***************************************************************************)
(* The types.  What a run answers is the result of its last call, so that  *)
(* at its label the result has to be there; and what it takes from the     *)
(* wire is an answer, because it only waits for a request it sent.         *)
(***************************************************************************)

ResultsAreThere ==
    \A r \in Run :
        /\ pc[r] \in {"result", "summarised", "checked"} => result[r] \in Result
        /\ pc[r] = "sent" => wire[r] # "none"

\* A set of numbers has a least one.
LEMMA LeastCount ==
  ASSUME NEW S, S \subseteq Nat, S # {}
  PROVE  \E n \in S : \A k \in S : n <= k
  <1>1. PICK n \in S : \A k \in S : ~(<<k, n>> \in OpToRel(<, Nat))
    BY NatLessThanWellFounded, WFMin
  <1>2. ASSUME NEW k \in S, k < n PROVE FALSE
    <2>1. <<k, n>> \in {ss \in Nat \X Nat : ss[1] < ss[2]}
      BY <1>2
    <2>2. <<k, n>> \in OpToRel(<, Nat)
      BY <2>1, Zenon DEF OpToRel
    <2> QED
      BY <1>1, <2>2
  <1>3. \A k \in S : n <= k
    BY <1>2
  <1> QED
    BY <1>3

\* Of finitely many skills with a score one comes first: scores and ranks
\* order them, and one with the fewest before it has none.
LEMMA FirstOfRanked ==
  ASSUME NEW ranked \in SUBSET Skill, ranked # {}
  PROVE  \E s \in ranked : \A t \in ranked \ {s} :
            \/ Score[s] > Score[t]
            \/ Score[s] = Score[t] /\ Precedence[s] < Precedence[t]
  <1> DEFINE Before(s, t) == \/ Score[s] > Score[t]
                             \/ Score[s] = Score[t] /\ Precedence[s] < Precedence[t]
             Ahead(s) == {t \in ranked : Before(t, s)}
             Counts == {Cardinality(Ahead(s)) : s \in ranked}
  <1>1. /\ \A s \in Skill : Score[s] \in Nat /\ Precedence[s] \in Nat
        /\ \A s, t \in Skill : s # t => Precedence[s] # Precedence[t]
        /\ IsFiniteSet(Skill)
    BY RegistriesConstantsOK
  <1>2. \A s \in ranked : IsFiniteSet(Ahead(s)) /\ Cardinality(Ahead(s)) \in Nat
    <2>1. ASSUME NEW s \in ranked PROVE IsFiniteSet(Ahead(s))
      BY <1>1, FS_Subset, Ahead(s) \in SUBSET Skill
    <2> QED
      BY <2>1, FS_CardinalityType
  <1>3. PICK s \in ranked : \A t \in ranked : Cardinality(Ahead(s)) <= Cardinality(Ahead(t))
    <2>1. Counts \subseteq Nat /\ Counts # {}
      BY <1>2
    <2>2. PICK n \in Counts : \A k \in Counts : n <= k
      BY <2>1, LeastCount
    <2>3. PICK s \in ranked : Cardinality(Ahead(s)) = n
      BY <2>2
    <2>4. \A t \in ranked : Cardinality(Ahead(t)) \in Counts
      OBVIOUS
    <2> HIDE DEF Counts, Ahead
    <2>5. \A t \in ranked : n <= Cardinality(Ahead(t))
      BY <2>2, <2>4
    <2> QED
      BY <2>3, <2>5
  <1>4. ASSUME NEW t \in Ahead(s) PROVE FALSE
    <2>1. Ahead(t) \subseteq Ahead(s) /\ t \notin Ahead(t)
      BY <1>1
    <2>2. Cardinality(Ahead(t)) <= Cardinality(Ahead(s)) /\ Ahead(t) # Ahead(s)
      BY <1>2, <2>1, FS_Subset
    <2>3. Cardinality(Ahead(t)) # Cardinality(Ahead(s))
      BY <1>2, <2>1, <2>2, FS_Subset
    <2>4. t \in ranked
      OBVIOUS
    <2> HIDE DEF Ahead
    <2>5. /\ Cardinality(Ahead(s)) \in Nat /\ Cardinality(Ahead(t)) \in Nat
          /\ Cardinality(Ahead(s)) <= Cardinality(Ahead(t))
      BY <1>2, <1>3, <2>4
    <2> QED
      BY <2>2, <2>3, <2>5
  <1>5. \A t \in ranked \ {s} : Before(s, t)
    BY <1>1, <1>4
  <1> QED
    BY <1>5

LEMMA SelectedIsSkill ==
  ASSUME NEW verified \in SUBSET Skill
  PROVE  SelectSkill(verified) \in Skill \cup {NoRow}
  <1> DEFINE ranked == {s \in verified : Score[s] > 0}
  <1>1. CASE ranked = {}
    BY <1>1 DEF SelectSkill
  <1>2. CASE ranked # {}
    <2>1. \E s \in ranked : \A t \in ranked \ {s} :
            \/ Score[s] > Score[t]
            \/ Score[s] = Score[t] /\ Precedence[s] < Precedence[t]
      BY <1>2, FirstOfRanked
    <2>2. SelectSkill(verified) = CHOOSE s \in ranked : \A t \in ranked \ {s} :
            \/ Score[s] > Score[t]
            \/ Score[s] = Score[t] /\ Precedence[s] < Precedence[t]
      BY <1>2 DEF SelectSkill
    <2> HIDE DEF ranked
    <2>3. SelectSkill(verified) \in ranked
      BY <2>1, <2>2
    <2> QED
      BY <2>3 DEF ranked
  <1> QED
    BY <1>1, <1>2

LEMMA ImportedIsTyped ==
  ASSUME RegistriesTypeOK
  PROVE  ImportAll \in [Skill -> {"verified", "quarantined"} \cup {NoRow}]
  BY DEF RegistriesTypeOK, ImportAll

LEMMA BoundTyped ==
  ASSUME RegistriesTypeOK, NEW b \in {"edits", "faults", "calls"}, Bound(b)
  PROVE  budget' \in [edits: Nat, faults: Nat, calls: Nat]
  <1>1. budget[b] \in Nat /\ budget[b] > 0
    BY DEF RegistriesTypeOK, Bound
  <1> DEFINE less == budget[b] - 1
  <1>2. less \in Nat /\ budget' = [budget EXCEPT ![b] = less]
    BY <1>1 DEF Bound
  <1> HIDE DEF less
  <1> QED
    BY <1>2 DEF RegistriesTypeOK

\* Starts, imports and edits.
LEMMA RegistriesTyped ==
  ASSUME RegistriesTypeOK, RegistriesNext
  PROVE  RegistriesTypeOK'
  <1> USE RegistriesConstantsOK, PipelineConstantsOK DEF RegistriesTypeOK
  <1>1. CASE StartDaemon
    BY <1>1 DEF StartDaemon
  <1>2. CASE \E p \in Pipeline : ImportTemplate(p)
    <2>1. \A p \in Pipeline : TemplateManifest(p) \in Manifest
      BY DEF TemplateManifest, Manifest, Status, Tier
    <2> QED
      BY <1>2, <2>1 DEF ImportTemplate
  <1>3. CASE ImportNextSkill
    <2>1. SkillDirs[nextDir] \in Skill /\ nextDir + 1 \in 1..Len(SkillDirs) + 1
      BY <1>3 DEF ImportNextSkill
    <2>2. skill' \in [Skill -> {"verified", "quarantined"} \cup {NoRow}]
      BY <1>3, <2>1 DEF ImportNextSkill, ImportSkill
    <2> QED
      BY <1>3, <2>1, <2>2 DEF ImportNextSkill
  <1>4. CASE DaemonIsUp
    BY <1>4 DEF DaemonIsUp
  <1>5. CASE \E p \in Pipeline, file \in NewTemplates : EditTemplate(p, file)
    BY <1>5, BoundTyped DEF EditTemplate
  <1>6. CASE \E d \in Skill, file \in NewSkillFiles : EditSkill(d, file)
    BY <1>6, BoundTyped DEF EditSkill
  <1>7. CASE \E p \in Pipeline, status \in Status : SetStatus(p, status)
    <2>1. PICK p \in Pipeline, status \in Status : SetStatus(p, status)
      BY <1>7
    <2>2. cap[p] \in Manifest
      BY <2>1 DEF SetStatus
    <2>3. [cap[p] EXCEPT !.status = status] \in Manifest
      BY <2>2 DEF Manifest
    <2>4. cap' \in [Pipeline -> Manifest \cup {NoRow}]
      BY <2>1, <2>3 DEF SetStatus
    <2> QED
      BY <2>1, <2>4, BoundTyped DEF SetStatus
  <1>8. CASE \E p \in Pipeline, manifest \in NewManifests : Upsert(p, manifest)
    BY <1>8, BoundTyped DEF Upsert
  <1>9. CASE \E p \in Pipeline : Delete(p)
    BY <1>9, BoundTyped DEF Delete
  <1> QED
    BY <1>1, <1>2, <1>3, <1>4, <1>5, <1>6, <1>7, <1>8, <1>9 DEF RegistriesNext

\* A saved state and an answer of their types.
LEMMA SaveTyped ==
  ASSUME TypeOK, NEW r \in Run, NEW phase \in Phase, NEW todos \in Seq(Todo), Save(r, phase, todos)
  PROVE  saved' \in [Run -> [phase: Phase, todo: Seq(Todo)] \cup {Nil}]
  BY DEF Save, TypeOK

LEMMA ReturnTyped ==
  ASSUME TypeOK, NEW r \in Run, NEW status \in {"COMPLETE", "ERROR", "POLICY_BLOCK"},
         NEW code \in AnswerCode, NEW path \in BOOLEAN, Return(r, status, code, path)
  PROVE  answer' \in [Run -> Answers \cup {Nil}]
  BY DEF Return, Answers, TypeOK

\* What a step of a run has to show.
RestTyped ==
    /\ RegistriesTypeOK
    /\ pc \in [Run -> {"idle", "skills", "patch", "policy", "build", "next", "act",
                       "sent", "result", "summarised", "checked", "snapshot",
                       "memory", "report", "synthesized", "over", "dead"}]
    /\ via \in [Run -> Surface \cup {Nil}]
    /\ pipeline \in [Run -> Pipeline \cup {PatchApply, Nil}]
    /\ selected \in [Run -> Skill \cup {NoRow}]
    /\ def \in [Run -> Definition \cup {Nil}]
    /\ result \in [Run -> Result \cup {Nil}]
    /\ artifacts \in [Run -> SUBSET StepId]
    /\ saved \in [Run -> [phase: Phase, todo: Seq(Todo)] \cup {Nil}]
    /\ answer \in [Run -> Answers \cup {Nil}]
    /\ wire \in [Run -> Result \cup Asked]

LEMMA TypesFit == Inv => (TypeOK <=> RestTyped)
  BY DEF Inv, RunsAreTyped, TypeOK, RestTyped

\* What holds of the types in the states of a behaviour.
Typed == Inv /\ TypeOK /\ ResultsAreThere

\* The answers and results a run may come to are of their types.
LEMMA CodesAreKnown ==
  /\ {"tool_not_allowed", "binding_resolution_failed", "tool_failed", "tool_execution_failed",
      "bridge_call_failed", "artifact", "no_artifact"} = Result
  /\ Result \ Ok \subseteq AnswerCode
  /\ {"none", "invalid_input", "patch_apply_request", "capability_policy_block",
      "plan_too_long", "workflow_runner_failed"} \subseteq AnswerCode
  /\ {"none", "request", "closed"} = Asked
  BY DEF Result, Ok, BlockCode, ErrorCode, AnswerCode, Asked

LEMMA EarlyTyped ==
  ASSUME Typed, NEW r \in Run,
         \/ \E surface \in Surface, p \in Pipeline \cup {PatchApply} : Begin(r, surface, p)
         \/ RefuseInput(r) \/ LoadSkills(r) \/ ApplyPatch(r) \/ CheckPolicy(r)
  PROVE  RestTyped' /\ ResultsAreThere'
  <1> USE DEF Typed, TypeOK, RestTyped, ResultsAreThere, Goto, planVars, effectVars
  <1>1. CASE \E surface \in Surface, p \in Pipeline \cup {PatchApply} : Begin(r, surface, p)
    <2>1. PICK surface \in Surface, p \in Pipeline \cup {PatchApply} : Begin(r, surface, p)
      BY <1>1
    <2>2. RegistriesTypeOK'
      BY <2>1, BoundTyped DEF Begin, RegistriesTypeOK
    <2> QED
      BY <2>1, <2>2 DEF Begin
  <1>2. CASE RefuseInput(r)
    <2>1. answer' \in [Run -> Answers \cup {Nil}]
      BY <1>2, CodesAreKnown, ReturnTyped DEF RefuseInput
    <2>2. RegistriesTypeOK'
      BY <1>2 DEF RefuseInput, registryVars, RegistriesTypeOK
    <2> QED
      BY <1>2, <2>1, <2>2 DEF RefuseInput, Return, callVars
  <1>3. CASE LoadSkills(r)
    <2>1. ImportAll \in [Skill -> {"verified", "quarantined"} \cup {NoRow}]
      BY ImportedIsTyped
    <2>2. PICK rows \in [Skill -> {"verified", "quarantined"} \cup {NoRow}] :
            \/ skill' = rows /\ selected' = [selected EXCEPT ![r] = SelectSkill(Verified(rows))]
            \/ UNCHANGED <<skill, selected>>
      BY <1>3, <2>1 DEF LoadSkills, RegistriesTypeOK
    <2>3. SelectSkill(Verified(rows)) \in Skill \cup {NoRow}
      BY SelectedIsSkill DEF Verified
    <2>4. selected' \in [Run -> Skill \cup {NoRow}]
      BY <2>2, <2>3
    <2>5. RegistriesTypeOK'
      <3>1. skill' \in [Skill -> {"verified", "quarantined"} \cup {NoRow}]
        BY <2>2 DEF RegistriesTypeOK
      <3> QED
        BY <1>3, <3>1 DEF LoadSkills, RegistriesTypeOK
    <2> QED
      BY <1>3, <2>4, <2>5 DEF LoadSkills
  <1>4. CASE ApplyPatch(r)
    <2>1. RegistriesTypeOK'
      BY <1>4 DEF ApplyPatch, registryVars, RegistriesTypeOK
    <2>2. <<>> \in Seq(Todo) /\ "PATCH_APPLY" \in Phase /\ "FINAL" \in Phase
      BY DEF Phase
    <2>3. saved' \in [Run -> [phase: Phase, todo: Seq(Todo)] \cup {Nil}]
      BY <1>4, <2>2, SaveTyped DEF ApplyPatch
    <2>4. answer' \in [Run -> Answers \cup {Nil}]
      <3>1. PICK status \in {"COMPLETE", "ERROR", "POLICY_BLOCK"},
                 code \in {"patch_apply_request", "none", "workflow_runner_failed"},
                 path \in BOOLEAN :
              Return(r, status, code, path)
        BY <1>4 DEF ApplyPatch, Raise
      <3> QED
        BY <3>1, CodesAreKnown, ReturnTyped
    <2>5. pc' = [pc EXCEPT ![r] = "over"]
      BY <1>4 DEF ApplyPatch, Raise, Return
    <2> QED
      BY <1>4, <2>1, <2>3, <2>4, <2>5 DEF ApplyPatch, callVars
  <1>5. CASE CheckPolicy(r)
    <2>1. RegistriesTypeOK'
      BY <1>5 DEF CheckPolicy, registryVars, RegistriesTypeOK
    <2>2. <<>> \in Seq(Todo) /\ "FINAL" \in Phase
      BY DEF Phase
    <2>3. saved' \in [Run -> [phase: Phase, todo: Seq(Todo)] \cup {Nil}]
      BY <1>5, <2>2, SaveTyped DEF CheckPolicy
    <2>4. answer' \in [Run -> Answers \cup {Nil}]
      BY <1>5, CodesAreKnown, ReturnTyped DEF CheckPolicy
    <2>5. pc' = [pc EXCEPT ![r] = "over"] \/ pc' = [pc EXCEPT ![r] = "build"]
      BY <1>5 DEF CheckPolicy, Return
    <2> QED
      BY <1>5, <2>1, <2>3, <2>4, <2>5 DEF CheckPolicy, callVars
  <1> QED
    BY <1>1, <1>2, <1>3, <1>4, <1>5

LEMMA BuildTyped ==
  ASSUME Typed, Inv', NEW r \in Run, Build(r)
  PROVE  RestTyped' /\ ResultsAreThere'
  <1> USE DEF Typed, TypeOK, RestTyped, ResultsAreThere, Goto, effectVars
  <1>1. RegistriesTypeOK'
    BY DEF Build, registryVars, RegistriesTypeOK
  <1>2. <<>> \in Seq(Todo) /\ "FINAL" \in Phase /\ "PLAN" \in Phase /\ todo'[r] \in Seq(Todo)
    BY DEF Phase, Inv, RunsAreTyped
  <1>3. saved' \in [Run -> [phase: Phase, todo: Seq(Todo)] \cup {Nil}]
    BY <1>2, SaveTyped DEF Build
  <1>4. answer' \in [Run -> Answers \cup {Nil}]
    BY CodesAreKnown, ReturnTyped DEF Build, Raise
  <1>5. pc' = [pc EXCEPT ![r] = "over"] \/ pc' = [pc EXCEPT ![r] = "next"]
    BY DEF Build, Return, Raise
  <1>6. def' \in [Run -> Definition \cup {Nil}]
    <2>1. CASE ~Compiles(pipeline[r], template[pipeline[r]])
      BY <2>1 DEF Build, planVars
    <2>2. CASE Compiles(pipeline[r], template[pipeline[r]])
      <3>1. template[pipeline[r]] \in Definition
        BY <2>2, PipelineConstantsOK DEF Compiles, Loads, Inv, RunsAreTyped
      <3> QED
        BY <2>2, <3>1 DEF Build
    <2> QED
      BY <2>1, <2>2
  <1> QED
    BY <1>1, <1>3, <1>4, <1>5, <1>6 DEF Build, callVars

LEMMA CallsTyped ==
  ASSUME Typed, Inv', NEW r \in Run,
         \/ NotCalled(r) \/ CallDirect(r) \/ Send(r) \/ Receive(r) \/ CallTimesOut(r) \/ Serve(r)
  PROVE  RestTyped' /\ ResultsAreThere'
  <1> USE CodesAreKnown DEF Typed, TypeOK, RestTyped, ResultsAreThere, Goto, Comes, planVars, callVars
  <1>1. RegistriesTypeOK'
    BY DEF NotCalled, CallDirect, Send, Receive, CallTimesOut, Serve, registryVars, RegistriesTypeOK
  <1>2. CASE NotCalled(r)
    BY <1>1, <1>2 DEF NotCalled, effectVars
  <1>3. CASE CallDirect(r)
    BY <1>1, <1>3 DEF CallDirect
  <1>4. CASE Send(r)
    <2>1. CASE daemon = "up"
      BY <1>1, <1>4, <2>1 DEF Send
    <2>2. CASE daemon # "up"
      BY <1>1, <1>4, <2>2 DEF Send
    <2> QED
      BY <2>1, <2>2
  <1>5. CASE Receive(r)
    <2>1. wire[r] \in Result \cup {"closed"}
      BY <1>5 DEF Receive
    <2> QED
      BY <1>1, <1>5, <2>1 DEF Receive, effectVars
  <1>6. CASE CallTimesOut(r)
    BY <1>1, <1>6 DEF CallTimesOut, effectVars
  <1>7. CASE Serve(r)
    BY <1>1, <1>7 DEF Serve
  <1> QED
    BY <1>2, <1>3, <1>4, <1>5, <1>6, <1>7

LEMMA TodoTyped ==
  ASSUME Typed, Inv', NEW r \in Run,
         StartTodo(r) \/ Summarise(r) \/ Check(r) \/ Halt(r) \/ NextTodo(r)
  PROVE  RestTyped' /\ ResultsAreThere'
  <1> USE DEF Typed, TypeOK, RestTyped, ResultsAreThere, Goto, callVars, effectVars
  <1>1. RegistriesTypeOK'
    BY DEF StartTodo, Summarise, Check, Halt, NextTodo, registryVars, RegistriesTypeOK
  <1>2. /\ todo[r] \in Seq(Todo) /\ todo'[r] \in Seq(Todo)
        /\ {"ACT", "SUMMARISE_TOOL_RESULT", "CHECK", "FINAL"} \subseteq Phase
    BY DEF Phase, Inv, RunsAreTyped
  <1>3. saved' \in [Run -> [phase: Phase, todo: Seq(Todo)] \cup {Nil}]
    BY <1>2, SaveTyped DEF StartTodo, Summarise, Check, Halt, NextTodo
  <1>4. CASE StartTodo(r)
    BY <1>1, <1>3, <1>4 DEF StartTodo
  <1>5. CASE Summarise(r)
    <2>1. at[r] \in DOMAIN todo[r]
      BY <1>5 DEF Summarise, Inv, RunInv, AtInv, Working
    <2>2. todo[r][at[r]] \in Todo
      BY <1>2, <2>1
    <2>3. Step(r) \in StepId
      BY <2>2 DEF Step, Todo
    <2> QED
      BY <1>1, <1>3, <1>5, <2>3 DEF Summarise
  <1>6. CASE Check(r)
    BY <1>1, <1>3, <1>6 DEF Check, planVars
  <1>7. CASE Halt(r)
    <2>1. result[r] \in AnswerCode
      BY <1>7, CodesAreKnown DEF Halt
    <2>2. answer' \in [Run -> Answers \cup {Nil}]
      <3>1. PICK status \in {"ERROR", "POLICY_BLOCK"} : Return(r, status, result[r], TRUE)
        BY <1>7 DEF Halt
      <3> HIDE DEF TypeOK
      <3> QED
        BY <2>1, <3>1, ReturnTyped
    <2> QED
      BY <1>1, <1>3, <1>7, <2>2 DEF Halt, Return, planVars
  <1>8. CASE NextTodo(r)
    BY <1>1, <1>3, <1>8 DEF NextTodo
  <1> QED
    BY <1>4, <1>5, <1>6, <1>7, <1>8

LEMMA EndTyped ==
  ASSUME Typed, NEW r \in Run,
         \/ Snapshot(r) \/ Remember(r) \/ Report(r) \/ Finish(r)
         \/ StepRaises(r) \/ CallerDies(r)
  PROVE  RestTyped' /\ ResultsAreThere'
  <1> USE DEF Typed, TypeOK, RestTyped, ResultsAreThere, Goto, callVars, planVars, effectVars
  <1>1. RegistriesTypeOK'
    BY BoundTyped DEF Snapshot, Remember, Report, Finish, StepRaises, CallerDies, registryVars,
       RegistriesTypeOK
  <1>2. todo[r] \in Seq(Todo) /\ {"SYNTHESIZE", "FINAL"} \subseteq Phase
    BY DEF Phase
  <1>3. saved' \in [Run -> [phase: Phase, todo: Seq(Todo)] \cup {Nil}]
    BY <1>2, SaveTyped DEF Snapshot, Remember, Report, Finish, StepRaises, CallerDies
  <1>4. answer' \in [Run -> Answers \cup {Nil}]
    BY CodesAreKnown, ReturnTyped
    DEF Snapshot, Remember, Report, Finish, StepRaises, CallerDies, Raise
  <1>5. CASE Snapshot(r) \/ Remember(r) \/ Report(r)
    BY <1>1, <1>3, <1>4, <1>5 DEF Snapshot, Remember, Report
  <1>6. CASE Finish(r)
    BY <1>1, <1>3, <1>4, <1>6 DEF Finish, Return
  <1>7. CASE StepRaises(r)
    BY <1>1, <1>3, <1>4, <1>7 DEF StepRaises, Raise, Return
  <1>8. CASE CallerDies(r)
    BY <1>1, <1>3, <1>4, <1>8 DEF CallerDies
  <1> QED
    BY <1>5, <1>6, <1>7, <1>8

LEMMA OtherTyped ==
  ASSUME Typed,
         \/ DaemonDies
         \/ RegistriesNext /\ UNCHANGED <<pc, callVars, planVars, result, artifacts, saved, answer,
                                          effectVars>>
         \/ UNCHANGED vars
  PROVE  RestTyped' /\ ResultsAreThere'
  <1> USE DEF Typed, TypeOK, RestTyped, ResultsAreThere, callVars, planVars, effectVars
  <1>1. CASE DaemonDies
    <2>1. 1 \in 1..Len(SkillDirs) + 1
      BY RegistriesConstantsOK
    <2>2. RegistriesTypeOK'
      BY <1>1, <2>1, BoundTyped DEF DaemonDies, RegistriesTypeOK
    <2> QED
      BY <1>1, <2>2, CodesAreKnown DEF DaemonDies
  <1>2. CASE RegistriesNext /\ UNCHANGED <<pc, callVars, planVars, result, artifacts, saved,
                                           answer, effectVars>>
    BY <1>2, RegistriesTyped
  <1>3. CASE UNCHANGED vars
    BY <1>3 DEF vars, registryVars, RegistriesTypeOK
  <1> QED
    BY <1>1, <1>2, <1>3

LEMMA StepTyped == Typed /\ [Next]_vars => Typed'
  <1> SUFFICES ASSUME Typed, [Next]_vars PROVE Typed'
    OBVIOUS
  <1>1. Inv'
    BY StepInv DEF Typed
  <1>2. RestTyped' /\ ResultsAreThere'
    <2>1. CASE \E r \in Run : RunStep(r)
      BY <1>1, <2>1, EarlyTyped, BuildTyped, CallsTyped, TodoTyped, EndTyped DEF RunStep
    <2>2. CASE \E r \in Run, surface \in Surface, p \in Pipeline \cup {PatchApply} :
                 Begin(r, surface, p)
      BY <2>2, EarlyTyped
    <2>3. CASE \E r \in Run : Serve(r) \/ StepRaises(r) \/ CallerDies(r)
      BY <1>1, <2>3, CallsTyped, EndTyped
    <2>4. CASE \/ DaemonDies
               \/ RegistriesNext /\ UNCHANGED <<pc, callVars, planVars, result, artifacts, saved,
                                                answer, effectVars>>
               \/ UNCHANGED vars
      BY <2>4, OtherTyped
    <2> QED
      BY <2>1, <2>2, <2>3, <2>4 DEF Next
  <1>3. TypeOK'
    BY <1>1, <1>2, TypesFit, PTL
  <1> QED
    BY <1>1, <1>2, <1>3 DEF Typed

LEMMA InitTyped == Init => Typed
  <1> SUFFICES ASSUME Init PROVE Typed
    OBVIOUS
  <1>1. Inv
    BY InitInv
  <1>2. RegistriesTypeOK
    BY RegistriesConstantsOK DEF Init, RegistriesInit, RegistriesTypeOK
  <1>3. RestTyped /\ ResultsAreThere
    BY <1>2, CodesAreKnown DEF Init, RestTyped, ResultsAreThere
  <1> QED
    BY <1>1, <1>3, TypesFit DEF Typed

\* The files, the rows of both registries, and what a run keeps, saves, sends
\* and answers are of their types, however skills are imported and chosen.
THEOREM TypeCorrect == Spec => []TypeOK
  <1>1. Typed => TypeOK
    BY DEF Typed
  <1> QED
    BY <1>1, InitTyped, StepTyped, PTL DEF Spec

=============================================================================
