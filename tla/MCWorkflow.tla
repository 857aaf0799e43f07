----------------------------- MODULE MCWorkflow -----------------------------
(***************************************************************************)
(* Instances of Workflow for TLC: two runs, two active pipelines and one   *)
(* that is not, templates of every kind the compiler tells apart.          *)
(***************************************************************************)
EXTENDS Workflow

CONSTANTS investigation, codeReview, staging, start, filemap, handoff, analyze, scout,
          s1, s2, s3, s4, objective, unknown, triage, plan

Pipelines == {investigation, codeReview, staging}
ActivePipelines == {investigation, codeReview}
Tools == {start, filemap, handoff, analyze, scout}
Allowed == {start, filemap, handoff, analyze}
Direct == {start, filemap, handoff}
Variables == {objective, unknown}
Steps == {s1, s2, s3, s4}

StepRecord(id, tool, deps, binds, variables) ==
    [id |-> id, tool |-> tool, deps |-> deps, binds |-> binds, vars |-> variables]
Template(steps) == [steps |-> steps, maxSteps |-> 4, declared |-> {}]

First == StepRecord(s1, start, {}, {}, {objective})
Second == StepRecord(s2, filemap, {s1}, {s1}, {})
Chain == Template(<<First, Second>>)
\* The handoff and another step become ready in the same round.
Fork == Template(<<First, StepRecord(s3, handoff, {s1}, {}, {}), Second>>)
Review == Template(<<StepRecord(s1, analyze, {}, {}, {})>>)
Cycle == Template(<<StepRecord(s1, start, {s2}, {}, {}), Second>>)
Loose == Template(<<First, StepRecord(s2, filemap, {}, {s1}, {})>>)
Unresolved == Template(<<StepRecord(s1, start, {}, {}, {unknown})>>)
Foreign == Template(<<StepRecord(s1, scout, {}, {}, {})>>)
Twice == Template(<<First, First>>)
Long == Template(<<First, Second, StepRecord(s3, filemap, {s2}, {}, {}),
                   StepRecord(s4, filemap, {s3}, {}, {})>>)

Definitions == {Chain, Fork, Review, Cycle, Loose, Unresolved, Foreign, Twice, Long}

Skills == {triage, plan}
Scores == triage :> 5 @@ plan :> 5
Ranks == triage :> 1 @@ plan :> 2
Dirs == <<plan, triage>>
Files(inv) ==
    [template |-> investigation :> inv @@ codeReview :> Review @@ staging :> Chain,
     skillFile |-> triage :> [id |-> triage, valid |-> TRUE] @@ plan :> Missing]
FilesAtFirst == {Files(d) : d \in {Fork, Long}}
Written == {Chain, Malformed}
WrittenSkills == {[id |-> triage, valid |-> FALSE]}
Kept == {[status |-> "verified", tier |-> "T3", approval |-> FALSE, writes |-> FALSE]}

BudgetsOfRuns ==
    {[edits |-> 1, faults |-> 0, calls |-> 1], [edits |-> 0, faults |-> 1, calls |-> 1],
     [edits |-> 0, faults |-> 0, calls |-> 2]}

CONSTANTS r1, r2
\* The daemon of r2 keeps its loop from the requests of r1.
CallsOfRuns ==
    r1 :> Surface \X (Pipelines \cup {PatchApply}) @@ r2 :> {<<"daemon", codeReview>>}
=============================================================================
