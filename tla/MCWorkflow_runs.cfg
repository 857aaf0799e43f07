SPECIFICATION FairSpec
CONSTANTS
    Pipeline <- Pipelines
    Active <- ActivePipelines
    Tool <- Tools
    AllowedTools <- Allowed
    Variable <- Variables
    RuntimeVars = {objective}
    Missing = Missing
    Malformed = Malformed
    Definition <- Definitions
    Skill <- Skills
    Score <- Scores
    Precedence <- Ranks
    SkillDirs <- Dirs
    NoRow = NoRow
    FirstFiles <- FilesAtFirst
    NewTemplates <- Written
    NewSkillFiles <- WrittenSkills
    NewManifests <- Kept
    Budgets <- BudgetsOfRuns
    Run = {r1, r2}
    StepId <- Steps
    Investigation = investigation
    MaxSteps = 3
    DirectTools <- Direct
    Handoff = handoff
    PatchApply = PatchApply
    Nil = Nil
    Calls <- CallsOfRuns
    investigation = investigation
    codeReview = codeReview
    staging = staging
    start = start
    filemap = filemap
    handoff = handoff
    analyze = analyze
    scout = scout
    s1 = s1
    s2 = s2
    s3 = s3
    s4 = s4
    objective = objective
    unknown = unknown
    triage = triage
    plan = plan
    r1 = r1
    r2 = r2
CHECK_DEADLOCK FALSE
INVARIANT TypeOK SavedTellsWhatRan DependenciesRanFirst OnlyWorkIsKept
PROPERTY RunsAreAnswered
