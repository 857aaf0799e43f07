----------------------------- MODULE Registries -----------------------------
(***************************************************************************)
(* The registries of queue.db: capability_manifests, with a row for each   *)
(* pipeline template (capabilities/), and skill_manifests (skills/).  Both *)
(* are filled from files when a daemon starts, one commit per file; the    *)
(* files may be edited at any time, and the rows may be changed through    *)
(* the methods of CapabilityRegistry, which only tests call today.         *)
(***************************************************************************)
EXTENDS Pipeline

CONSTANTS
    Skill,          \* skill ids, and the names of the directories of manifests
    Score,          \* score_manifest, for the one objective of the model
    Precedence,     \* rank by risk tier and skill id
    SkillDirs,      \* the directories, in sorted order
    NoRow,
    FirstFiles,     \* what the files say before the first start
    NewTemplates,   \* bound: what an editor may write into a template file
    NewSkillFiles,  \* bound: and into a skill.json
    NewManifests,   \* bound: the manifests that are put into the registry by hand
    Budgets         \* bounds: how many edits, faults and calls there are

Status == {"verified", "quarantined", "disabled"}
Tier == {"T1", "T2", "T3", "T4", "T5"}
Manifest == [status: Status, tier: Tier, approval: BOOLEAN, writes: BOOLEAN]
SkillFile == [id: Skill, valid: BOOLEAN]

ASSUME RegistriesConstantsOK ==
    /\ IsFiniteSet(Skill)
    /\ Score \in [Skill -> Nat]
    /\ Precedence \in [Skill -> Nat]
    /\ \A s, t \in Skill : s # t => Precedence[s] # Precedence[t]
    /\ SkillDirs \in Seq(Skill)
    /\ FirstFiles \subseteq
          [template: [Pipeline -> Definition \cup {Missing, Malformed}],
           skillFile: [Skill -> SkillFile \cup {Missing}]]
    /\ NewTemplates \subseteq Definition \cup {Missing, Malformed}
    /\ NewSkillFiles \subseteq SkillFile \cup {Missing}
    /\ NewManifests \subseteq Manifest
    /\ Budgets \subseteq [edits: Nat, faults: Nat, calls: Nat]

VARIABLES
    template,   \* templates/<pipeline>.yaml
    skillFile,  \* skills/<directory>/skill.json
    cap,        \* capability_manifests, the row of each pipeline
    skill,      \* skill_manifests, the status of each row
    daemon,     \* "down", "starting", "up"
    imports,    \* templates the start has still to import
    nextDir,    \* the directory of skills it imports next
    budget      \* what is left of the bounds

registryVars == <<template, skillFile, cap, skill, daemon, imports, nextDir, budget>>

RegistriesTypeOK ==
    /\ template \in [Pipeline -> Definition \cup {Missing, Malformed}]
    /\ skillFile \in [Skill -> SkillFile \cup {Missing}]
    /\ cap \in [Pipeline -> Manifest \cup {NoRow}]
    /\ skill \in [Skill -> {"verified", "quarantined"} \cup {NoRow}]
    /\ daemon \in {"down", "starting", "up"}
    /\ imports \subseteq Pipeline
    /\ nextDir \in 1..Len(SkillDirs) + 1
    /\ budget \in [edits: Nat, faults: Nat, calls: Nat]

RegistriesInit ==
    /\ \E files \in FirstFiles :
          template = files.template /\ skillFile = files.skillFile
    /\ cap = [p \in Pipeline |-> NoRow]
    /\ skill = [s \in Skill |-> NoRow]
    /\ daemon = "down"
    /\ imports = {}
    /\ nextDir = 1
    /\ budget \in Budgets

-----------------------------------------------------------------------------
(* Skills. *)

\* SkillImporter, one directory: a bad manifest is kept under the name of the
\* directory, a good one under its own id.
ImportSkill(rows, d) ==
    CASE skillFile[d] = Missing -> rows
      [] skillFile[d] # Missing /\ skillFile[d].valid ->
            [rows EXCEPT ![skillFile[d].id] = "verified"]
      [] OTHER -> [rows EXCEPT ![d] = "quarantined"]

\* The directories that write the row of a skill when all are imported.
WritersOf(s) ==
    {k \in DOMAIN SkillDirs : LET file == skillFile[SkillDirs[k]] IN
        file # Missing /\ s = IF file.valid THEN file.id ELSE SkillDirs[k]}

\* SkillImporter.import_all: each directory in turn, so that the last one that
\* writes a row leaves it.
ImportAll ==
    [s \in Skill |->
        IF WritersOf(s) = {} THEN skill[s]
        ELSE IF skillFile[SkillDirs[Max(WritersOf(s))]].valid THEN "verified" ELSE "quarantined"]

Verified(rows) == {s \in Skill : rows[s] = "verified"}

\* select_skill: the best score above zero, then the lower tier, then the id.
SelectSkill(verified) ==
    LET ranked == {s \in verified : Score[s] > 0}
        Before(s, t) == \/ Score[s] > Score[t]
                        \/ Score[s] = Score[t] /\ Precedence[s] < Precedence[t]
    IN IF ranked = {} THEN NoRow
       ELSE CHOOSE s \in ranked : \A t \in ranked \ {s} : Before(s, t)

-----------------------------------------------------------------------------
(* Capabilities. *)

TemplateManifest(p) ==
    [status |-> IF Compiles(p, template[p]) THEN "verified" ELSE "quarantined",
     tier |-> "T1", approval |-> FALSE, writes |-> FALSE]

\* enforce_capability_policy raises.
Blocked(manifest) ==
    \/ manifest.status \in {"quarantined", "disabled"}
    \/ (manifest.tier \in {"T3", "T4", "T5"} \/ manifest.writes) /\ ~manifest.approval

\* check_pipeline_policy, given the registry: an unknown pipeline is allowed.
PolicyError(p) == cap[p] # NoRow /\ Blocked(cap[p])

\* build_runtime: list_templates, then one upsert per template.
StartDaemon ==
    /\ daemon = "down"
    /\ daemon' = "starting"
    /\ imports' = {p \in Active : template[p] # Missing}
    /\ nextDir' = 1
    /\ UNCHANGED <<template, skillFile, cap, skill, budget>>

\* A row is overwritten whatever was done to it since the last start.
ImportTemplate(p) ==
    /\ daemon = "starting" /\ p \in imports
    /\ imports' = imports \ {p}
    /\ cap' = IF template[p] = Missing THEN cap
              ELSE [cap EXCEPT ![p] = TemplateManifest(p)]
    /\ UNCHANGED <<template, skillFile, skill, daemon, nextDir, budget>>

\* maybe_import_skills, after the templates.
ImportNextSkill ==
    /\ daemon = "starting" /\ imports = {}
    /\ nextDir \in DOMAIN SkillDirs
    /\ skill' = ImportSkill(skill, SkillDirs[nextDir])
    /\ nextDir' = nextDir + 1
    /\ UNCHANGED <<template, skillFile, cap, daemon, imports, budget>>

\* The bridge and the worker are started.
DaemonIsUp ==
    /\ daemon = "starting" /\ imports = {} /\ nextDir > Len(SkillDirs)
    /\ daemon' = "up"
    /\ UNCHANGED <<template, skillFile, cap, skill, imports, nextDir, budget>>

Bound(b) == budget[b] > 0 /\ budget' = [budget EXCEPT ![b] = @ - 1]

EditTemplate(p, file) ==
    /\ Bound("edits")
    /\ template' = [template EXCEPT ![p] = file]
    /\ UNCHANGED <<skillFile, cap, skill, daemon, imports, nextDir>>

EditSkill(d, file) ==
    /\ Bound("edits")
    /\ skillFile' = [skillFile EXCEPT ![d] = file]
    /\ UNCHANGED <<template, cap, skill, daemon, imports, nextDir>>

\* quarantine, disable and enable of CapabilityRegistry.
SetStatus(p, status) ==
    /\ Bound("edits")
    /\ cap[p] # NoRow
    /\ cap' = [cap EXCEPT ![p].status = status]
    /\ UNCHANGED <<template, skillFile, skill, daemon, imports, nextDir>>

\* upsert of a manifest that was not made from a template.
Upsert(p, manifest) ==
    /\ Bound("edits")
    /\ cap' = [cap EXCEPT ![p] = manifest]
    /\ UNCHANGED <<template, skillFile, skill, daemon, imports, nextDir>>

Delete(p) ==
    /\ Bound("edits")
    /\ cap[p] # NoRow
    /\ cap' = [cap EXCEPT ![p] = NoRow]
    /\ UNCHANGED <<template, skillFile, skill, daemon, imports, nextDir>>

\* What an operator, or an editor, may do at any time.
RegistriesNext ==
    \/ StartDaemon
    \/ \E p \in Pipeline : ImportTemplate(p)
    \/ ImportNextSkill
    \/ DaemonIsUp
    \/ \E p \in Pipeline, file \in NewTemplates : EditTemplate(p, file)
    \/ \E d \in Skill, file \in NewSkillFiles : EditSkill(d, file)
    \/ \E p \in Pipeline, status \in Status : SetStatus(p, status)
    \/ \E p \in Pipeline, manifest \in NewManifests : Upsert(p, manifest)
    \/ \E p \in Pipeline : Delete(p)
=============================================================================
