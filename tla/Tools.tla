-------------------------------- MODULE Tools --------------------------------
(***************************************************************************)
(* The tools of the daemon as their three front ends and the daemon see    *)
(* them: the contracts of the Node gateway (contracts.mjs), the functions  *)
(* of the FastMCP shim, the lists of the workflow runner (policies.py) and *)
(* what ToolAdapters.call_mcp_tool does with the arguments.  Four tables   *)
(* in three programs are kept in step by hand.                             *)
(***************************************************************************)

\* The tools of several tables, which have none in common, in one.
Joined(tables) ==
    [t \in UNION {DOMAIN u : u \in tables} |-> (CHOOSE u \in tables : t \in DOMAIN u)[t]]

(* What call_mcp_tool does with the arguments of a tool: those it does not *)
(* run without (a KeyError, or an answer POLICY_BLOCK), those it hands to  *)
(* int, float or list, which take '5' for 5 and a text for a list but not  *)
(* everything, those it checks itself, and those it does not take.  What   *)
(* it only reads in some case (max_bytes for read_head), or passes over    *)
(* when it is null or empty (params), is not given in the other cases.     *)
Uses(needs, converts, checks, bars) ==
    [needs |-> needs, converts |-> converts, checks |-> checks, bars |-> bars]

SearchTools ==
    [mcp_semantic_search |-> Uses({"project_id", "query"}, {"k"}, {}, {})]

PartitionTools ==
    [mcp_get_active_partition      |-> Uses({}, {}, {}, {}),
     mcp_set_active_partition      |-> Uses({"conversation_path"}, {}, {}, {"project_id"}),
     mcp_set_active_project_manual |-> Uses({"project_id"}, {}, {}, {}),
     mcp_list_memory_projects      |-> Uses({}, {}, {}, {})]

MemoryTools ==
    [mcp_semantic_search_active |-> Uses({"query"}, {"k"}, {}, {}),
     mcp_commit_memory |->
        Uses({"category", "content"}, {"confidence_score"}, {"metadata"}, {})]

WorkflowTools ==
    [mcp_agent_workflow_run |->
        Uses({"objective", "target_repo"}, {},
             {"objective", "target_repo", "pipeline_vars"}, {})]

FileTools ==
    [mcp_ingest_target    |-> Uses({"project_id", "absolute_path"}, {}, {}, {}),
     mcp_scout_workspace  |-> Uses({"project_id", "absolute_path"}, {"max_files"}, {}, {}),
     mcp_verify_integrity |->
        Uses({"absolute_path", "expected_sha256", "expected_metadata_hash"}, {}, {}, {})]

InvestigationTools ==
    [mcp_investigation_start             |-> Uses({"objective", "target_repo"}, {}, {}, {}),
     mcp_investigation_filemap           |-> Uses({"session_path"}, {}, {}, {}),
     mcp_investigation_validate_manifest |-> Uses({"session_path"}, {}, {}, {}),
     mcp_investigation_read_report       |->
        Uses({"session_path", "artifact_key"}, {"max_chars"}, {}, {}),
     mcp_investigation_compile_handoff   |-> Uses({"session_path"}, {}, {}, {})]

AnalysisTools ==
    [mcp_extract_image     |-> Uses({"absolute_path"}, {}, {}, {}),
     mcp_list_capabilities |-> Uses({}, {}, {"capability_type"}, {}),
     mcp_code_intelligence |->
        Uses({"target_repo", "mode"},
             {"max_files", "max_edges", "max_chars", "focus_paths"}, {}, {})]

IntegrationTools ==
    [mcp_integration_invoke |->
        Uses({"integration_type"}, {}, {"integration_type", "params"}, {})]

ResearchTools ==
    [mcp_deep_research |-> Uses({"query"}, {"max_sources", "max_depth"}, {"sources"}, {})]

ProbeTools ==
    [mcp_sandbox_probe |->
        Uses({"operation"}, {"max_entries", "max_bytes"}, {"operation"}, {})]

call_mcp_tool ==
    Joined({SearchTools, PartitionTools, MemoryTools, WorkflowTools, FileTools,
            InvestigationTools, AnalysisTools, IntegrationTools, ResearchTools,
            ProbeTools})

\* The arguments that it does not take empty either.
Filled ==
    [mcp_set_active_partition |-> {"conversation_path"},
     mcp_deep_research        |-> {"query"},
     mcp_integration_invoke   |-> {"integration_type"},
     mcp_sandbox_probe        |-> {"operation"}]

\* The arguments that go to list and not to int or float.
Lists == {"focus_paths"}

\* The same as far as the gateway declares it: the required and the other
\* properties, none else, and those of the type "array", at which
\* validateValue does not look.
Schema(required, others, arrays) ==
    [required |-> required, others |-> others, arrays |-> arrays]

AgentContracts ==
    [mcp_extract_image |-> Schema({"absolute_path"}, {"page", "region"}, {}),
     mcp_commit_memory |->
        Schema({"category", "content"}, {"confidence_score", "metadata"}, {}),
     mcp_agent_workflow_run |->
        Schema({"objective", "target_repo"},
               {"profile", "allow_ingest", "include_report_preview",
                "use_model_phases", "pipeline_id", "pipeline_vars"}, {}),
     mcp_get_active_partition |-> Schema({}, {}, {})]

InvestigationContracts ==
    [mcp_investigation_start |-> Schema({"objective", "target_repo"}, {"profile"}, {}),
     mcp_investigation_filemap |-> Schema({"session_path"}, {"profile"}, {}),
     mcp_investigation_validate_manifest |-> Schema({"session_path"}, {}, {}),
     mcp_investigation_read_report |->
        Schema({"session_path", "artifact_key"}, {"max_chars"}, {}),
     mcp_investigation_compile_handoff |-> Schema({"session_path"}, {}, {})]

IndexContracts ==
    [mcp_list_memory_projects |-> Schema({}, {}, {}),
     mcp_ingest_target |->
        Schema({"project_id", "absolute_path"}, {"mime_type", "force_reindex"}, {}),
     mcp_semantic_search |-> Schema({"project_id", "query"}, {"k"}, {}),
     mcp_semantic_search_active |-> Schema({"query"}, {"k"}, {}),
     mcp_scout_workspace |->
        Schema({"project_id", "absolute_path"}, {"max_files", "include_summaries"}, {})]

PartitionContracts ==
    [mcp_set_active_partition |-> Schema({"conversation_path"}, {}, {}),
     mcp_set_active_project_manual |-> Schema({"project_id"}, {"display_name"}, {})]

AnalysisContracts ==
    [mcp_verify_integrity |->
        Schema({"absolute_path", "expected_sha256", "expected_metadata_hash"}, {}, {}),
     mcp_code_intelligence |->
        Schema({"target_repo", "mode"},
               {"max_files", "max_edges", "max_chars", "focus_paths"}, {"focus_paths"}),
     mcp_list_capabilities |-> Schema({}, {"capability_type", "status"}, {})]

CONTRACTS ==
    Joined({AgentContracts, InvestigationContracts, IndexContracts, PartitionContracts,
            AnalysisContracts})

\* The functions of the shim.  FastMCP checks the types of their parameters,
\* and their defaults are always sent, but for those that are None.
ShimOptions ==
    [mcp_ingest_target             |-> {"mime_type"},
     mcp_extract_image             |-> {"page", "region"},
     mcp_set_active_project_manual |-> {"display_name"}]

ShimFunctions ==
    [mcp_scout_workspace  |-> {"project_id", "absolute_path", "max_files", "include_summaries"},
     mcp_ingest_target    |-> {"project_id", "absolute_path", "force_reindex"},
     mcp_semantic_search  |-> {"project_id", "query", "k"},
     mcp_verify_integrity |-> {"absolute_path", "expected_sha256", "expected_metadata_hash"},
     mcp_extract_image    |-> {"absolute_path"},
     mcp_investigation_start             |-> {"objective", "target_repo", "profile"},
     mcp_investigation_filemap           |-> {"session_path", "profile"},
     mcp_investigation_validate_manifest |-> {"session_path"},
     mcp_investigation_read_report       |-> {"session_path", "artifact_key", "max_chars"},
     mcp_investigation_compile_handoff   |-> {"session_path"},
     mcp_agent_workflow_run |-> {"objective", "target_repo", "profile", "allow_ingest",
                                 "include_report_preview", "use_model_phases"},
     mcp_set_active_partition      |-> {"conversation_path"},
     mcp_set_active_project_manual |-> {"project_id"}]

\* What the workflow runner asks of a call before it makes it.
REQUIRED_ARGS ==
    [mcp_agent_workflow_run              |-> {"objective", "target_repo"},
     mcp_commit_memory                   |-> {"category", "content"},
     mcp_ingest_target                   |-> {"project_id", "absolute_path"},
     mcp_investigation_compile_handoff   |-> {"session_path"},
     mcp_investigation_filemap           |-> {"session_path"},
     mcp_investigation_read_report       |-> {"session_path", "artifact_key"},
     mcp_investigation_start             |-> {"objective", "target_repo"},
     mcp_investigation_validate_manifest |-> {"session_path"},
     mcp_code_intelligence               |-> {"target_repo", "mode"},
     mcp_semantic_search                 |-> {"project_id", "query"},
     mcp_semantic_search_active          |-> {"query"},
     mcp_set_active_partition            |-> {"conversation_path"},
     mcp_integration_invoke              |-> {"integration_type", "action"},
     mcp_sandbox_probe                   |-> {"path", "operation"},
     mcp_set_active_project_manual       |-> {"project_id"},
     mcp_scout_workspace                 |-> {"project_id", "absolute_path"},
     mcp_verify_integrity |->
        {"absolute_path", "expected_sha256", "expected_metadata_hash"},
     mcp_deep_research                   |-> {"query"}]
ALLOWED_TOOLS ==
    DOMAIN REQUIRED_ARGS \cup
      {"mcp_extract_image", "mcp_get_active_partition", "mcp_list_capabilities",
       "mcp_list_memory_projects"}

-----------------------------------------------------------------------------
(* Requests: the tool, the keys of the arguments that are given, and among *)
(* them those whose value is an empty text ("empty"), is not of the        *)
(* declared type but can be converted ("loose"), or is not of the declared *)
(* type or values and cannot ("unfit"); and the text of the line.          *)

\* Mutant of validateToolInput: required arguments may be left out.
validateDeclared(r) ==
    /\ r.tool \in DOMAIN CONTRACTS
    /\ LET c == CONTRACTS[r.tool]
       IN  /\ r.given \subseteq c.required \cup c.others
           /\ r.unfit \cup r.loose \subseteq c.arrays
           /\ r.empty = {}

\* validateToolInput of the gateway: each text has a minLength, an enum or a
\* pattern.
validateToolInput(r) ==
    /\ r.tool \in DOMAIN CONTRACTS
    /\ LET c == CONTRACTS[r.tool]
       IN  /\ c.required \subseteq r.given
           /\ r.given \subseteq c.required \cup c.others
           /\ r.unfit \cup r.loose \subseteq c.arrays
           /\ r.empty = {}

\* The shim has a function for it and FastMCP accepts the arguments, which it
\* converts first: the function sends its own parameters only, and an empty
\* mime_type not at all.
ShimAccepts(r) ==
    /\ r.tool \in DOMAIN ShimFunctions
    /\ ShimFunctions[r.tool] \subseteq r.given
    /\ \A k \in r.given \ ShimFunctions[r.tool] :
          r.tool \in DOMAIN ShimOptions /\ k \in ShimOptions[r.tool]
    /\ r.unfit = {} /\ r.loose = {}
    /\ "mime_type" \notin r.empty

\* validate_tool of the runner; workflows allow ingest when they say so.
validate_tool(r) ==
    /\ r.tool \in ALLOWED_TOOLS
    /\ r.tool \in DOMAIN REQUIRED_ARGS => REQUIRED_ARGS[r.tool] \subseteq r.given

\* What call_mcp_tool makes of the arguments: it refuses them with an answer,
\* raises, or goes on to the component.
Misfits(r) ==
    \/ r.tool \notin DOMAIN call_mcp_tool
    \/ LET u == call_mcp_tool[r.tool]
       IN  \/ ~(u.needs \subseteq r.given)
           \/ u.checks \cap (r.unfit \cup r.loose) # {}
           \/ u.bars \cap r.given # {}
    \/ r.tool \in DOMAIN Filled /\ Filled[r.tool] \cap r.empty # {}
Raises(r) == r.unfit \cap call_mcp_tool[r.tool].converts # {}

\* int and float raise a ValueError, which becomes an answer, or a TypeError,
\* list a TypeError: nothing catches that, and the connection is closed.
Raised(r) ==
    {"closed"} \cup {"misfit" : k \in r.unfit \cap (call_mcp_tool[r.tool].converts \ Lists)}
=============================================================================
