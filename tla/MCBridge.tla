------------------------------ MODULE MCBridge ------------------------------
(***************************************************************************)
(* Requests worth making: for each tool all that its contract declares, or *)
(* one required argument less, or a value no one looks at, that can be     *)
(* converted or not; an empty text; a long line, one with other letters,   *)
(* one with a small number; the methods of the administrator.              *)
(***************************************************************************)
EXTENDS Bridge

CONSTANTS daemon, c1, c2

Releases == [p \in Process |-> 8]
Waits    == [gateway |-> 1, runner |-> 1, shim |-> 2, script |-> 2]
Keys     == [gateway |-> "key", runner |-> "key", shim |-> Nil, script |-> "key"]

KeyOrNone == {"key", Nil}

Ask(program, tool, given, text) ==
    [by |-> program, method |-> "tools.call", tool |-> tool, given |-> given,
     unfit |-> {}, loose |-> {}, empty |-> {}, text |-> text]

Unfit(r, k) == [r EXCEPT !.unfit = {k}]
Loose(r, k) == [r EXCEPT !.loose = {k}]
Empty(r, k) == [r EXCEPT !.empty = {k}]

\* A method other than tools.call, which only a script asks for.
Command(method, given) == [Ask("script", "none", given, "plain") EXCEPT !.method = method]

Declared(t) == CONTRACTS[t].required \cup CONTRACTS[t].others

\* All that its contract declares.
Full(t) == Ask("gateway", t, Declared(t), "plain")

FromGateway ==
    {Full(t) : t \in DOMAIN CONTRACTS}
      \cup {[Full(t) EXCEPT !.given = @ \ {k}] :
              <<t, k>> \in {<<u, l>> \in (DOMAIN CONTRACTS) \X {"query", "artifact_key", "conversation_path", "target_repo"} : l \in Declared(u)}}
      \cup {Unfit(Full("mcp_code_intelligence"), "focus_paths"),
            Loose(Full("mcp_code_intelligence"), "focus_paths"),
            Empty(Full("mcp_set_active_partition"), "conversation_path"),
            Ask("gateway", "mcp_deep_research", {"query"}, "plain"),
            Ask("gateway", "mcp_semantic_search_active", {"query"}, "accented"),
            Ask("gateway", "mcp_commit_memory", {"category", "content", "confidence_score"},
                "fraction")}

FromOthers ==
    {Ask("shim", "mcp_ingest_target", ShimFunctions["mcp_ingest_target"] \cup {"mime_type"},
         "plain"),
     Empty(Ask("shim", "mcp_set_active_partition", {"conversation_path"}, "plain"),
           "conversation_path"),
     Ask("runner", "mcp_investigation_start", {"objective", "target_repo"}, "accented"),
     Ask("runner", "mcp_extract_image", {}, "plain"),
     Ask("runner", "mcp_sandbox_probe", {"path", "operation"}, "plain"),
     Ask("runner", "mcp_ingest_target", {"project_id", "absolute_path"}, "long"),
     Unfit(Ask("script", "mcp_commit_memory", {"category", "content", "metadata"}, "plain"),
           "metadata"),
     Loose(Ask("script", "mcp_semantic_search", {"project_id", "query", "k"}, "plain"), "k"),
     Unfit(Ask("script", "mcp_semantic_search", {"project_id", "query", "k"}, "fraction"), "k"),
     Command("daemon.dead_letters", {}), Unfit(Command("daemon.dead_letters", {"limit"}), "limit"),
     Command("daemon.reconcile_project", {}), Command("daemon.stop", {})}

AsksOf == [c \in Call |-> IF c = c1 THEN FromGateway ELSE FromOthers]

\* The databases are migrated, and the daemon is not yet up.
MigratedInit ==
    /\ versions = Known[daemon]
    /\ schema = Objects
    /\ stage = [p \in Process |-> "down"]
    /\ file = [p \in Process |-> QueueDb]
    /\ applied = [p \in Process |-> {}]
    /\ next = [p \in Process |-> 1]
    /\ done = [p \in Process |-> 0]
    /\ columns = [p \in Process |-> {}]
    /\ rows = [p \in Process |-> {}]
    /\ altered = [p \in Process |-> {}]
    /\ BridgeInit

MigratedSpec == MigratedInit /\ [][Next]_vars /\ Fairness
=============================================================================
