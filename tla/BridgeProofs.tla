---------------------------- MODULE BridgeProofs ----------------------------
(***************************************************************************)
(* Theorems about Bridge for any number of calls, for all requests,        *)
(* secrets, patiences within the tolerance and sizes of the cache.         *)
(*                                                                         *)
(* AnswersAreTrue is not inductive: that a caller who hears a result had   *)
(* its tool called follows from what the answers on the connection mean    *)
(* (AnswersMatchLines), and that one who still waits is young enough from  *)
(* the clock, which no waiting caller outlives (WaitersAreYoung).          *)
(*                                                                         *)
(* That forwarded calls fit is a fact about the tables (ContractsAgree,    *)
(* ShimAgrees), carried along a connection by OnlyForwarded: what the      *)
(* gateway or the shim has on it passed its own check.                     *)
(***************************************************************************)
EXTENDS Bridge, StartupProofs, TLAPS

Answers == {"none", "result", "failure", "misfit", "unauthorized", "disabled",
            "closed", "reset"}

\* The types the proofs need, of what the daemon and the callers keep.
CallsAreTyped ==
    /\ by \in [Call -> DOMAIN Patience \cup {Nil}]
    /\ asked \in [Call -> (UNION {Requests[c] : c \in Call}) \cup {Nil}]
    /\ age \in [Call -> Nat]
    /\ line \in [Call -> {"none", "unread", "running", "done"}]
    /\ answer \in [Call -> Answers]
    /\ waits \in [Call -> BOOLEAN]
    /\ told \in [Call -> {"nothing", "result", "failure", "invalid",
                          "refused", "error", "silence"}]
    /\ begun \in [Call -> Nat]

\* What is on a connection tells what became of its line.
AnswersMatchLines ==
    \A c \in Call :
        /\ line[c] \in {"none", "unread"} => begun[c] = 0
        /\ line[c] = "running" => begun[c] = 1
        /\ answer[c] # "none" => line[c] = "done"
        /\ answer[c] = "result" => begun[c] = 1
        /\ answer[c] \in {"misfit", "unauthorized", "disabled"} => begun[c] = 0

\* And so does what its caller was told, which is the end of its waiting.
ToldMatchesLines ==
    \A c \in Call :
        /\ told[c] = "result" => begun[c] = 1
        /\ told[c] = "refused" => begun[c] = 0 /\ line[c] = "done"
        /\ told[c] = "invalid" => line[c] = "none"
        /\ waits[c] => told[c] = "nothing" /\ line[c] # "none"

\* A caller waits no longer than its patience, and an unread line is one that
\* the cache of nonces does not hold.
WaitersAreYoung ==
    \A c \in Call :
        /\ line[c] = "none" => age[c] = 0
        /\ waits[c] => by[c] \in DOMAIN Patience /\ age[c] <= Patience[by[c]]
        /\ line[c] = "unread" =>
              asked[c] \in Requests[c] /\ asked[c].by = by[c] /\ c \notin nonces
        /\ line[c] = "none" => c \notin nonces

Inv == CallsAreTyped /\ AnswersMatchLines /\ ToldMatchesLines /\ WaitersAreYoung

USE DEF CallsAreTyped, AnswersMatchLines, ToldMatchesLines, WaitersAreYoung

\* No connection has been made.
LEMMA InitInv == Init => Inv
  <1> SUFFICES ASSUME Init PROVE Inv
    OBVIOUS
  <1> USE DEF Init, BridgeInit
  <1>1. CallsAreTyped
    BY DEF Answers
  <1>2. AnswersMatchLines /\ ToldMatchesLines
    OBVIOUS
  <1>3. WaitersAreYoung
    OBVIOUS
  <1> QED
    BY <1>1, <1>2, <1>3 DEF Inv

\* A step that leaves the calls alone keeps the invariant.
LEMMA StutterInv ==
  ASSUME Inv, UNCHANGED bridgeVars
  PROVE  Inv'
  BY DEF Inv, bridgeVars, callVars

-----------------------------------------------------------------------------
(* The callers. *)

\* What a caller is told of an answer says no more than the answer.
LEMMA TellsWhatIs ==
  ASSUME NEW program, NEW what \in Answers \cup {"timeout"}
  PROVE  /\ Tells(program, what) \in {"result", "failure", "refused",
                                      "error", "silence"}
         /\ Tells(program, what) = "result" => what = "result"
         /\ Tells(program, what) = "refused" => what \in {"unauthorized", "disabled"}
  BY DEF Tells, Answers

\* A call that is turned down, made, heard or given up keeps the invariant.
LEMMA CallerInv ==
  ASSUME Inv, NEW c \in Call, CallerStep(c)
  PROVE  Inv'
  <1> USE DEF Inv
  <1>1. CASE Decline(c)
    BY <1>1 DEF Decline
  <1>2. CASE Make(c)
    <2>1. PICK r \in Requests[c] :
             IF Up
               THEN /\ by' = [by EXCEPT ![c] = r.by]
                    /\ asked' = [asked EXCEPT ![c] = r]
                    /\ line' = [line EXCEPT ![c] = "unread"]
                    /\ waits' = [waits EXCEPT ![c] = TRUE]
                    /\ UNCHANGED told
               ELSE /\ told' = [told EXCEPT ![c] = Tells(r.by, "reset")]
                    /\ line' = [line EXCEPT ![c] = "done"]
                    /\ UNCHANGED <<by, asked, waits>>
      BY <1>2 DEF Make
    <2>2. /\ line[c] = "none" /\ told[c] = "nothing"
          /\ UNCHANGED <<age, answer, begun, nonces>>
      BY <1>2 DEF Make
    <2>3. r.by \in DOMAIN Patience /\ Patience[r.by] \in 1..Tolerance /\ Tolerance \in Nat
      BY BridgeAssumption
    <2>4. CASE Up
      <3>a. r \in UNION {Requests[d] : d \in Call}
        OBVIOUS
      <3>b. asked' \in [Call -> (UNION {Requests[d] : d \in Call}) \cup {Nil}]
        BY <3>a, <2>1, <2>4
      <3>c. by' \in [Call -> DOMAIN Patience \cup {Nil}]
        BY <2>1, <2>3, <2>4
      <3>1. CallsAreTyped'
        BY <3>b, <3>c, <2>1, <2>2, <2>4
      <3>2. AnswersMatchLines' /\ ToldMatchesLines'
        BY <2>1, <2>2, <2>4
      <3>3. WaitersAreYoung'
        BY <2>1, <2>2, <2>3, <2>4
      <3> QED
        BY <3>1, <3>2, <3>3
    <2>5. CASE ~Up
      <3>1. Tells(r.by, "reset") \in {"error", "silence"}
        BY DEF Tells
      <3> QED
        BY <2>1, <2>2, <2>5, <3>1
    <2> QED
      BY <2>4, <2>5
  <1>3. CASE Hear(c)
    <2>1. answer[c] \in Answers /\ answer[c] # "none"
      BY <1>3 DEF Hear
    <2>2. told' = [told EXCEPT ![c] = Tells(by[c], answer[c])]
      BY <1>3 DEF Hear
    <2> QED
      BY <1>3, <2>1, <2>2, TellsWhatIs DEF Hear
  <1>4. CASE GiveUp(c)
    <2>1. Tells(by[c], "timeout") \in {"error", "silence"}
      BY DEF Tells
    <2> QED
      BY <1>4, <2>1 DEF GiveUp
  <1> QED
    BY <1>1, <1>2, <1>3, <1>4 DEF CallerStep

\* Nor does a caller wait beyond its patience.
LEMMA TickInv ==
  ASSUME Inv, Tick
  PROVE  Inv'
  <1>1. \A c \in Call : waits[c] => Patience[by[c]] \in Nat
    BY BridgeAssumption DEF Inv
  <1> QED
    BY <1>1 DEF Inv, Tick, Aging

-----------------------------------------------------------------------------
(* The daemon. *)

\* A line is answered or begun by its verdict; only a line that is begun has
\* its tool called.
LEMMA ServerInv ==
  ASSUME Inv, NEW c \in Call, ServerStep(c)
  PROVE  Inv'
  <1> USE DEF Inv
  <1>1. CASE Read(c)
    <2>1. PICK v \in Verdicts(c) :
             IF v = "begin"
               THEN /\ line' = [line EXCEPT ![c] = "running"]
                    /\ begun' = [begun EXCEPT ![c] = @ + 1]
                    /\ UNCHANGED answer
               ELSE /\ line' = [line EXCEPT ![c] = "done"]
                    /\ answer' = [answer EXCEPT ![c] = v]
                    /\ UNCHANGED begun
      BY <1>1 DEF Read
    <2>2. /\ line[c] = "unread" /\ UNCHANGED <<by, age, waits, told>>
          /\ asked' = [asked EXCEPT ![c] = Nil]
          /\ nonces' \in {nonces, Remembered(c)}
      BY <1>1 DEF Read
    <2>3. v \in {"begin", "misfit", "failure", "unauthorized", "disabled", "closed"}
      BY DEF Verdicts, Raised
    <2>4. \A d \in Call \ {c} : d \notin nonces => d \notin nonces'
      BY <2>2 DEF Remembered
    <2>5. CASE v = "begin"
      BY <2>1, <2>2, <2>4, <2>5
    <2>6. CASE v # "begin"
      BY <2>1, <2>2, <2>3, <2>4, <2>6 DEF Answers
    <2> QED
      BY <2>5, <2>6
  <1>2. CASE Finish(c)
    BY <1>2 DEF Finish, Answers
  <1> QED
    BY <1>1, <1>2 DEF ServerStep

\* A death of the daemon resets the connections whose lines were not answered.
LEMMA LoseLinesInv ==
  ASSUME Inv, LoseLines
  PROVE  Inv'
  BY DEF Inv, LoseLines, Answers

\* Every step of the processes, the calls and the clock.
LEMMA StepInv == Inv /\ [Next]_vars => Inv'
  <1> SUFFICES ASSUME Inv, [Next]_vars PROVE Inv'
    OBVIOUS
  <1>1. ASSUME NEW p \in Process, ProcessStep(p) PROVE Inv'
    BY <1>1, StutterInv, LoseLinesInv DEF ProcessStep
  <1>2. ASSUME NEW c \in Call, CallerStep(c) \/ ServerStep(c) PROVE Inv'
    BY <1>2, CallerInv, ServerInv
  <1>3. CASE Tick
    BY <1>3, TickInv
  <1>4. CASE UNCHANGED vars
    BY <1>4, StutterInv DEF vars
  <1> QED
    BY <1>1, <1>2, <1>3, <1>4 DEF Next

\* The invariant holds throughout, whatever the daemon does.
THEOREM InvCorrect == Spec => []Inv
  BY InitInv, StepInv, PTL DEF Spec

-----------------------------------------------------------------------------

\* A result is told of a call whose tool was called, a refusal of one that it
\* was not and will not be, for any number of calls and deaths.
THEOREM AnswersAreTrueCorrect == Spec => []AnswersAreTrue
  <1>1. Inv => AnswersAreTrue
    BY DEF Inv, AnswersAreTrue
  <1> QED
    BY <1>1, InvCorrect, PTL

\* One step: the verdict on a caller that waits and has the secret.
LEMMA Admitted ==
  ASSUME Inv, NEW c \in Call, waits[c], line[c] = "unread",
         Holds[by[c]] = secret, by[c] = "gateway" => asked[c].text = "plain"
  PROVE  "unauthorized" \notin Verdicts(c)
  <1>1. asked[c].by = by[c] /\ c \notin nonces
    BY DEF Inv
  <1>2. age[c] <= Tolerance
    BY BridgeAssumption DEF Inv
  <1>3. Authorized(c)
    BY <1>1, <1>2 DEF Authorized, Signs, SignatureMatches
  <1> QED
    BY <1>3 DEF Verdicts, Raised

\* A caller with the secret is not refused, whatever patience within the
\* tolerance the programs have and however small the cache of nonces is; the
\* gateway only as long as Node and Python write its request alike.
THEOREM KeyHoldersAreAdmittedCorrect == Spec => KeyHoldersAreAdmitted
  <1>1. ASSUME Inv, [Next]_vars, NEW c \in Call, waits[c], line[c] = "unread",
               Holds[by[c]] = secret, by[c] = "gateway" => asked[c].text = "plain"
        PROVE  answer'[c] # "unauthorized"
    <2>1. answer[c] = "none"
      BY <1>1 DEF Inv
    <2>2. ASSUME NEW p \in Process, ProcessStep(p) PROVE answer'[c] # "unauthorized"
      BY <2>1, <2>2, <1>1 DEF ProcessStep, LoseLines, bridgeVars, callVars, Inv
    <2>3. ASSUME NEW d \in Call, CallerStep(d) PROVE answer'[c] # "unauthorized"
      BY <2>1, <2>3 DEF CallerStep, Decline, Make, Hear, GiveUp
    <2>4. ASSUME NEW d \in Call, Read(d) PROVE answer'[c] # "unauthorized"
      <3>1. CASE d = c
        BY <2>1, <2>4, <3>1, <1>1, Admitted DEF Read, Inv
      <3>2. CASE d # c
        BY <2>1, <2>4, <3>2, <1>1 DEF Read, Inv
      <3> QED
        BY <3>1, <3>2
    <2>5. ASSUME NEW d \in Call, Finish(d) PROVE answer'[c] # "unauthorized"
      BY <2>1, <2>5, <1>1 DEF Finish, Inv
    <2>6. CASE Tick \/ UNCHANGED vars
      BY <2>1, <2>6 DEF Tick, vars, bridgeVars, callVars
    <2> QED
      BY <1>1, <2>2, <2>3, <2>4, <2>5, <2>6 DEF Next, ServerStep
  <1>2. Inv /\ [Next]_vars =>
          [\A c \in Call :
             (/\ waits[c] /\ line[c] = "unread"
              /\ Holds[by[c]] = secret
              /\ by[c] = "gateway" => asked[c].text = "plain")
                 => answer'[c] # "unauthorized"]_vars
    BY <1>1
  <1> QED
    BY <1>2, InvCorrect, PTL DEF Spec, KeyHoldersAreAdmitted

-----------------------------------------------------------------------------
(* The types. *)

\* Every variable of the connections keeps its type.
ConnectionsTyped ==
    /\ \A c \in Call : IF line[c] = "unread" THEN asked[c] \in Requests[c] ELSE asked[c] = Nil
    /\ age \in [Call -> 0..Tolerance + 1]
    /\ begun \in [Call -> 0..1]
    /\ nonces \subseteq Call
    /\ secret \in Secrets

LEMMA ConnectionsInit == Init => ConnectionsTyped
  BY BridgeAssumption DEF Init, BridgeInit, ConnectionsTyped

LEMMA ConnectionsStep ==
  ASSUME Inv, ConnectionsTyped, [Next]_vars
  PROVE  ConnectionsTyped'
  <1> USE DEF Inv, ConnectionsTyped
  <1>1. ASSUME NEW p \in Process, ProcessStep(p) PROVE ConnectionsTyped'
    BY <1>1 DEF ProcessStep, LoseLines, bridgeVars, callVars
  <1>2. ASSUME NEW c \in Call, CallerStep(c) PROVE ConnectionsTyped'
    <2>1. CASE Make(c)
      BY <2>1 DEF Make
    <2>2. CASE Decline(c) \/ Hear(c) \/ GiveUp(c)
      BY <2>2 DEF Decline, Hear, GiveUp
    <2> QED
      BY <1>2, <2>1, <2>2 DEF CallerStep
  <1>3. ASSUME NEW c \in Call, Read(c) PROVE ConnectionsTyped'
    <2>1. nonces' \subseteq Call
      BY <1>3 DEF Read, Remembered
    <2>2. line[c] = "unread" /\ begun[c] = 0
      BY <1>3 DEF Read
    <2>3. begun' \in {begun, [begun EXCEPT ![c] = @ + 1]}
      BY <1>3 DEF Read
    <2>4. begun' \in [Call -> 0..1]
      BY <2>2, <2>3
    <2>5. \A d \in Call : IF line'[d] = "unread" THEN asked'[d] \in Requests[d] ELSE asked'[d] = Nil
      BY <1>3 DEF Read
    <2> QED
      BY <1>3, <2>1, <2>4, <2>5 DEF Read
  <1>4. ASSUME NEW c \in Call, Finish(c) PROVE ConnectionsTyped'
    BY <1>4 DEF Finish
  <1>5. CASE Tick
    BY <1>5, BridgeAssumption DEF Tick, Aging
  <1>6. CASE UNCHANGED vars
    BY <1>6 DEF vars, bridgeVars, callVars
  <1> QED
    BY <1>1, <1>2, <1>3, <1>4, <1>5, <1>6 DEF Next, ServerStep

\* The processes that start, with the daemon among them, keep theirs.
LEMMA ProcessesStep ==
  ASSUME StartupInv, StartupTypeOK, [Next]_vars
  PROVE  StartupInv' /\ StartupTypeOK'
  <1>1. ASSUME NEW p \in Process, ProcessStep(p) PROVE StartupInv' /\ StartupTypeOK'
    BY <1>1, StartupStepInv, StepTyped DEF ProcessStep
  <1>2. CASE UNCHANGED startVars
    BY <1>2, StartupStutterInv, StutterTyped
  <1>3. ASSUME NEW c \in Call, CallerStep(c) \/ ServerStep(c) PROVE UNCHANGED startVars
    BY <1>3 DEF CallerStep, ServerStep, Decline, Make, Hear, GiveUp, Read, Finish
  <1>4. Tick \/ UNCHANGED vars => UNCHANGED startVars
    BY DEF Tick, vars
  <1> QED
    BY <1>1, <1>2, <1>3, <1>4 DEF Next

\* The types of Bridge, those of Startup among them, hold whatever dies.
THEOREM TypeCorrect == Spec => []TypeOK
  <1>1. Init => StartupInv /\ StartupTypeOK /\ ConnectionsTyped
    BY StartupInitInv, StartupInitTyped, ConnectionsInit DEF Init
  <1>2. /\ StartupInv /\ StartupTypeOK /\ ConnectionsTyped /\ Inv
        /\ [Next]_vars
        => (StartupInv /\ StartupTypeOK /\ ConnectionsTyped)'
    BY ProcessesStep, ConnectionsStep
  <1>3. StartupTypeOK /\ ConnectionsTyped /\ Inv => TypeOK
    BY DEF TypeOK, ConnectionsTyped, Inv, Answers
  <1> QED
    BY <1>1, <1>2, <1>3, InvCorrect, PTL DEF Spec

-----------------------------------------------------------------------------
(* The tables of tools. *)

\* A tool that is in one table only is found in it.
LEMMA FoundInTable ==
  ASSUME NEW tables, NEW T \in tables, NEW t \in DOMAIN T,
         \A u \in tables : t \in DOMAIN u => u = T
  PROVE  t \in DOMAIN Joined(tables) /\ Joined(tables)[t] = T[t]
  <1>1. (CHOOSE u \in tables : t \in DOMAIN u) = T
    OBVIOUS
  <1> QED
    BY <1>1 DEF Joined

\* The tools of each table of the daemon,
LEMMA DaemonTools ==
  /\ DOMAIN SearchTools = {"mcp_semantic_search"}
  /\ DOMAIN PartitionTools = {"mcp_get_active_partition", "mcp_set_active_partition",
                              "mcp_set_active_project_manual", "mcp_list_memory_projects"}
  /\ DOMAIN MemoryTools = {"mcp_semantic_search_active", "mcp_commit_memory"}
  /\ DOMAIN WorkflowTools = {"mcp_agent_workflow_run"}
  /\ DOMAIN FileTools = {"mcp_ingest_target", "mcp_scout_workspace", "mcp_verify_integrity"}
  /\ DOMAIN InvestigationTools =
       {"mcp_investigation_start", "mcp_investigation_filemap",
        "mcp_investigation_validate_manifest", "mcp_investigation_read_report",
        "mcp_investigation_compile_handoff"}
  /\ DOMAIN AnalysisTools = {"mcp_extract_image", "mcp_list_capabilities",
                             "mcp_code_intelligence"}
  /\ DOMAIN IntegrationTools = {"mcp_integration_invoke"}
  /\ DOMAIN ResearchTools = {"mcp_deep_research"}
  /\ DOMAIN ProbeTools = {"mcp_sandbox_probe"}
  BY DEF SearchTools, PartitionTools, MemoryTools, WorkflowTools, FileTools,
     InvestigationTools, AnalysisTools, IntegrationTools, ResearchTools, ProbeTools

DaemonTables ==
    {SearchTools, PartitionTools, MemoryTools, WorkflowTools, FileTools,
     InvestigationTools, AnalysisTools, IntegrationTools, ResearchTools, ProbeTools}

\* which have none in common.
LEMMA DaemonLookup ==
  ASSUME NEW T \in DaemonTables, NEW t \in DOMAIN T
  PROVE  t \in DOMAIN call_mcp_tool /\ call_mcp_tool[t] = T[t]
  <1>1. \A u \in DaemonTables : t \in DOMAIN u => u = T
    BY DaemonTools DEF DaemonTables
  <1>2. call_mcp_tool = Joined(DaemonTables)
    BY DEF call_mcp_tool, DaemonTables
  <1> QED
    BY <1>1, <1>2, FoundInTable

\* A tool with these arguments fits call_mcp_tool: all that is needed there is
\* required, nothing that is barred is allowed, and nothing that is checked
\* there comes unchecked.
Agrees(t, required, others, unchecked) ==
    /\ t \in DOMAIN call_mcp_tool
    /\ call_mcp_tool[t].needs \subseteq required
    /\ call_mcp_tool[t].bars \cap (required \cup others) = {}
    /\ call_mcp_tool[t].checks \cap unchecked = {}

\* The contracts of the gateway agree with call_mcp_tool, tool by tool,
LEMMA ContractsAgree ==
  ASSUME NEW t \in DOMAIN CONTRACTS
  PROVE  Agrees(t, CONTRACTS[t].required, CONTRACTS[t].others, CONTRACTS[t].arrays)
  <1> DEFINE Tables == {AgentContracts, InvestigationContracts, IndexContracts,
                        PartitionContracts, AnalysisContracts}
  <1>1. PICK T \in Tables : t \in DOMAIN T /\ CONTRACTS[t] = T[t]
    BY DEF CONTRACTS, Joined
  <1>2. CASE T = AgentContracts
    <2>1. \/ t \in DOMAIN AnalysisTools \/ t \in DOMAIN MemoryTools
          \/ t \in DOMAIN WorkflowTools \/ t \in DOMAIN PartitionTools
      BY <1>1, <1>2, DaemonTools DEF AgentContracts
    <2> QED
      BY <1>1, <1>2, <2>1, DaemonLookup, DaemonTools DEF DaemonTables, AgentContracts,
         AnalysisTools, MemoryTools, WorkflowTools, PartitionTools, Uses, Schema, Agrees
  <1>3. CASE T = InvestigationContracts
    <2>1. t \in DOMAIN InvestigationTools
      BY <1>1, <1>3, DaemonTools DEF InvestigationContracts
    <2> QED
      BY <1>1, <1>3, <2>1, DaemonLookup, DaemonTools DEF DaemonTables, InvestigationContracts,
         InvestigationTools, Uses, Schema, Agrees
  <1>4. CASE T = IndexContracts
    <2>1. \/ t \in DOMAIN PartitionTools \/ t \in DOMAIN FileTools
          \/ t \in DOMAIN SearchTools \/ t \in DOMAIN MemoryTools
      BY <1>1, <1>4, DaemonTools DEF IndexContracts
    <2> QED
      BY <1>1, <1>4, <2>1, DaemonLookup, DaemonTools DEF DaemonTables, IndexContracts,
         PartitionTools, FileTools, SearchTools, MemoryTools, Uses, Schema, Agrees
  <1>5. CASE T = PartitionContracts
    <2>1. t \in DOMAIN PartitionTools
      BY <1>1, <1>5, DaemonTools DEF PartitionContracts
    <2> QED
      BY <1>1, <1>5, <2>1, DaemonLookup, DaemonTools DEF DaemonTables, PartitionContracts,
         PartitionTools, Uses, Schema, Agrees
  <1>6. CASE T = AnalysisContracts
    <2>1. t \in DOMAIN FileTools \/ t \in DOMAIN AnalysisTools
      BY <1>1, <1>6, DaemonTools DEF AnalysisContracts
    <2> QED
      BY <1>1, <1>6, <2>1, DaemonLookup, DaemonTools DEF DaemonTables, AnalysisContracts,
         FileTools, AnalysisTools, Uses, Schema, Agrees
  <1> QED
    BY <1>1, <1>2, <1>3, <1>4, <1>5, <1>6

\* The arguments a function of the shim may leave out.
Optional(t) == IF t \in DOMAIN ShimOptions THEN ShimOptions[t] ELSE {}

\* and so do the functions of the shim.
LEMMA ShimAgrees ==
  ASSUME NEW t \in DOMAIN ShimFunctions
  PROVE  Agrees(t, ShimFunctions[t], Optional(t), {})
  <1>1. \/ t \in DOMAIN FileTools \/ t \in DOMAIN SearchTools
        \/ t \in DOMAIN AnalysisTools \/ t \in DOMAIN InvestigationTools
        \/ t \in DOMAIN WorkflowTools \/ t \in DOMAIN PartitionTools
    BY DaemonTools DEF ShimFunctions
  <1>2. CASE t \in DOMAIN FileTools
    BY <1>2, DaemonLookup, DaemonTools DEF DaemonTables, FileTools, Uses, Agrees,
       ShimFunctions, ShimOptions, Optional
  <1>3. CASE t \in DOMAIN SearchTools
    BY <1>3, DaemonLookup, DaemonTools DEF DaemonTables, SearchTools, Uses, Agrees,
       ShimFunctions, ShimOptions, Optional
  <1>4. CASE t \in DOMAIN AnalysisTools
    BY <1>4, DaemonLookup, DaemonTools DEF DaemonTables, AnalysisTools, Uses, Agrees,
       ShimFunctions, ShimOptions, Optional
  <1>5. CASE t \in DOMAIN InvestigationTools
    BY <1>5, DaemonLookup, DaemonTools DEF DaemonTables, InvestigationTools, Uses, Agrees,
       ShimFunctions, ShimOptions, Optional
  <1>6. CASE t \in DOMAIN WorkflowTools
    BY <1>6, DaemonLookup, DaemonTools DEF DaemonTables, WorkflowTools, Uses, Agrees,
       ShimFunctions, ShimOptions, Optional
  <1>7. CASE t \in DOMAIN PartitionTools
    BY <1>7, DaemonLookup, DaemonTools DEF DaemonTables, PartitionTools, Uses, Agrees,
       ShimFunctions, ShimOptions, Optional
  <1> QED
    BY <1>1, <1>2, <1>3, <1>4, <1>5, <1>6, <1>7

\* What the gateway or the shim forwards, with values that can be converted, is
\* neither turned down nor does it raise, but for an empty conversation_path.
LEMMA ForwardedFits ==
  ASSUME NEW r, Forwards(r), r.by \in {"gateway", "shim"}, r.unfit = {},
         "conversation_path" \notin r.empty
  PROVE  ~Misfits(r) /\ ~Raises(r)
  <1>1. CASE r.by = "gateway"
    <2>1. validateToolInput(r)
      BY <1>1 DEF Forwards
    <2>2. Agrees(r.tool, CONTRACTS[r.tool].required, CONTRACTS[r.tool].others,
                 CONTRACTS[r.tool].arrays)
      BY <2>1, ContractsAgree DEF validateToolInput
    <2> QED
      BY <2>1, <2>2 DEF validateToolInput, Agrees, Misfits, Raises
  <1>2. CASE r.by = "shim"
    <2>1. ShimAccepts(r)
      BY <1>2 DEF Forwards
    <2>2. Agrees(r.tool, ShimFunctions[r.tool], Optional(r.tool), {})
      BY <2>1, ShimAgrees DEF ShimAccepts
    <2>3. r.tool \in DOMAIN Filled => Filled[r.tool] = {"conversation_path"}
      BY <2>1 DEF ShimAccepts, ShimFunctions, Filled
    <2> QED
      BY <2>1, <2>2, <2>3 DEF ShimAccepts, Agrees, Optional, Misfits, Raises
  <1> QED
    BY <1>1, <1>2

\* A line that is not read yet was forwarded.
OnlyForwarded == \A c \in Call : line[c] = "unread" => Forwards(asked[c])

LEMMA OnlyForwardedStep ==
  ASSUME Inv, OnlyForwarded, [Next]_vars
  PROVE  OnlyForwarded'
  <1> USE DEF Inv
  <1>1. ASSUME NEW c \in Call, Make(c) PROVE OnlyForwarded'
    <2>1. PICK r \in Requests[c] :
            /\ Forwards(r)
            /\ Up => /\ asked' = [asked EXCEPT ![c] = r]
                     /\ line' = [line EXCEPT ![c] = "unread"]
            /\ ~Up => line' = [line EXCEPT ![c] = "done"] /\ asked' = asked
      BY <1>1 DEF Make
    <2>2. ASSUME NEW d \in Call, line'[d] = "unread" PROVE Forwards(asked'[d])
      <3>1. CASE d = c
        <4>1. asked'[d] = r
          BY <2>1, <2>2, <3>1
        <4> QED
          BY <2>1, <4>1
      <3>2. CASE d # c
        <4>1. line[d] = "unread" /\ asked'[d] = asked[d]
          BY <2>1, <2>2, <3>2
        <4>2. Forwards(asked[d])
          BY <4>1 DEF OnlyForwarded
        <4> QED
          BY <4>1, <4>2
      <3> QED
        BY <3>1, <3>2
    <2> QED
      BY <2>2 DEF OnlyForwarded
  <1>2. ASSUME \A d \in Call : line'[d] = "unread" => line[d] = "unread" /\ asked'[d] = asked[d]
        PROVE  OnlyForwarded'
    <2>1. ASSUME NEW d \in Call, line'[d] = "unread" PROVE Forwards(asked'[d])
      <3>1. line[d] = "unread" /\ asked'[d] = asked[d]
        BY <1>2, <2>1
      <3>2. Forwards(asked[d])
        BY <3>1 DEF OnlyForwarded
      <3> QED
        BY <3>1, <3>2
    <2> QED
      BY <2>1 DEF OnlyForwarded
  <1>3. ASSUME NEW p \in Process, ProcessStep(p) PROVE OnlyForwarded'
    BY <1>2, <1>3 DEF ProcessStep, LoseLines, bridgeVars, callVars
  <1>4. ASSUME NEW c \in Call, Decline(c) \/ Hear(c) \/ GiveUp(c) PROVE OnlyForwarded'
    BY <1>2, <1>4 DEF Decline, Hear, GiveUp
  <1>5. ASSUME NEW c \in Call, Read(c) PROVE OnlyForwarded'
    BY <1>2, <1>5 DEF Read
  <1>6. ASSUME NEW c \in Call, Finish(c) PROVE OnlyForwarded'
    BY <1>2, <1>6 DEF Finish
  <1>7. CASE Tick \/ UNCHANGED vars
    BY <1>2, <1>7 DEF Tick, vars, bridgeVars, callVars
  <1> QED
    BY <1>1, <1>3, <1>4, <1>5, <1>6, <1>7 DEF Next, CallerStep, ServerStep

\* One step: the verdict on what the gateway or the shim forwarded.
LEMMA Fitting ==
  ASSUME Inv, OnlyForwarded, NEW c \in Call, line[c] = "unread",
         by[c] \in {"gateway", "shim"}, asked[c].unfit = {}, asked[c].text # "long",
         "conversation_path" \notin asked[c].empty
  PROVE  Verdicts(c) \cap {"misfit", "closed"} = {}
  <1>1. asked[c] \in Requests[c] /\ asked[c].by = by[c] /\ Forwards(asked[c])
    BY DEF Inv, OnlyForwarded
  <1>2. asked[c].method = "tools.call"
    BY <1>1, FrontEndsCallTools
  <1>3. ~Misfits(asked[c]) /\ ~Raises(asked[c])
    BY <1>1, ForwardedFits
  <1> QED
    BY <1>2, <1>3 DEF Verdicts, Methods, AdminMethods

\* The tables of the programs agree: what the gateway or the shim forwards is not
\* turned down by call_mcp_tool and does not raise there, for every request with
\* values that can be converted, but for an empty conversation_path.
THEOREM ForwardedCallsFitCorrect == Spec => ForwardedCallsFit
  <1>1. Init => OnlyForwarded
    BY DEF Init, BridgeInit, OnlyForwarded
  <1>2. Inv /\ OnlyForwarded /\ [Next]_vars => OnlyForwarded'
    BY OnlyForwardedStep
  <1>3. ASSUME Inv, OnlyForwarded, [Next]_vars, NEW c \in Call, line[c] = "unread",
               by[c] \in {"gateway", "shim"}, asked[c].unfit = {},
               asked[c].text # "long", "conversation_path" \notin asked[c].empty
        PROVE  answer'[c] \notin {"misfit", "closed"}
    <2>1. answer[c] = "none"
      BY <1>3 DEF Inv
    <2>2. ASSUME NEW p \in Process, ProcessStep(p) PROVE answer'[c] \notin {"misfit", "closed"}
      BY <2>1, <2>2, <1>3 DEF ProcessStep, LoseLines, bridgeVars, callVars, Inv
    <2>3. ASSUME NEW d \in Call, CallerStep(d) PROVE answer'[c] \notin {"misfit", "closed"}
      BY <2>1, <2>3 DEF CallerStep, Decline, Make, Hear, GiveUp
    <2>4. ASSUME NEW d \in Call, Read(d) PROVE answer'[c] \notin {"misfit", "closed"}
      <3>1. CASE d = c
        BY <2>1, <2>4, <3>1, <1>3, Fitting DEF Read, Inv
      <3>2. CASE d # c
        BY <2>1, <2>4, <3>2, <1>3 DEF Read, Inv
      <3> QED
        BY <3>1, <3>2
    <2>5. ASSUME NEW d \in Call, Finish(d) PROVE answer'[c] \notin {"misfit", "closed"}
      BY <2>1, <2>5, <1>3 DEF Finish, Inv
    <2>6. CASE Tick \/ UNCHANGED vars
      BY <2>1, <2>6 DEF Tick, vars, bridgeVars, callVars
    <2> QED
      BY <1>3, <2>2, <2>3, <2>4, <2>5, <2>6 DEF Next, ServerStep
  <1>4. Inv /\ OnlyForwarded /\ [Next]_vars =>
          [\A c \in Call :
             (/\ line[c] = "unread"
              /\ by[c] \in {"gateway", "shim"}
              /\ asked[c].unfit = {} /\ asked[c].text # "long"
              /\ "conversation_path" \notin asked[c].empty)
                 => answer'[c] \notin {"misfit", "closed"}]_vars
    BY <1>3
  <1> QED
    BY <1>1, <1>2, <1>4, InvCorrect, PTL DEF Spec, ForwardedCallsFit

=============================================================================
