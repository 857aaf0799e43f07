--------------------------- MODULE ActivePartition ---------------------------
(***************************************************************************)
(* The active partition: which project memory is written to and searched   *)
(* in (active_partition/).  ActivePartitionService is called by tools, for *)
(* a switch by hand, and by the thread of ActivePartitionWatcher, which    *)
(* polls the conversation files of LM Studio.  A switch is three commits   *)
(* on queue.db: the project, the active row of the one client, the event.  *)
(* A project stands for its id and for its scope hash, which is the hash   *)
(* of the id.                                                              *)
(***************************************************************************)
EXTENDS Naturals

CONSTANTS
    Caller,     \* processes that call tools, one call at a time
    Watcher,    \* the thread of the watcher
    Project,
    Conv,       \* paths of *.conversation.json below the root, symlinks resolved
    FolderOf,   \* the project of the folder of a path
    NoFolder,   \* of a path in the root itself
    Outside,    \* paths that resolve to a file outside the root
    Nil,
    Budgets     \* bounds: how many edits, switches, saves, searches and faults there are

ASSUME PartitionConstantsOK ==
    /\ FolderOf \in [Conv -> Project \cup {NoFolder}]
    /\ Outside \subseteq Conv
    /\ Watcher \notin Caller /\ NoFolder \notin Project
    /\ Nil \notin Project \cup Conv
    /\ Budgets \subseteq
         [edits: Nat, switches: Nat, saves: Nat, searches: Nat, faults: Nat]

Switcher == Caller \cup {Watcher}

VARIABLES
    mtime,      \* st_mtime_ns of the conversation files, 0: there is none
    \* queue.db
    projects,   \* memory_projects
    active,     \* the row of active_partitions
    events,     \* conversation_events: which project, by whom
    \* the calls
    pc,
    project,    \* the project of the call
    conv,       \* the conversation of a switch, or Nil
    \* the watcher
    stat,       \* the mtime it saw last
    lastApplied,\* _last_applied_path and _last_applied_mtime_ns
    budget      \* what is left of the bounds

callVars == <<project, conv>>
watchVars == <<stat, lastApplied>>
partitionVars == <<mtime, projects, active, events, pc, callVars, watchVars, budget>>

Bound(b) == budget[b] > 0 /\ budget' = [budget EXCEPT ![b] = @ - 1]

Source == {"manual_override", "lmstudio_conversation_watcher"}
Seen == [path: Conv, mtime: Nat]

PartitionLabel == {"idle", "settle", "stat", "project", "active", "event"}

PartitionTypeOK ==
    /\ mtime \in [Conv -> Nat]
    /\ projects \subseteq Project
    /\ active \in [project: Project, conv: Conv \cup {Nil}, source: Source] \cup {Nil}
    /\ events \subseteq [project: Project, session: Conv \cup Project]
    /\ project \in [Switcher -> Project \cup {Nil}]
    /\ conv \in [Switcher -> Conv \cup {Nil}]
    /\ stat \in Nat
    /\ lastApplied \in Seen \cup {Nil}
    /\ budget \in [edits: Nat, switches: Nat, saves: Nat, searches: Nat, faults: Nat]

PartitionInit ==
    /\ mtime = [c \in Conv |-> 0]
    /\ projects = {}
    /\ active = Nil
    /\ events = {}
    /\ pc = [x \in Switcher |-> "idle"]
    /\ project = [x \in Switcher |-> Nil]
    /\ conv = [x \in Switcher |-> Nil]
    /\ stat = 0
    /\ lastApplied = Nil
    /\ budget \in Budgets

Goto(x, label) == pc' = [pc EXCEPT ![x] = label]

\* The call of x is over.
Return(x) ==
    /\ Goto(x, "idle")
    /\ project' = [project EXCEPT ![x] = Nil]
    /\ conv' = [conv EXCEPT ![x] = Nil]

-----------------------------------------------------------------------------
(* PartitionMapper. *)

MapStatus(c) ==
    IF c \in Outside THEN "POLICY_BLOCK"
    ELSE IF FolderOf[c] = NoFolder THEN "NEEDS_PROJECT_FOLDER"
    ELSE "MAPPED"

-----------------------------------------------------------------------------
(* ActivePartitionService: the rows of a switch, one commit each.          *)

SourceOf(x) == IF x = Watcher THEN "lmstudio_conversation_watcher" ELSE "manual_override"

\* set_active_project: any name makes a project.
BeginSwitch(x, p) ==
    /\ pc[x] = "idle" /\ x \in Caller
    /\ Bound("switches")
    /\ project' = [project EXCEPT ![x] = p]
    /\ Goto(x, "project")
    /\ UNCHANGED <<mtime, projects, active, events, conv, watchVars>>

\* set_active_from_conversation_path as a tool: the file need not exist.
BeginConversationSwitch(x, c) ==
    /\ pc[x] = "idle" /\ x \in Caller
    /\ MapStatus(c) = "MAPPED"
    /\ Bound("switches")
    /\ project' = [project EXCEPT ![x] = FolderOf[c]]
    /\ conv' = [conv EXCEPT ![x] = c]
    /\ Goto(x, "project")
    /\ UNCHANGED <<mtime, projects, active, events, watchVars>>

\* Mutant of UpsertMemoryProject: the active row is written first.
UpsertMemoryProjectLater(x) ==
    /\ pc[x] = "project"
    /\ active' = [project |-> project[x], conv |-> conv[x], source |-> SourceOf(x)]
    /\ Goto(x, "active")
    /\ UNCHANGED <<mtime, projects, events, callVars, watchVars, budget>>

UpsertMemoryProject(x) ==
    /\ pc[x] = "project"
    /\ projects' = projects \cup {project[x]}
    /\ Goto(x, "active")
    /\ UNCHANGED <<mtime, active, events, callVars, watchVars, budget>>

SetActivePartition(x) ==
    /\ pc[x] = "active"
    /\ active' = [project |-> project[x], conv |-> conv[x], source |-> SourceOf(x)]
    /\ Goto(x, "event")
    /\ UNCHANGED <<mtime, projects, events, callVars, stat, lastApplied, budget>>

\* What the switch answers: the fields of ActivePartition.to_dict.
Answer(x) ==
    [client_id |-> "local-lmstudio", active_project_id |-> project[x],
     active_project_scope_hash |-> project[x], active_conversation_id |-> conv[x],
     conversation_path |-> conv[x], confidence |-> "high",
     source_event |-> SourceOf(x)]

\* handle_conversation_path takes an answer for a success if it says so.
SaysOk(payload) ==
    LET has(k) == k \in DOMAIN payload
        status == IF has("status") THEN payload["status"]
                  ELSE IF has("ok") /\ payload["ok"] THEN "OK" ELSE "ERROR"
    IN  IF has("ok") THEN payload["ok"] ELSE status \in {"OK", "MAPPED"}

\* The last commit, after which the watcher remembers what it applied.
RecordConversationEvent(x) ==
    /\ pc[x] = "event"
    /\ events' = events \cup {[project |-> project[x],
                               session |-> IF conv[x] = Nil THEN project[x] ELSE conv[x]]}
    /\ lastApplied' = IF x = Watcher /\ SaysOk(Answer(x))
                      THEN [path |-> conv[x], mtime |-> stat] ELSE lastApplied
    /\ Return(x)
    /\ UNCHANGED <<mtime, projects, active, stat, budget>>

-----------------------------------------------------------------------------
(* ActivePartitionWatcher. *)

\* _newest_conversation_file; two files never have the same time here.
Newest == {c \in Conv : mtime[c] > 0 /\ \A d \in Conv : mtime[d] <= mtime[c]}

\* poll_once: the newest file, if it is below the root, and its first stat.
Poll ==
    /\ pc[Watcher] = "idle"
    /\ \E c \in Newest :
        /\ c \notin Outside
        /\ conv' = [conv EXCEPT ![Watcher] = c]
        /\ stat' = mtime[c]
    /\ Goto(Watcher, "settle")
    /\ UNCHANGED <<mtime, projects, active, events, project, lastApplied, budget>>

WatcherReturns == Return(Watcher) /\ stat' = 0

\* _is_settled: the second stat, settle_ms later.
Settle ==
    /\ pc[Watcher] = "settle"
    /\ IF mtime[conv[Watcher]] = stat
       THEN Goto(Watcher, "stat") /\ UNCHANGED <<callVars, stat>>
       ELSE WatcherReturns
    /\ UNCHANGED <<mtime, projects, active, events, lastApplied, budget>>

\* The third stat, which is compared with what was applied last.  A root-level
\* conversation makes the service raise: nothing is applied.
Stat ==
    /\ pc[Watcher] = "stat"
    /\ LET c == conv[Watcher] IN
       IF \/ mtime[c] = 0
          \/ lastApplied = [path |-> c, mtime |-> mtime[c]]
          \/ MapStatus(c) # "MAPPED"
       THEN WatcherReturns
       ELSE /\ stat' = mtime[c]
            /\ project' = [project EXCEPT ![Watcher] = FolderOf[c]]
            /\ Goto(Watcher, "project")
            /\ UNCHANGED conv
    /\ UNCHANGED <<mtime, projects, active, events, lastApplied, budget>>

-----------------------------------------------------------------------------
\* LM Studio writes, creates or deletes a conversation.
EditConversation(c, written) ==
    /\ Bound("edits")
    /\ written \/ mtime[c] > 0
    /\ mtime' = [mtime EXCEPT ![c] =
                   IF written THEN 1 + CHOOSE m \in {mtime[d] : d \in Conv} :
                                           \A d \in Conv : mtime[d] <= m
                   ELSE 0]
    /\ UNCHANGED <<projects, active, events, pc, callVars, watchVars>>

\* Mutant of SwitchFails: what a poll raises ends the thread.
SwitchFailsForGood(x) ==
    /\ Bound("faults")
    /\ pc[x] \in {"project", "active", "event"} \/ (x = Watcher /\ pc[x] # "idle")
    /\ project' = [project EXCEPT ![x] = Nil]
    /\ conv' = [conv EXCEPT ![x] = Nil]
    /\ Goto(x, IF x = Watcher THEN "stopped" ELSE "idle")
    /\ UNCHANGED <<mtime, projects, active, events, watchVars>>

\* A commit fails, or the process dies; the watcher outlives the first.
SwitchFails(x) ==
    /\ Bound("faults")
    /\ pc[x] \in {"project", "active", "event"} \/ (x = Watcher /\ pc[x] # "idle")
    /\ Return(x)
    /\ IF x = Watcher
       THEN stat' = 0 /\ lastApplied' \in {lastApplied, Nil}
       ELSE UNCHANGED watchVars
    /\ UNCHANGED <<mtime, projects, active, events>>

SwitchStep(x) == UpsertMemoryProject(x) \/ SetActivePartition(x) \/ RecordConversationEvent(x)

WatcherStep == Poll \/ Settle \/ Stat \/ SwitchStep(Watcher)

PartitionNext ==
    \/ \E x \in Caller :
        \/ \E p \in Project : BeginSwitch(x, p)
        \/ \E c \in Conv : BeginConversationSwitch(x, c)
        \/ SwitchStep(x)
    \/ WatcherStep
    \/ \E x \in Switcher : SwitchFails(x)
    \/ \E c \in Conv, written \in BOOLEAN : EditConversation(c, written)

\* The thread of the watcher polls until it is stopped, whatever a poll raised.
PartitionFairness == WF_partitionVars(WatcherStep)

-----------------------------------------------------------------------------
(* Properties. *)

\* Memory is only ever written under, and events only name, a project that
\* list_memory_projects knows, wherever a switch failed or two overlapped
\* (service.py 63-75, 102-114).
ActiveIsKnown ==
    /\ active # Nil => active.project \in projects
    /\ \A e \in events : e.project \in projects

\* The newest conversation, if it has a folder, is the active one in the end,
\* unless another becomes the newest: neither a poll that found it unstable or
\* failed, nor a switch by hand in between, makes the watcher miss it
\* (watcher.py 63-114).
NewestIsApplied ==
    \A c \in Conv :
        (c \in Newest /\ MapStatus(c) = "MAPPED")
            ~> (c \notin Newest \/ (active # Nil /\ active.conv = c))
=============================================================================
