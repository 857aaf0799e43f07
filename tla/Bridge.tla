------------------------------- MODULE Bridge -------------------------------
(***************************************************************************)
(* The TCP bridge of the daemon (bridge_server.py) with the four programs  *)
(* that call it: the Node gateway (bridge.mjs, server.mjs), the FastMCP    *)
(* shim, the client of the workflow runner (bridge_client.py) and scripts. *)
(* A call is one connection with one line and one answer; nobody repeats   *)
(* one.  Handlers are plain functions on the event loop of the daemon, so  *)
(* one call runs at a time, and a caller that stops waiting does not take  *)
(* its line back.                                                          *)
(***************************************************************************)
EXTENDS FiniteSets, Startup, Tools

CONSTANTS
    Call,           \* the connections made
    Daemon,         \* the process that serves, a member of Process
    Requests,       \* what each of them may ask
    Secrets,        \* what ALETHEIA_BRIDGE_SECRET of the daemon may be, or Nil
    Holds,          \* what it is for each program that calls
    AdminBridge,    \* ALETHEIA_ENABLE_ADMIN_BRIDGE
    Unconfigured,   \* tools whose component build_runtime was not given
    Patience,       \* how long each program waits, and
    Tolerance,      \* timestamp_tolerance_seconds, both in ticks
    NonceLimit,     \* the size at which the cache of nonces is emptied
    Nil

ASSUME BridgeAssumption ==
    /\ Daemon \in Process
    /\ NonceLimit \in Nat \ {0}
    /\ Tolerance \in Nat
    /\ \A program \in DOMAIN Patience : Patience[program] \in 1..Tolerance
    /\ \A c \in Call : \A r \in Requests[c] : r.by \in DOMAIN Patience

\* The front ends have no other method (bridge.mjs:11, the shim's call_tool,
\* bridge_client.py:31); a script sends what it likes.
ASSUME FrontEndsCallTools ==
    \A c \in Call : \A r \in Requests[c] : r.by # "script" => r.method = "tools.call"

AdminMethods == {"daemon.health", "daemon.reconcile_project", "daemon.dead_letters"}
Methods      == {"tools.call"} \cup AdminMethods

VARIABLES
    by,         \* the program that makes each call, Nil before it is made
    asked,      \* the request, while the daemon has not read it
    age,        \* ticks since the call was made
    line,       \* where its line is: "none", "unread", "running" or "done"
    answer,     \* what has come back on the connection
    waits,      \* the caller is waiting on the connection
    told,       \* what the caller was told in the end
    begun,      \* how often the component of the tool was called
    nonces,     \* nonce_cache
    secret      \* bridge_shared_secret of the daemon, the same after each restart

callVars   == <<by, asked, age, line, answer, waits, told, begun>>
bridgeVars == <<callVars, nonces, secret>>

Running == {c \in Call : line[c] = "running"}
Up      == stage[Daemon] = "up"

BridgeInit ==
    /\ by = [c \in Call |-> Nil]
    /\ asked = [c \in Call |-> Nil]
    /\ age = [c \in Call |-> 0]
    /\ line = [c \in Call |-> "none"]
    /\ answer = [c \in Call |-> "none"]
    /\ waits = [c \in Call |-> FALSE]
    /\ told = [c \in Call |-> "nothing"]
    /\ begun = [c \in Call |-> 0]
    /\ nonces = {}
    /\ secret \in Secrets

-----------------------------------------------------------------------------
(* The callers. *)

\* Each front end looks at a call before it forwards it; a script does not.
Forwards(r) ==
    CASE r.by = "gateway" -> validateToolInput(r)
      [] r.by = "shim"    -> ShimAccepts(r)
      [] r.by = "runner"  -> validate_tool(r)
      [] r.by = "script"  -> TRUE

\* Mutant of Tells: a call that is lost counts as refused.
TellsRefused(program, what) ==
    IF what = "result" THEN "result"
    ELSE IF what \in {"failure", "misfit"} THEN "failure"
    ELSE IF program = "gateway" THEN "silence"
    ELSE "refused"

\* What a caller is told of an answer.  To a JSON-RPC error, a broken
\* connection or the end of its patience the Node client says a rejection,
\* which serveStdio writes to stderr: the host of the gateway gets no response.
\* The Python clients return an error payload.  Of a call that is turned down
\* for its arguments it is told what it is told of a tool that fails.
Tells(program, what) ==
    IF what = "result" THEN "result"
    ELSE IF what \in {"failure", "misfit"} THEN "failure"
    ELSE IF program = "gateway" THEN "silence"
    ELSE IF what \in {"unauthorized", "disabled"} THEN "refused"
    ELSE "error"

\* A client signs the text of its request as it would write it, and the daemon
\* writes what it has read again to compare.  Python escapes every letter
\* outside ASCII, and Node does not; Python writes 1e-05 and 1e-07 where Node
\* writes 0.00001 and 1e-7, as for each number below 0.0001 ("fraction").
Signs(r) == Holds[r.by] # Nil
SignatureMatches(r) ==
    /\ Holds[r.by] = secret
    /\ r.by = "gateway" => r.text \notin {"accented", "fraction"}

\* A call that is turned down at once.
Decline(c) ==
    /\ line[c] = "none"
    /\ told[c] = "nothing"
    /\ \E r \in Requests[c] : ~Forwards(r)
    /\ told' = [told EXCEPT ![c] = "invalid"]
    /\ UNCHANGED <<startVars, by, asked, age, line, answer, waits, begun, nonces, secret>>

\* A connection is made and the line is sent; without a daemon that listens,
\* there is no connection.
Make(c) ==
    /\ line[c] = "none"
    /\ told[c] = "nothing"
    /\ \E r \in Requests[c] :
        /\ Forwards(r)
        /\ IF Up
             THEN /\ by' = [by EXCEPT ![c] = r.by]
                  /\ asked' = [asked EXCEPT ![c] = r]
                  /\ line' = [line EXCEPT ![c] = "unread"]
                  /\ waits' = [waits EXCEPT ![c] = TRUE]
                  /\ UNCHANGED told
             ELSE /\ told' = [told EXCEPT ![c] = Tells(r.by, "reset")]
                  /\ line' = [line EXCEPT ![c] = "done"]
                  /\ UNCHANGED <<by, asked, waits>>
    /\ UNCHANGED <<startVars, age, answer, begun, nonces, secret>>

\* The answer arrives.  The Node client has no handler for the end of a
\* connection without an answer, only for an error on it.
Hear(c) ==
    /\ waits[c]
    /\ answer[c] # "none"
    /\ by[c] = "gateway" => answer[c] # "closed"
    /\ waits' = [waits EXCEPT ![c] = FALSE]
    /\ told' = [told EXCEPT ![c] = Tells(by[c], answer[c])]
    /\ UNCHANGED <<startVars, by, asked, age, line, answer, begun, nonces, secret>>

\* Mutant of GiveUp: the Python clients set no timeout.
GiveUpOnlyNode(c) ==
    /\ waits[c]
    /\ by[c] = "gateway"
    /\ age[c] >= Patience[by[c]]
    /\ waits' = [waits EXCEPT ![c] = FALSE]
    /\ told' = [told EXCEPT ![c] = Tells(by[c], "timeout")]
    /\ UNCHANGED <<startVars, by, asked, age, line, answer, begun, nonces, secret>>

\* socket.settimeout, or the timer of sendJsonRpcLine.
GiveUp(c) ==
    /\ waits[c]
    /\ age[c] >= Patience[by[c]]
    /\ waits' = [waits EXCEPT ![c] = FALSE]
    /\ told' = [told EXCEPT ![c] = Tells(by[c], "timeout")]
    /\ UNCHANGED <<startVars, by, asked, age, line, answer, begun, nonces, secret>>

\* Time passes, but no caller waits beyond its patience; beyond the tolerance
\* all ages are the same.
Aging(c) == (waits[c] \/ line[c] = "unread") /\ age[c] <= Tolerance
Tick ==
    /\ \E c \in Call : Aging(c)
    /\ \A c \in Call : waits[c] => age[c] < Patience[by[c]]
    /\ age' = [c \in Call |-> IF Aging(c) THEN age[c] + 1 ELSE age[c]]
    /\ UNCHANGED <<startVars, by, asked, line, answer, waits, told, begun, nonces, secret>>

-----------------------------------------------------------------------------
(* The daemon. *)

\* Mutant of Authorized: the tolerance is exclusive.
AuthorizedBefore(c) ==
    \/ secret = Nil
    \/ /\ Signs(asked[c])
       /\ c \notin nonces
       /\ age[c] < Tolerance
       /\ SignatureMatches(asked[c])

\* _authorized.  A call has a nonce of its own.
Authorized(c) ==
    \/ secret = Nil
    \/ /\ Signs(asked[c])
       /\ c \notin nonces
       /\ age[c] <= Tolerance
       /\ SignatureMatches(asked[c])

Remembered(c) ==
    IF secret = Nil THEN nonces
    ELSE (IF Cardinality(nonces) >= NonceLimit THEN {} ELSE nonces) \cup {c}

\* handle_json_rpc: how the line is answered without a component being called,
\* or "begin".
Verdicts(c) ==
    LET r == asked[c]
    IN
    IF r.text = "long" THEN {"closed"}
    ELSE IF r.method \notin Methods THEN {"disabled"}
    ELSE IF r.method \in AdminMethods /\ (~AdminBridge \/ secret = Nil) THEN {"disabled"}
    ELSE IF ~Authorized(c) THEN {"unauthorized"}
    ELSE IF r.method \in AdminMethods THEN
        IF r.method = "daemon.reconcile_project" /\ "project_id" \notin r.given \ r.unfit
          THEN {"misfit"}
        ELSE IF r.method = "daemon.dead_letters" /\ "limit" \in r.unfit
          THEN {"closed"} ELSE {"begin"}
    ELSE IF Misfits(r) THEN {"misfit"}
    ELSE IF r.tool \in Unconfigured THEN {"failure"}
    ELSE IF Raises(r) THEN Raised(r)
    ELSE {"begin"}

\* handle_client reads a line and handles it.  readline allows 64 KiB and
\* raises for more, so the answer "Request too large" is never given.
Read(c) ==
    /\ Up
    /\ line[c] = "unread"
    /\ Running = {}
    /\ \E v \in Verdicts(c) :
        IF v = "begin"
          THEN /\ line' = [line EXCEPT ![c] = "running"]
               /\ begun' = [begun EXCEPT ![c] = @ + 1]
               /\ UNCHANGED answer
          ELSE /\ line' = [line EXCEPT ![c] = "done"]
               /\ answer' = [answer EXCEPT ![c] = v]
               /\ UNCHANGED begun
    /\ nonces' = IF Verdicts(c) \cap {"disabled", "unauthorized"} = {} /\ asked[c].text # "long"
                   THEN Remembered(c) ELSE nonces
    /\ asked' = [asked EXCEPT ![c] = Nil]
    /\ UNCHANGED <<startVars, by, age, waits, told, secret>>

\* The component returns, or raises something that is neither a KeyError nor a
\* ValueError: the connection is then closed without an answer.
Finish(c) ==
    /\ line[c] = "running"
    /\ line' = [line EXCEPT ![c] = "done"]
    /\ \E a \in {"result", "failure", "closed"} : answer' = [answer EXCEPT ![c] = a]
    /\ UNCHANGED <<startVars, by, asked, age, waits, told, begun, nonces, secret>>

\* Mutant of LoseLines: lines outlive the daemon.
LoseAnswers ==
    /\ answer' = [c \in Call |-> IF line[c] \in {"unread", "running"} THEN "reset" ELSE answer[c]]
    /\ asked' = [c \in Call |-> Nil]
    /\ nonces' = {}
    /\ UNCHANGED <<line, by, age, waits, told, begun, secret>>

\* When the daemon dies, lines and answers that were not read are lost, and the
\* connections are reset.
LoseLines ==
    /\ line' = [c \in Call |-> IF line[c] \in {"unread", "running"} THEN "done" ELSE line[c]]
    /\ answer' = [c \in Call |-> IF line[c] \in {"unread", "running"} THEN "reset" ELSE answer[c]]
    /\ asked' = [c \in Call |-> Nil]
    /\ nonces' = {}
    /\ UNCHANGED <<by, age, waits, told, begun, secret>>

-----------------------------------------------------------------------------

Init == StartupInit /\ BridgeInit

\* A step of a process that starts or dies.
ProcessStep(p) ==
    /\ StartupStep(p)
    /\ IF p = Daemon /\ Up THEN LoseLines ELSE UNCHANGED bridgeVars

CallerStep(c) == Decline(c) \/ Make(c) \/ Hear(c) \/ GiveUp(c)
ServerStep(c) == Read(c) \/ Finish(c)

Next ==
    \/ \E p \in Process : ProcessStep(p)
    \/ \E c \in Call : CallerStep(c) \/ ServerStep(c)
    \/ Tick

vars == <<startVars, bridgeVars>>

Spec == Init /\ [][Next]_vars

\* Time passes, and a caller takes what it is given.  Of the daemon nothing is
\* assumed: it may stay down, or sit in a handler for ever.
Fairness ==
    /\ WF_vars(Tick)
    /\ \A c \in Call : WF_vars(Hear(c) \/ GiveUp(c))

FairSpec == Spec /\ Fairness

-----------------------------------------------------------------------------

TypeOK ==
    /\ StartupTypeOK
    /\ by \in [Call -> DOMAIN Patience \cup {Nil}]
    /\ \A c \in Call : IF line[c] = "unread" THEN asked[c] \in Requests[c] ELSE asked[c] = Nil
    /\ age \in [Call -> 0..Tolerance + 1]
    /\ line \in [Call -> {"none", "unread", "running", "done"}]
    /\ answer \in [Call -> {"none", "result", "failure", "misfit", "unauthorized",
                            "disabled", "closed", "reset"}]
    /\ waits \in [Call -> BOOLEAN]
    /\ told \in [Call -> {"nothing", "result", "failure", "invalid",
                          "refused", "error", "silence"}]
    /\ begun \in [Call -> 0..1]
    /\ nonces \subseteq Call
    /\ secret \in Secrets

\* What a caller is told holds for good, although answers are lost and lines
\* are handled after their caller has gone: a result says that the tool was
\* called, once, and a refusal that it was not and will not be.
AnswersAreTrue ==
    \A c \in Call :
        /\ told[c] = "result" => begun[c] = 1
        /\ told[c] \in {"refused", "invalid"} =>
              begun[c] = 0 /\ line[c] \in {"none", "done"}

\* A caller with the secret of the daemon is not refused: whoever still waits
\* is inside the tolerance, after a restart and with any cache of nonces too.  Of
\* the gateway this is true as long as Node and Python write its request alike:
\* with a letter outside ASCII or a number below 0.0001 in it, it is refused.
KeyHoldersAreAdmitted ==
    [][\A c \in Call :
        (/\ waits[c] /\ line[c] = "unread"
         /\ Holds[by[c]] = secret
         /\ by[c] = "gateway" => asked[c].text = "plain")
            => answer'[c] # "unauthorized"]_vars

\* The tables agree: what the gateway or the shim forwards, with values of the
\* declared types or such as can be converted, is neither turned down by
\* call_mcp_tool for its arguments nor does it raise there.  The one exception
\* is the empty conversation_path, which the shim forwards.
ForwardedCallsFit ==
    [][\A c \in Call :
        (/\ line[c] = "unread"
         /\ by[c] \in {"gateway", "shim"}
         /\ asked[c].unfit = {} /\ asked[c].text # "long"
         /\ "conversation_path" \notin asked[c].empty)
            => answer'[c] \notin {"misfit", "closed"}]_vars

\* Every caller is released, whatever the daemon does: by an answer, by the
\* end of the connection or by its own timer.
CallersAreReleased == \A c \in Call : waits[c] ~> ~waits[c]
=============================================================================
