---------------------------- MODULE IngestProofs ----------------------------
(***************************************************************************)
(* Theorems about Ingest for any number of processes, targets, files,      *)
(* contents, calls and edits.                                              *)
(*                                                                         *)
(* The four action properties speak of the end of a call that was alone.   *)
(* AloneInv is what such a call has established at each of its labels:     *)
(* that nobody else is in a call, that the latest run is its own, that     *)
(* what is left of the stale paths is in its hands, and that the files it  *)
(* has behind it are recorded, and under force also repaired, whatever the *)
(* stores held when it began.                                              *)
(***************************************************************************)
EXTENDS Ingest, TLAPS

AtFile    == {"compare", "dropRows", "dropVectors", "process", "recordManifest", "recordRows",
              "upsert"}
AtStale   == {"findStale", "stale", "staleVectors"}
Ingesting == AtFile \cup AtStale \cup {"next", "catch", "markFailed"}

\* What is in the hands of a call, by its label.
CallTyped(x) ==
    /\ pc[x] \in Ingesting => target[x] \in Target
    /\ pc[x] \in AtFile => file[x] \in Path /\ seen[x] \in Content
    /\ pc[x] \notin AtFile \cup {"staleVectors"} => file[x] = Nil

Typed == IngestTypeOK /\ \A x \in Proc : CallTyped(x)

-----------------------------------------------------------------------------
(* Types. *)

\* The calls of all others are where they were.
OthersStay(x) ==
    \A y \in Proc \ {x} :
        pc'[y] = pc[y] /\ target'[y] = target[y] /\ file'[y] = file[y] /\ seen'[y] = seen[y]

CallsTyped ==
    /\ pc \in [Proc -> Label]
    /\ target \in [Proc -> Target \cup {Nil}]
    /\ force \in [Proc -> BOOLEAN]
    /\ todo \in [Proc -> SUBSET Path] /\ stale \in [Proc -> SUBSET Path]
    /\ file \in [Proc -> Path \cup {Nil}]
    /\ seen \in [Proc -> Content \cup {Nil}]
    /\ batch \in [Proc -> SUBSET Chunk]
    /\ quiet \in [Proc -> BOOLEAN]

StoresTyped ==
    /\ disk \in [Path -> Content \cup {Absent}]
    /\ manifest \in [Path -> Content \cup {Nil}]
    /\ rows \in [Chunk -> Target \cup {Nil}]
    /\ runState \in [Target -> RunState]
    /\ latest \in Target \cup {Nil}
    /\ vectors \subseteq Chunk
    /\ calls \in 0 .. MaxCalls /\ edits \in 0 .. MaxEdits

LEMMA TypedParts == IngestTypeOK <=> CallsTyped /\ StoresTyped
  BY DEF IngestTypeOK, CallsTyped, StoresTyped

LEMMA CallsStayTyped ==
  ASSUME Typed, NEW x \in Proc, OthersStay(x), CallTyped(x)', CallsTyped', StoresTyped'
  PROVE  Typed'
  BY TypedParts DEF Typed, OthersStay, CallTyped, IngestTypeOK, CallsTyped, StoresTyped

\* The ways a call goes on or ends.
LEMMA ReturnTyped ==
  ASSUME Typed, NEW x \in Proc, Return(x)
  PROVE  OthersStay(x) /\ CallTyped(x)' /\ CallsTyped' /\ pc'[x] = "idle"
  BY DEF Typed, IngestTypeOK, Return, Goto, OthersStay, CallTyped, CallsTyped, Label, Ingesting,
     AtFile, AtStale

LEMMA NextFileTyped ==
  ASSUME Typed, NEW x \in Proc, pc[x] \in AtFile, NextFile(x), UNCHANGED todo
  PROVE  OthersStay(x) /\ CallTyped(x)' /\ CallsTyped'
         /\ pc'[x] = "next" /\ file'[x] = Nil /\ quiet' = quiet /\ target' = target /\ force' = force
  BY DEF Typed, IngestTypeOK, NextFile, Goto, OthersStay, CallTyped, CallsTyped, Label, Ingesting,
     AtFile, AtStale

LEMMA AbandonTyped ==
  ASSUME Typed, NEW x \in Proc, pc[x] \in Ingesting, Abandon(x)
  PROVE  OthersStay(x) /\ CallTyped(x)' /\ CallsTyped'
         /\ pc'[x] = "catch" /\ quiet' = quiet /\ target' = target
  BY DEF Typed, IngestTypeOK, Abandon, Goto, OthersStay, CallTyped, CallsTyped, Label, Ingesting,
     AtFile, AtStale

LEMMA AdvanceTyped ==
  ASSUME Typed, NEW x \in Proc, NEW from \in Label, NEW to \in Label, Advance(x, from, to),
         \/ from \in AtFile /\ to \in AtFile
         \/ from = "catch" /\ to = "markFailed"
         \/ from \notin Ingesting /\ to \notin Ingesting
  PROVE  OthersStay(x) /\ CallTyped(x)' /\ CallsTyped' /\ pc'[x] = to
  BY DEF Typed, IngestTypeOK, Advance, Goto, OthersStay, CallTyped, CallsTyped, Ingesting, AtFile,
     AtStale

\* What a reading of a file gives is chunks of the file.
LEMMA ExpectedTyped ==
  ASSUME Typed, NEW f \in Path
  PROVE  Expected(f) \subseteq ChunksOf(f) /\ ChunksOf(f) \subseteq Chunk
  <1>1. disk[f] # Absent => Pieces[disk[f]] \subseteq Piece
    BY IngestConstantsOK DEF Typed, IngestTypeOK
  <1> QED
    BY <1>1 DEF Expected, ChunksOf, Chunk

\* A call begins, of either kind.
LEMMA BeginTyped ==
  ASSUME Typed, NEW x \in Proc,
         \/ BeginRebuild(x)
         \/ \E t \in Target, forced \in BOOLEAN : BeginIngest(x, t, forced)
  PROVE  Typed'
  <1>1. /\ calls' \in 0 .. MaxCalls /\ edits' \in 0 .. MaxEdits
        /\ quiet' \in [Proc -> BOOLEAN] /\ pc[x] = "idle"
    <2>1. BeginCall(x)
      BY DEF BeginRebuild, BeginIngest
    <2>2. quiet' \in [Proc -> BOOLEAN]
      <3> DEFINE others == {y \in Proc : pc[y] # "idle"}
      <3>1. quiet' = [y \in Proc |-> IF y = x THEN others = {} ELSE quiet[y] /\ y \notin others]
        BY <2>1 DEF BeginCall
      <3> HIDE DEF others
      <3>2. \A y \in Proc : (IF y = x THEN others = {} ELSE quiet[y] /\ y \notin others) \in BOOLEAN
        OBVIOUS
      <3> QED
        BY <3>1, <3>2
    <2> QED
      BY <2>1, <2>2, IngestConstantsOK DEF BeginCall, Typed, IngestTypeOK
  <1>2. CASE BeginRebuild(x)
    <2>1. OthersStay(x) /\ CallTyped(x)' /\ CallsTyped'
      BY <1>1, <1>2 DEF BeginRebuild, Goto, Typed, IngestTypeOK, OthersStay, CallTyped, CallsTyped,
         Label, Ingesting, AtFile, AtStale, OfFailedRuns, Stored
    <2>2. StoresTyped'
      BY <1>1, <1>2 DEF BeginRebuild, dbVars, Typed, IngestTypeOK, StoresTyped
    <2> QED
      BY <2>1, <2>2, CallsStayTyped
  <1>3. CASE \E t \in Target, forced \in BOOLEAN : BeginIngest(x, t, forced)
    <2>1. PICK t \in Target, forced \in BOOLEAN : BeginIngest(x, t, forced)
      BY <1>3
    <2>2. Found(t) \subseteq Path
      BY IngestConstantsOK DEF Found
    <2>3. PICK l \in {"findStale", "next"} : pc' = [pc EXCEPT ![x] = l]
      BY <2>1 DEF BeginIngest, Goto
    <2>4. OthersStay(x) /\ CallTyped(x)'
      BY <1>1, <2>1, <2>3 DEF BeginIngest, Typed, IngestTypeOK, OthersStay, CallTyped, Label,
         Ingesting, AtFile, AtStale
    <2>5. CallsTyped'
      BY <1>1, <2>1, <2>2, <2>3 DEF BeginIngest, Typed, IngestTypeOK, CallsTyped, Label
    <2>6. StoresTyped'
      BY <1>1, <2>1 DEF BeginIngest, Typed, IngestTypeOK, StoresTyped, RunState
    <2> QED
      BY <2>4, <2>5, <2>6, CallsStayTyped
  <1> QED
    BY <1>2, <1>3

\* The steps that write no store, and the ones of a file.
LEMMA StepTyped ==
  ASSUME Typed, NEW x \in Proc, Step(x)
  PROVE  Typed'
  <1> DEFINE Calls == OthersStay(x) /\ CallTyped(x)' /\ CallsTyped'
  <1>1. CASE BeginRebuild(x) \/ \E t \in Target, forced \in BOOLEAN : BeginIngest(x, t, forced)
    BY <1>1, BeginTyped
  <1>2. CASE FindStale(x)
    <2>1. Calls
      BY <1>2 DEF FindStale, Goto, Typed, IngestTypeOK, OthersStay, CallTyped, CallsTyped, Label,
         Ingesting, AtFile, AtStale, Listed
    <2>2. StoresTyped'
      BY <1>2 DEF FindStale, Typed, IngestTypeOK, StoresTyped, dbVars, counters
    <2> QED
      BY <2>1, <2>2, CallsStayTyped
  <1>3. CASE \E f \in Path : ForgetStale(x, f)
    <2>1. PICK f \in Path : ForgetStale(x, f)
      BY <1>3
    <2>2. Calls
      BY <2>1 DEF ForgetStale, Goto, Typed, IngestTypeOK, OthersStay, CallTyped, CallsTyped, Label,
         Ingesting, AtFile, AtStale
    <2>3. StoresTyped'
      BY <2>1 DEF ForgetStale, Typed, IngestTypeOK, StoresTyped, counters
    <2> QED
      BY <2>2, <2>3, CallsStayTyped
  <1>4. CASE DropStaleVectors(x)
    <2>1. Calls
      BY <1>4 DEF DropStaleVectors, Goto, Typed, IngestTypeOK, OthersStay, CallTyped, CallsTyped,
         Label, Ingesting, AtFile, AtStale
    <2>2. StoresTyped'
      BY <1>4 DEF DropStaleVectors, Typed, IngestTypeOK, StoresTyped, dbVars, counters
    <2> QED
      BY <2>1, <2>2, CallsStayTyped
  <1>5. CASE \E f \in Path : Hash(x, f)
    <2>1. PICK f \in Path : Hash(x, f)
      BY <1>5
    <2>2. Calls
      BY <2>1 DEF Hash, Goto, Typed, IngestTypeOK, OthersStay, CallTyped, CallsTyped, Label,
         Ingesting, AtFile, AtStale
    <2>3. StoresTyped'
      BY <2>1 DEF Hash, Typed, IngestTypeOK, StoresTyped, dbVars, counters
    <2> QED
      BY <2>2, <2>3, CallsStayTyped
  <1>6. CASE Compare(x)
    <2>1. StoresTyped'
      BY <1>6 DEF Compare, Typed, IngestTypeOK, StoresTyped, dbVars, counters
    <2>2. CASE NextFile(x)
      BY <1>6, <2>1, <2>2, NextFileTyped, CallsStayTyped DEF Compare, AtFile
    <2>3. CASE \E l \in {"dropRows", "process"} :
                 Goto(x, l) /\ UNCHANGED <<target, force, todo, stale, file, seen, batch, quiet>>
      <3>1. Calls
        BY <1>6, <2>3 DEF Compare, Goto, Typed, IngestTypeOK, OthersStay, CallTyped, CallsTyped,
           Label, Ingesting, AtFile, AtStale
      <3> QED
        BY <2>1, <3>1, CallsStayTyped
    <2> QED
      BY <1>6, <2>2, <2>3 DEF Compare
  <1>7. CASE DropRows(x)
    <2>1. Calls
      BY <1>7, AdvanceTyped DEF DropRows, Label, AtFile
    <2>2. StoresTyped'
      BY <1>7 DEF DropRows, Typed, IngestTypeOK, StoresTyped, counters
    <2> QED
      BY <2>1, <2>2, CallsStayTyped
  <1>8. CASE DropVectors(x)
    <2>1. Calls
      BY <1>8, AdvanceTyped DEF DropVectors, Label, AtFile
    <2>2. StoresTyped'
      BY <1>8 DEF DropVectors, Typed, IngestTypeOK, StoresTyped, dbVars, counters
    <2> QED
      BY <2>1, <2>2, CallsStayTyped
  <1>9. CASE Process(x)
    <2>1. StoresTyped'
      BY <1>9 DEF Process, Typed, IngestTypeOK, StoresTyped, dbVars, counters
    <2>2. file[x] \in Path
      BY <1>9 DEF Process, Typed, CallTyped, AtFile
    <2>3. CASE Expected(file[x]) = {}
      BY <1>9, <2>1, <2>3, NextFileTyped, CallsStayTyped DEF Process, AtFile
    <2>4. CASE Expected(file[x]) # {}
      <3>1. Expected(file[x]) \subseteq Chunk
        BY <2>2, ExpectedTyped
      <3>2. Calls
        BY <1>9, <2>4, <3>1 DEF Process, Goto, Typed, IngestTypeOK, OthersStay, CallTyped,
           CallsTyped, Label, Ingesting, AtFile, AtStale
      <3> QED
        BY <2>1, <3>2, CallsStayTyped
    <2> QED
      BY <2>3, <2>4
  <1>10. CASE RecordManifest(x)
    <2>1. Calls /\ seen[x] \in Content
      BY <1>10, AdvanceTyped DEF RecordManifest, Advance, Label, AtFile, Typed, CallTyped
    <2>2. StoresTyped'
      BY <1>10, <2>1 DEF RecordManifest, Typed, IngestTypeOK, StoresTyped, counters
    <2> QED
      BY <2>1, <2>2, CallsStayTyped
  <1>11. CASE RecordRows(x)
    <2>1. Calls /\ target[x] \in Target
      BY <1>11, AdvanceTyped DEF RecordRows, Advance, Label, AtFile, Ingesting, Typed, CallTyped
    <2>2. StoresTyped'
      BY <1>11, <2>1 DEF RecordRows, Typed, IngestTypeOK, StoresTyped, counters
    <2> QED
      BY <2>1, <2>2, CallsStayTyped
  <1>12. CASE RecordRowsFails(x) \/ Raise(x)
    <2>1. Calls
      BY <1>12, AbandonTyped DEF RecordRowsFails, Raise, Ingesting, AtFile, AtStale
    <2>2. StoresTyped'
      BY <1>12 DEF RecordRowsFails, Raise, Typed, IngestTypeOK, StoresTyped, dbVars, counters
    <2> QED
      BY <2>1, <2>2, CallsStayTyped
  <1>13. CASE Upsert(x)
    <2>1. Calls
      BY <1>13, NextFileTyped DEF Upsert, AtFile
    <2>2. StoresTyped'
      BY <1>13 DEF Upsert, Typed, IngestTypeOK, StoresTyped, dbVars, counters
    <2> QED
      BY <2>1, <2>2, CallsStayTyped
  <1>14. CASE UpsertFails(x)
    <2>1. Calls
      BY <1>14, AbandonTyped DEF UpsertFails, Ingesting, AtFile
    <2>2. StoresTyped'
      BY <1>14 DEF UpsertFails, FinishRun, Typed, IngestTypeOK, StoresTyped, counters, RunState,
         Failed
    <2> QED
      BY <2>1, <2>2, CallsStayTyped
  <1>15. CASE Catch(x)
    <2>1. Calls
      <3>1. CASE Return(x)
        BY <3>1, ReturnTyped
      <3>2. CASE Advance(x, "catch", "markFailed")
        BY <3>2, AdvanceTyped DEF Label
      <3> QED
        BY <1>15, <3>1, <3>2 DEF Catch
    <2>2. StoresTyped'
      BY <1>15 DEF Catch, Typed, IngestTypeOK, StoresTyped, dbVars, counters
    <2> QED
      BY <2>1, <2>2, CallsStayTyped
  <1>16. CASE MarkFailed(x) \/ EndIngest(x)
    <2>1. Calls
      BY <1>16, ReturnTyped DEF MarkFailed, EndIngest
    <2>2. StoresTyped'
      BY <1>16 DEF MarkFailed, EndIngest, FinishRun, Typed, IngestTypeOK, StoresTyped, counters,
         RunState, Failed
    <2> QED
      BY <2>1, <2>2, CallsStayTyped
  <1>17. CASE ReadAll(x)
    <2>1. Calls
      <3>1. CASE Stored = {}
        BY <1>17, <3>1, ReturnTyped DEF ReadAll
      <3>2. CASE Stored # {}
        BY <1>17, <3>2 DEF ReadAll, Goto, Typed, IngestTypeOK, OthersStay, CallTyped, CallsTyped,
           Label, Ingesting, AtFile, AtStale, Stored
      <3> QED
        BY <3>1, <3>2
    <2>2. StoresTyped'
      BY <1>17 DEF ReadAll, Typed, IngestTypeOK, StoresTyped, dbVars, counters
    <2> QED
      BY <2>1, <2>2, CallsStayTyped
  <1>18. CASE Rebuild(x)
    <2>1. Calls
      BY <1>18, AdvanceTyped DEF Rebuild, Label, Ingesting, AtFile, AtStale
    <2>2. StoresTyped'
      BY <1>18 DEF Rebuild, Typed, IngestTypeOK, StoresTyped, dbVars, counters
    <2> QED
      BY <2>1, <2>2, CallsStayTyped
  <1>19. CASE Reconcile(x)
    <2>1. Calls
      BY <1>19, ReturnTyped DEF Reconcile
    <2>2. StoresTyped'
      BY <1>19 DEF Reconcile, Typed, IngestTypeOK, StoresTyped, counters, RunState
    <2> QED
      BY <2>1, <2>2, CallsStayTyped
  <1>20. CASE Crash(x)
    <2>1. Calls
      BY <1>20, ReturnTyped DEF Crash
    <2>2. StoresTyped'
      BY <1>20 DEF Crash, Typed, IngestTypeOK, StoresTyped, dbVars, counters
    <2> QED
      BY <2>1, <2>2, CallsStayTyped
  <1> QED
    BY <1>1, <1>2, <1>3, <1>4, <1>5, <1>6, <1>7, <1>8, <1>9, <1>10, <1>11, <1>12, <1>13, <1>14,
       <1>15, <1>16, <1>17, <1>18, <1>19, <1>20 DEF Step

\* An edit, and the steps in which nothing happens.
LEMMA OutsideTyped ==
  ASSUME Typed, (\E f \in Path, c \in Content \cup {Absent} : EditFile(f, c)) \/ UNCHANGED vars
  PROVE  Typed'
  <1>1. CASE \E f \in Path, c \in Content \cup {Absent} : EditFile(f, c)
    <2>1. PICK f \in Path, c \in Content \cup {Absent} : EditFile(f, c)
      BY <1>1
    <2>2. quiet' \in [Proc -> BOOLEAN]
      <3>1. \A x \in Proc : (quiet[x] /\ pc[x] = "idle") \in BOOLEAN
        OBVIOUS
      <3> QED
        BY <2>1, <3>1 DEF EditFile
    <2>3. IngestTypeOK'
      BY <2>1, <2>2, IngestConstantsOK DEF EditFile, Typed, IngestTypeOK, dbVars, callVars
    <2> QED
      BY <2>1, <2>3 DEF EditFile, Typed, CallTyped, callVars
  <1>2. CASE UNCHANGED vars
    BY <1>2 DEF Typed, CallTyped, IngestTypeOK, vars, dbVars, callVars, counters
  <1> QED
    BY <1>1, <1>2

-----------------------------------------------------------------------------
(* What a call that is alone has established. *)

\* The manifest tells what is in a file that has chunks.
Recorded(f) == manifest[f] = disk[f] \/ Expected(f) = {}

\* The rows and the vectors of a file that is there, one by one.
RowsAre(f, S)    == \A p \in Piece : rows[<<f, p>>] # Nil <=> p \in S
VectorsAre(f, S) == \A p \in Piece : <<f, p>> \in vectors <=> p \in S
Repaired(f)      == RowsAre(f, Pieces[disk[f]]) /\ VectorsAre(f, Pieces[disk[f]])

\* The files that are done.
Behind(x) == Found(target[x]) \ (todo[x] \cup {file[x]})

\* As long as it is at the stale paths it has touched no file.
StaleInv(x) ==
    /\ pc[x] \in AtStale => todo[x] = Found(target[x])
    /\ pc[x] \in {"stale", "staleVectors"} => Listed \ Found(target[x]) \subseteq stale[x]

LoopInv(x) ==
    pc[x] \in AtFile \cup {"next"} =>
        /\ todo[x] \subseteq Found(target[x])
        /\ target[x] \in Directory => Listed \subseteq Found(target[x])
        /\ \A f \in Behind(x) : Recorded(f) /\ (force[x] => Repaired(f))

FileInv(x) ==
    /\ pc[x] \in AtFile => file[x] \in Found(target[x]) \ todo[x] /\ seen[x] = disk[file[x]]
    /\ pc[x] \in {"recordManifest", "recordRows", "upsert"} => batch[x] = Expected(file[x])
    /\ pc[x] \in {"recordRows", "upsert"} => manifest[file[x]] = seen[x]
    /\ force[x] =>
        /\ pc[x] \in {"dropVectors", "process", "recordManifest", "recordRows"} =>
               RowsAre(file[x], {})
        /\ pc[x] \in {"process", "recordManifest", "recordRows", "upsert"} =>
               VectorsAre(file[x], {})
        /\ pc[x] = "upsert" => RowsAre(file[x], Pieces[disk[file[x]]])

\* The handler looks at the latest run: it is that of the call.
RunInv(x) ==
    /\ pc[x] \in Ingesting => latest = target[x]
    /\ pc[x] = "markFailed" => runState[target[x]] # "FAILED_VECTOR_UPSERT"

RebuildInv(x) ==
    /\ pc[x] = "readAll" => OfFailedRuns = {}
    /\ pc[x] = "rebuild" => OfFailedRuns \subseteq batch[x]
    /\ pc[x] = "reconcile" => OfFailedRuns \subseteq vectors

Facts(x) == StaleInv(x) /\ LoopInv(x) /\ FileInv(x) /\ RunInv(x) /\ RebuildInv(x)

AloneInv(x) ==
    quiet[x] /\ pc[x] # "idle" => (\A y \in Proc \ {x} : pc[y] = "idle") /\ Facts(x)

Inv == Typed /\ \A x \in Proc : AloneInv(x)

\* A call that goes on, and is alone, passes on what it has established.
LEMMA GoesOn ==
  ASSUME Inv, NEW x \in Proc, pc[x] # "idle", quiet' = quiet,
         \A y \in Proc \ {x} : pc'[y] = pc[y],
         Facts(x) => Facts(x)'
  PROVE  AloneInv(x)'
  BY DEF Inv, AloneInv

\* A call is not alone while another takes a step.
LEMMA OthersAlone ==
  ASSUME Inv, NEW x \in Proc, NEW y \in Proc \ {x}, pc'[y] = pc[y],
         \/ pc[x] # "idle" /\ quiet'[y] = quiet[y]
         \/ quiet'[y] => pc[y] = "idle"
  PROVE  AloneInv(y)'
  BY DEF Inv, AloneInv

-----------------------------------------------------------------------------
(* The stale paths. *)

LEMMA FindStaleFacts ==
  ASSUME Typed, NEW x \in Proc, Facts(x), FindStale(x)
  PROVE  Facts(x)'
  <1>1. /\ pc[x] = "findStale" /\ stale'[x] = Listed \ todo[x] /\ latest = target[x]
        /\ todo[x] = Found(target[x]) /\ file[x] = Nil
        /\ \/ pc'[x] = "next" /\ Listed \subseteq todo[x]
           \/ pc'[x] = "stale"
    BY DEF FindStale, Goto, Typed, IngestTypeOK, CallTyped, Facts, StaleInv, RunInv, Ingesting,
       AtFile, AtStale
  <1>2. /\ disk' = disk /\ manifest' = manifest /\ latest' = latest /\ target' = target
        /\ todo' = todo /\ file' = file
    BY DEF FindStale, dbVars
  <1>3. Listed' = Listed /\ Found(target[x])' = Found(target[x])
    BY <1>2 DEF Listed, Found
  <1>4. StaleInv(x)'
    BY <1>1, <1>2, <1>3 DEF StaleInv, AtStale
  <1>5. LoopInv(x)'
    <2>1. Behind(x)' = {}
      BY <1>1, <1>2, <1>3 DEF Behind
    <2> QED
      BY <1>1, <1>2, <1>3, <2>1 DEF LoopInv, AtFile
  <1> QED
    BY <1>1, <1>2, <1>4, <1>5 DEF Facts, FileInv, RunInv, RebuildInv, AtFile

LEMMA ForgetStaleFacts ==
  ASSUME Typed, NEW x \in Proc, Facts(x), NEW f \in Path, ForgetStale(x, f)
  PROVE  Facts(x)'
  <1>1. /\ pc[x] = "stale" /\ latest = target[x] /\ todo[x] = Found(target[x])
        /\ Listed \ Found(target[x]) \subseteq stale[x]
        /\ stale'[x] = stale[x] \ {f} /\ pc'[x] = "staleVectors"
        /\ manifest' = [manifest EXCEPT ![f] = Nil]
    BY DEF ForgetStale, Goto, Typed, IngestTypeOK, Facts, StaleInv, RunInv, Ingesting, AtStale
  <1>2. disk' = disk /\ latest' = latest /\ target' = target /\ todo' = todo
    BY DEF ForgetStale
  <1>3. Listed' \subseteq Listed \ {f} /\ Found(target[x])' = Found(target[x])
    BY <1>1, <1>2 DEF Listed, Found, Typed, IngestTypeOK
  <1>4. StaleInv(x)'
    BY <1>1, <1>2, <1>3 DEF StaleInv, AtStale
  <1> QED
    BY <1>1, <1>2, <1>4 DEF Facts, LoopInv, FileInv, RunInv, RebuildInv, AtFile

LEMMA DropStaleVectorsFacts ==
  ASSUME Typed, NEW x \in Proc, Facts(x), DropStaleVectors(x)
  PROVE  Facts(x)'
  <1>1. /\ pc[x] = "staleVectors" /\ latest = target[x] /\ todo[x] = Found(target[x])
        /\ Listed \ Found(target[x]) \subseteq stale[x]
        /\ file'[x] = Nil
        /\ \/ pc'[x] = "next" /\ stale[x] = {}
           \/ pc'[x] = "stale"
    BY DEF DropStaleVectors, Goto, Typed, IngestTypeOK, Facts, StaleInv, RunInv, Ingesting, AtStale
  <1>2. /\ disk' = disk /\ manifest' = manifest /\ latest' = latest /\ target' = target
        /\ todo' = todo /\ stale' = stale
    BY DEF DropStaleVectors, dbVars
  <1>3. Listed' = Listed /\ Found(target[x])' = Found(target[x])
    BY <1>2 DEF Listed, Found
  <1>4. StaleInv(x)'
    BY <1>1, <1>2, <1>3 DEF StaleInv, AtStale
  <1>5. LoopInv(x)'
    <2>1. Behind(x)' = {}
      BY <1>1, <1>2, <1>3 DEF Behind
    <2> QED
      BY <1>1, <1>2, <1>3, <2>1 DEF LoopInv, AtFile
  <1> QED
    BY <1>1, <1>2, <1>4, <1>5 DEF Facts, FileInv, RunInv, RebuildInv, AtFile

-----------------------------------------------------------------------------
(* The files. *)

\* What a call that is alone knows of the file it is at.
LEMMA AtAFile ==
  ASSUME Typed, NEW x \in Proc, Facts(x), pc[x] \in AtFile
  PROVE  /\ file[x] \in Path /\ seen[x] \in Content /\ target[x] \in Target
         /\ disk[file[x]] = seen[x] /\ file[x] \in Found(target[x]) /\ file[x] \notin todo[x]
         /\ Expected(file[x]) = {file[x]} \X Pieces[disk[file[x]]]
         /\ latest = target[x]
  <1>1. /\ file[x] \in Path /\ seen[x] \in Content /\ target[x] \in Target
        /\ disk[file[x]] = seen[x] /\ file[x] \in Found(target[x]) /\ file[x] \notin todo[x]
        /\ latest = target[x]
    BY DEF Typed, CallTyped, Facts, FileInv, RunInv, Ingesting
  <1> QED
    BY <1>1 DEF Expected, Found

\* The loop of a call goes on while it works at a file or turns from one.
LEMMA LoopGoesOn ==
  ASSUME Typed, NEW x \in Proc, Facts(x), pc[x] \in AtFile \cup {"next"},
         disk' = disk, target' = target, force' = force, todo'[x] \subseteq todo[x],
         Listed' \subseteq Listed \cup {file[x]},
         \A f \in Behind(x)' : f = file[x] \/ f \in Behind(x),
         \A f \in Path \ {file[x]} :
            /\ manifest'[f] = manifest[f]
            /\ \A p \in Piece : /\ rows'[<<f, p>>] = rows[<<f, p>>]
                                /\ <<f, p>> \in vectors' <=> <<f, p>> \in vectors,
         \A f \in Behind(x)' : f = file[x] => Recorded(f)' /\ (force[x] => Repaired(f)')
  PROVE  LoopInv(x)'
  <1>1. Found(target[x])' = Found(target[x])
    BY DEF Found
  <1>2. todo'[x] \subseteq Found(target[x])
    BY DEF Facts, LoopInv
  <1>3. target[x] \in Directory => Listed' \subseteq Found(target[x])
    <2>1. Listed' \subseteq Path /\ Nil \notin Path
      BY IngestConstantsOK DEF Listed
    <2>2. file[x] \in Path => file[x] \in Found(target[x])
      <3>1. pc[x] = "next" => file[x] = Nil
        BY DEF Typed, CallTyped, AtFile
      <3> QED
        BY <2>1, <3>1 DEF Facts, FileInv
    <2> QED
      BY <2>1, <2>2 DEF Facts, LoopInv
  <1>4. ASSUME NEW f \in Behind(x)'
        PROVE  Recorded(f)' /\ (force'[x] => Repaired(f)')
    <2>1. CASE f = file[x]
      BY <1>4, <2>1 DEF Recorded, Repaired, RowsAre, VectorsAre, Expected
    <2>2. CASE f # file[x]
      <3>1. f \in Behind(x) /\ f \in Path
        <4>1. f \in Behind(x)
          BY <2>2
        <4>2. target[x] \in Target
          BY DEF Typed, CallTyped, Ingesting
        <4> QED
          BY <4>1, <4>2, IngestConstantsOK DEF Behind, Found
      <3>2. Recorded(f) /\ (force[x] => Repaired(f))
        BY <3>1 DEF Facts, LoopInv
      <3>3. Recorded(f)'
        BY <2>2, <3>1, <3>2 DEF Recorded, Expected
      <3>4. force[x] => Repaired(f)'
        BY <2>2, <3>1, <3>2 DEF Repaired, RowsAre, VectorsAre
      <3> QED
        BY <3>3, <3>4
    <2> QED
      BY <2>1, <2>2
  <1> QED
    BY <1>1, <1>2, <1>3, <1>4 DEF LoopInv

LEMMA HashFacts ==
  ASSUME Typed, NEW x \in Proc, Facts(x), NEW f \in Path, Hash(x, f)
  PROVE  Facts(x)'
  <1>1. /\ pc[x] = "next" /\ latest = target[x] /\ file[x] = Nil /\ f \in todo[x]
        /\ pc'[x] = "compare" /\ file'[x] = f /\ seen'[x] = disk[f]
        /\ todo'[x] = todo[x] \ {f}
    BY DEF Hash, Goto, Typed, IngestTypeOK, CallTyped, Facts, RunInv, Ingesting, AtFile
  <1>2. /\ disk' = disk /\ manifest' = manifest /\ latest' = latest /\ target' = target
        /\ force' = force /\ rows' = rows /\ vectors' = vectors
    BY DEF Hash, dbVars
  <1>3. /\ Listed' = Listed /\ Found(target[x])' = Found(target[x])
        /\ todo[x] \subseteq Found(target[x])
    BY <1>1, <1>2 DEF Listed, Found, Facts, LoopInv
  <1>4. LoopInv(x)'
    <2>3. Found(target[x]) \subseteq Path /\ Nil \notin Path
      BY <1>1, IngestConstantsOK DEF Found, Typed, CallTyped, Ingesting
    <2>1. \A g \in Behind(x)' : g \in Behind(x)
      BY <1>1, <1>2, <1>3, <2>3 DEF Behind
    <2>2. Nil \notin Behind(x)'
      BY <1>2, <1>3, <2>3 DEF Behind
    <2> QED
      BY <1>1, <1>2, <1>3, <2>1, <2>2, LoopGoesOn
  <1>5. FileInv(x)'
    BY <1>1, <1>2, <1>3 DEF FileInv
  <1> QED
    BY <1>1, <1>2, <1>4, <1>5 DEF Facts, StaleInv, RunInv, RebuildInv, AtStale

\* A file is left behind.
LEMMA NextFileFacts ==
  ASSUME Typed, NEW x \in Proc, Facts(x), pc[x] \in AtFile, NextFile(x), todo' = todo,
         disk' = disk, manifest' = manifest, latest' = latest, rows' = rows,
         \A f \in Path \ {file[x]}, p \in Piece : <<f, p>> \in vectors' <=> <<f, p>> \in vectors,
         \A f \in Path : f = file[x] => Recorded(f)' /\ (force[x] => Repaired(f)')
  PROVE  Facts(x)'
  <1>1. /\ pc'[x] = "next" /\ file'[x] = Nil /\ target' = target /\ force' = force
        /\ latest = target[x]
    BY AtAFile DEF NextFile, Goto, Typed, IngestTypeOK
  <1>2. Listed' = Listed /\ Found(target[x])' = Found(target[x]) /\ file[x] \in Path
    BY <1>1, AtAFile DEF Listed, Found
  <1>3. LoopInv(x)'
    <2>1. \A g \in Behind(x)' : g = file[x] \/ g \in Behind(x)
      BY <1>1, <1>2 DEF Behind
    <2> QED
      BY <1>1, <1>2, <2>1, LoopGoesOn
  <1> QED
    BY <1>1, <1>3 DEF Facts, StaleInv, FileInv, RunInv, RebuildInv, AtStale, AtFile

LEMMA CompareFacts ==
  ASSUME Typed, NEW x \in Proc, Facts(x), Compare(x)
  PROVE  Facts(x)'
  <1>1. /\ pc[x] = "compare" /\ todo' = todo /\ disk' = disk /\ manifest' = manifest
        /\ rows' = rows /\ vectors' = vectors /\ latest' = latest /\ runState' = runState
    BY DEF Compare, dbVars
  <1>2. /\ file[x] \in Path /\ seen[x] = disk[file[x]] /\ latest = target[x]
    BY <1>1, AtAFile DEF AtFile
  <1>3. CASE manifest[file[x]] = seen[x] /\ ~force[x]
    <2>1. NextFile(x)
      BY <1>3 DEF Compare
    <2>2. \A f \in Path : f = file[x] => Recorded(f)'
      BY <1>1, <1>2, <1>3 DEF Recorded
    <2> QED
      BY <1>1, <1>3, <2>1, <2>2, NextFileFacts DEF AtFile
  <1>4. CASE ~(manifest[file[x]] = seen[x] /\ ~force[x])
    <2>1. /\ target' = target /\ force' = force /\ stale' = stale /\ file' = file /\ seen' = seen
          /\ batch' = batch
          /\ \/ pc'[x] = "dropRows"
             \/ pc'[x] = "process" /\ ~force[x]
      BY <1>4 DEF Compare, Goto, Typed, IngestTypeOK
    <2>2. LoopInv(x)'
      <3>1. Listed' = Listed /\ Behind(x)' = Behind(x)
        BY <1>1, <2>1 DEF Listed, Behind, Found
      <3>2. \A f \in Behind(x) : f # file[x]
        BY DEF Behind
      <3> QED
        BY <1>1, <2>1, <3>1, <3>2, LoopGoesOn DEF AtFile
    <2>3. FileInv(x)'
      <3>1. Found(target[x])' = Found(target[x])
        BY <1>1, <2>1 DEF Found
      <3> QED
        BY <1>1, <1>2, <2>1, <3>1 DEF Facts, FileInv, AtFile
    <2> QED
      BY <1>1, <1>2, <2>1, <2>2, <2>3 DEF Facts, StaleInv, RunInv, RebuildInv, AtStale
  <1> QED
    BY <1>3, <1>4

\* A step at a file that keeps the file and the rest of the loop.
LEMMA FileGoesOn ==
  ASSUME Typed, NEW x \in Proc, Facts(x), pc[x] \in AtFile, pc'[x] \in AtFile,
         UNCHANGED <<disk, latest, target, force, todo, file>>,
         Listed' \subseteq Listed \cup {file[x]},
         \A f \in Path \ {file[x]} :
            /\ manifest'[f] = manifest[f]
            /\ \A p \in Piece : /\ rows'[<<f, p>>] = rows[<<f, p>>]
                                /\ <<f, p>> \in vectors' <=> <<f, p>> \in vectors,
         FileInv(x)'
  PROVE  Facts(x)'
  <1>1. Behind(x)' = Behind(x)
    BY DEF Behind, Found
  <1>2. LoopInv(x)'
    <2>1. \A f \in Behind(x)' : f # file[x]
      BY <1>1 DEF Behind
    <2> QED
      BY <1>1, <2>1, LoopGoesOn
  <1>3. latest = target[x]
    BY AtAFile
  <1> QED
    BY <1>2, <1>3 DEF Facts, StaleInv, RunInv, RebuildInv, AtFile, AtStale

LEMMA DropRowsFacts ==
  ASSUME Typed, NEW x \in Proc, Facts(x), DropRows(x)
  PROVE  Facts(x)'
  <1>1. /\ pc[x] = "dropRows" /\ pc'[x] = "dropVectors"
        /\ UNCHANGED <<disk, manifest, vectors, latest, target, force, todo, file, seen>>
    BY DEF DropRows, Advance, Goto, Typed, IngestTypeOK
  <1>2. file[x] \in Path
    BY <1>1, AtAFile DEF AtFile
  <1>3. \A f \in Path, p \in Piece :
           rows'[<<f, p>>] = IF f = file[x] THEN Nil ELSE rows[<<f, p>>]
    BY DEF DropRows, Chunk, ChunksOf
  <1>4. FileInv(x)'
    <2>1. RowsAre(file[x], {})'
      BY <1>1, <1>2, <1>3 DEF RowsAre
    <2>2. Found(target[x])' = Found(target[x])
      BY <1>1 DEF Found
    <2> QED
      BY <1>1, <2>1, <2>2 DEF Facts, FileInv, AtFile
  <1>5. Listed' = Listed
    BY <1>1 DEF Listed
  <1> QED
    BY <1>1, <1>3, <1>4, <1>5, FileGoesOn DEF AtFile

LEMMA DropVectorsFacts ==
  ASSUME Typed, NEW x \in Proc, Facts(x), DropVectors(x)
  PROVE  Facts(x)'
  <1>1. /\ pc[x] = "dropVectors" /\ pc'[x] = "process"
        /\ UNCHANGED <<disk, manifest, rows, latest, target, force, todo, file, seen>>
    BY DEF DropVectors, Advance, Goto, Typed, IngestTypeOK, dbVars
  <1>2. file[x] \in Path
    BY <1>1, AtAFile DEF AtFile
  <1>3. \A f \in Path, p \in Piece :
           <<f, p>> \in vectors' <=> f # file[x] /\ <<f, p>> \in vectors
    BY DEF DropVectors, ChunksOf
  <1>4. FileInv(x)'
    <2>1. VectorsAre(file[x], {})'
      BY <1>1, <1>2, <1>3 DEF VectorsAre
    <2>2. Found(target[x])' = Found(target[x])
      BY <1>1 DEF Found
    <2>3. force[x] => RowsAre(file[x], {})'
      BY <1>1 DEF Facts, FileInv, RowsAre
    <2> QED
      BY <1>1, <2>1, <2>2, <2>3 DEF Facts, FileInv, AtFile
  <1>5. Listed' = Listed
    BY <1>1 DEF Listed
  <1> QED
    BY <1>1, <1>3, <1>4, <1>5, FileGoesOn DEF AtFile

LEMMA ProcessFacts ==
  ASSUME Typed, NEW x \in Proc, Facts(x), Process(x)
  PROVE  Facts(x)'
  <1>1. /\ pc[x] = "process" /\ todo' = todo
        /\ UNCHANGED <<disk, manifest, rows, vectors, latest>>
    BY DEF Process, NextFile, dbVars
  <1>2. /\ file[x] \in Path /\ seen[x] = disk[file[x]]
        /\ Expected(file[x]) = {file[x]} \X Pieces[disk[file[x]]]
    BY <1>1, AtAFile DEF AtFile
  <1>3. CASE Expected(file[x]) = {}
    <2>1. \A f \in Path : f = file[x] => Recorded(f)'
      BY <1>1, <1>3 DEF Recorded, Expected
    <2>2. force[x] => \A f \in Path : f = file[x] => Repaired(f)'
      <3>1. Pieces[disk[file[x]]] = {}
        <4>1. \A p \in Pieces[disk[file[x]]] : <<file[x], p>> \in Expected(file[x])
          BY <1>2
        <4> QED
          BY <1>3, <4>1
      <3>2. force[x] => RowsAre(file[x], {}) /\ VectorsAre(file[x], {})
        BY <1>1 DEF Facts, FileInv
      <3> QED
        BY <1>1, <3>1, <3>2 DEF Repaired, RowsAre, VectorsAre
    <2> QED
      BY <1>1, <1>3, <2>1, <2>2, NextFileFacts DEF Process, AtFile
  <1>4. CASE Expected(file[x]) # {}
    <2>1. /\ pc'[x] = "recordManifest" /\ batch'[x] = Expected(file[x])
          /\ UNCHANGED <<target, force, file, seen>>
      BY <1>4 DEF Process, Goto, Typed, IngestTypeOK
    <2>2. Expected(file[x])' = Expected(file[x]) /\ Found(target[x])' = Found(target[x])
      BY <1>1, <2>1 DEF Expected, Found
    <2>3. force[x] => RowsAre(file[x], {})' /\ VectorsAre(file[x], {})'
      BY <1>1, <2>1 DEF Facts, FileInv, RowsAre, VectorsAre
    <2>4. FileInv(x)'
      BY <1>1, <2>1, <2>2, <2>3 DEF Facts, FileInv, AtFile
    <2>5. Listed' = Listed
      BY <1>1 DEF Listed
    <2> QED
      BY <1>1, <2>1, <2>4, <2>5, FileGoesOn DEF AtFile
  <1> QED
    BY <1>3, <1>4

LEMMA RecordManifestFacts ==
  ASSUME Typed, NEW x \in Proc, Facts(x), RecordManifest(x)
  PROVE  Facts(x)'
  <1>1. /\ pc[x] = "recordManifest" /\ pc'[x] = "recordRows"
        /\ UNCHANGED <<disk, rows, vectors, latest, target, force, todo, file, seen, batch>>
    BY DEF RecordManifest, Advance, Goto, Typed, IngestTypeOK
  <1>2. file[x] \in Path /\ seen[x] \in Content
    BY <1>1, AtAFile DEF AtFile
  <1>3. \A f \in Path : manifest'[f] = IF f = file[x] THEN seen[x] ELSE manifest[f]
    BY <1>2 DEF RecordManifest, Typed, IngestTypeOK
  <1>4. FileInv(x)'
    <2>1. Expected(file[x])' = Expected(file[x]) /\ Found(target[x])' = Found(target[x])
      BY <1>1 DEF Expected, Found
    <2>2. force[x] => RowsAre(file[x], {})' /\ VectorsAre(file[x], {})'
      BY <1>1 DEF Facts, FileInv, RowsAre, VectorsAre
    <2> QED
      BY <1>1, <1>2, <1>3, <2>1, <2>2 DEF Facts, FileInv, AtFile
  <1>5. Listed' \subseteq Listed \cup {file[x]}
    BY <1>3 DEF Listed
  <1> QED
    BY <1>1, <1>3, <1>4, <1>5, FileGoesOn DEF AtFile

LEMMA RecordRowsFacts ==
  ASSUME Typed, NEW x \in Proc, Facts(x), RecordRows(x)
  PROVE  Facts(x)'
  <1>1. /\ pc[x] = "recordRows" /\ pc'[x] = "upsert"
        /\ UNCHANGED <<disk, manifest, vectors, latest, target, force, todo, file, seen, batch>>
    BY DEF RecordRows, Advance, Goto, Typed, IngestTypeOK
  <1>2. /\ file[x] \in Path /\ target[x] \in Target
        /\ batch[x] = {file[x]} \X Pieces[disk[file[x]]]
    BY <1>1, AtAFile DEF AtFile, Facts, FileInv
  <1>3. \A f \in Path, p \in Piece :
           rows'[<<f, p>>] = IF f = file[x] /\ p \in Pieces[disk[file[x]]]
                             THEN target[x] ELSE rows[<<f, p>>]
    BY <1>2 DEF RecordRows, Chunk
  <1>4. FileInv(x)'
    <2>1. Expected(file[x])' = Expected(file[x]) /\ Found(target[x])' = Found(target[x])
      BY <1>1 DEF Expected, Found
    <2>2. force[x] => RowsAre(file[x], {}) /\ VectorsAre(file[x], {})
      BY <1>1 DEF Facts, FileInv
    <2>3. force[x] => VectorsAre(file[x], {})'
      BY <1>1, <2>2 DEF VectorsAre
    <2>4. force[x] => RowsAre(file[x], Pieces[disk[file[x]]])'
      BY <1>1, <1>2, <1>3, <2>2, IngestConstantsOK DEF RowsAre
    <2> QED
      BY <1>1, <2>1, <2>3, <2>4 DEF Facts, FileInv, AtFile
  <1>5. Listed' = Listed
    BY <1>1 DEF Listed
  <1> QED
    BY <1>1, <1>3, <1>4, <1>5, FileGoesOn DEF AtFile

LEMMA UpsertFacts ==
  ASSUME Typed, NEW x \in Proc, Facts(x), Upsert(x)
  PROVE  Facts(x)'
  <1>1. /\ pc[x] = "upsert" /\ todo' = todo
        /\ UNCHANGED <<disk, manifest, rows, latest>>
    BY DEF Upsert, dbVars
  <1>2. /\ file[x] \in Path /\ manifest[file[x]] = disk[file[x]]
        /\ batch[x] = {file[x]} \X Pieces[disk[file[x]]]
    BY <1>1, AtAFile DEF AtFile, Facts, FileInv
  <1>3. \A f \in Path, p \in Piece :
           <<f, p>> \in vectors' <=>
              <<f, p>> \in vectors \/ (f = file[x] /\ p \in Pieces[disk[file[x]]])
    BY <1>2 DEF Upsert
  <1>4. \A f \in Path : f = file[x] => Recorded(f)'
    BY <1>1, <1>2 DEF Recorded
  <1>5. force[x] => \A f \in Path : f = file[x] => Repaired(f)'
    <2>1. force[x] => RowsAre(file[x], Pieces[disk[file[x]]]) /\ VectorsAre(file[x], {})
      BY <1>1 DEF Facts, FileInv
    <2> QED
      BY <1>1, <1>3, <2>1 DEF Repaired, RowsAre, VectorsAre
  <1> QED
    BY <1>1, <1>3, <1>4, <1>5, NextFileFacts DEF Upsert, AtFile

-----------------------------------------------------------------------------
(* The ends of a call, and its beginning. *)

LEMMA AbandonFacts ==
  ASSUME Typed, NEW x \in Proc, Facts(x), pc[x] \in Ingesting, Abandon(x), latest' = latest
  PROVE  Facts(x)'
  <1>1. pc'[x] = "catch" /\ target' = target
    BY AbandonTyped
  <1> QED
    BY <1>1 DEF Facts, StaleInv, LoopInv, FileInv, RunInv, RebuildInv, AtFile, AtStale

LEMMA CatchFacts ==
  ASSUME Typed, NEW x \in Proc, Facts(x), Catch(x), pc'[x] # "idle"
  PROVE  Facts(x)'
  <1>1. Advance(x, "catch", "markFailed") /\ runState[latest] # "FAILED_VECTOR_UPSERT"
    BY DEF Catch, Return, Goto, Typed, IngestTypeOK
  <1>2. pc'[x] = "markFailed" /\ target' = target /\ runState' = runState /\ latest' = latest
    BY <1>1 DEF Catch, Advance, Goto, Typed, IngestTypeOK, dbVars
  <1>3. latest = target[x]
    BY <1>1 DEF Facts, RunInv, Ingesting, Advance
  <1> QED
    BY <1>1, <1>2, <1>3 DEF Facts, StaleInv, LoopInv, FileInv, RunInv, RebuildInv, AtFile, AtStale

LEMMA ReadAllFacts ==
  ASSUME Typed, NEW x \in Proc, Facts(x), ReadAll(x), pc'[x] # "idle"
  PROVE  Facts(x)'
  <1>1. pc[x] = "readAll" /\ pc'[x] = "rebuild" /\ rows' = rows /\ runState' = runState
    BY DEF ReadAll, Return, Goto, Typed, IngestTypeOK, dbVars
  <1>2. OfFailedRuns' = {}
    <2>1. OfFailedRuns' = OfFailedRuns
      BY <1>1 DEF OfFailedRuns, Stored
    <2> QED
      BY <1>1, <2>1 DEF Facts, RebuildInv
  <1> QED
    BY <1>1, <1>2 DEF Facts, StaleInv, LoopInv, FileInv, RunInv, RebuildInv, AtFile, AtStale,
       Ingesting

LEMMA RebuildFacts ==
  ASSUME Typed, NEW x \in Proc, Facts(x), Rebuild(x)
  PROVE  Facts(x)'
  <1>1. /\ pc[x] = "rebuild" /\ pc'[x] = "reconcile" /\ rows' = rows /\ runState' = runState
        /\ vectors' = vectors \cup batch[x]
    BY DEF Rebuild, Advance, Goto, Typed, IngestTypeOK, dbVars
  <1>2. OfFailedRuns' = OfFailedRuns /\ OfFailedRuns \subseteq batch[x]
    BY <1>1 DEF OfFailedRuns, Stored, Facts, RebuildInv
  <1> QED
    BY <1>1, <1>2 DEF Facts, StaleInv, LoopInv, FileInv, RunInv, RebuildInv, AtFile, AtStale,
       Ingesting

\* A call that finds nobody else in a call begins alone.
LEMMA BeginIngestAlone ==
  ASSUME Inv, NEW x \in Proc, NEW t \in Target, NEW forced \in BOOLEAN, BeginIngest(x, t, forced)
  PROVE  \A y \in Proc : AloneInv(y)'
  <1>1. /\ pc[x] = "idle" /\ file[x] = Nil
        /\ pc' = [pc EXCEPT ![x] = IF t \in Directory THEN "findStale" ELSE "next"]
        /\ target'[x] = t /\ todo'[x] = Found(t) /\ latest' = t
        /\ disk' = disk /\ file' = file
    BY DEF BeginIngest, BeginCall, Goto, Inv, Typed, IngestTypeOK, CallTyped, AtFile
  <1>2. \A y \in Proc \ {x} :
           /\ pc'[y] = pc[y] /\ (quiet'[y] => pc[y] = "idle")
           /\ quiet'[x] => pc[y] = "idle"
    BY <1>1 DEF BeginIngest, BeginCall, Inv, Typed, IngestTypeOK
  <1>3. Facts(x)'
    <2>1. Found(target[x])' = Found(t)
      BY <1>1 DEF Found
    <2>2. Behind(x)' = {}
      BY <1>1, <2>1 DEF Behind
    <2>3. pc'[x] = IF t \in Directory THEN "findStale" ELSE "next"
      BY <1>1 DEF Inv, Typed, IngestTypeOK
    <2>4. StaleInv(x)' /\ LoopInv(x)'
      BY <1>1, <2>1, <2>2, <2>3 DEF StaleInv, LoopInv, AtStale, AtFile
    <2> QED
      BY <1>1, <2>3, <2>4 DEF Facts, FileInv, RunInv, RebuildInv, AtFile
  <1>4. AloneInv(x)'
    BY <1>2, <1>3 DEF AloneInv
  <1>5. \A y \in Proc \ {x} : AloneInv(y)'
    BY <1>2, OthersAlone
  <1> QED
    BY <1>4, <1>5

LEMMA BeginRebuildAlone ==
  ASSUME Inv, NEW x \in Proc, BeginRebuild(x)
  PROVE  \A y \in Proc : AloneInv(y)'
  <1>1. /\ pc[x] = "idle" /\ batch'[x] = OfFailedRuns
        /\ pc' = [pc EXCEPT ![x] = IF OfFailedRuns # {} THEN "rebuild" ELSE "readAll"]
        /\ rows' = rows /\ runState' = runState
    BY DEF BeginRebuild, BeginCall, Goto, Inv, Typed, IngestTypeOK, dbVars
  <1>2. \A y \in Proc \ {x} :
           /\ pc'[y] = pc[y] /\ (quiet'[y] => pc[y] = "idle")
           /\ quiet'[x] => pc[y] = "idle"
    BY <1>1 DEF BeginRebuild, BeginCall, Inv, Typed, IngestTypeOK
  <1>3. Facts(x)'
    <2>1. OfFailedRuns' = OfFailedRuns
      BY <1>1 DEF OfFailedRuns, Stored
    <2>2. pc'[x] = IF OfFailedRuns # {} THEN "rebuild" ELSE "readAll"
      BY <1>1 DEF Inv, Typed, IngestTypeOK
    <2> QED
      BY <1>1, <2>1, <2>2 DEF Facts, StaleInv, LoopInv, FileInv, RunInv, RebuildInv, AtFile,
         AtStale, Ingesting
  <1>4. AloneInv(x)'
    BY <1>2, <1>3 DEF AloneInv
  <1>5. \A y \in Proc \ {x} : AloneInv(y)'
    BY <1>2, OthersAlone
  <1> QED
    BY <1>4, <1>5

-----------------------------------------------------------------------------
(* Every step. *)

\* A step of a call that has begun is its own affair.
LEMMA OwnStep ==
  ASSUME Typed, NEW x \in Proc, Step(x), pc[x] # "idle"
  PROVE  /\ \A y \in Proc \ {x} : pc'[y] = pc[y] /\ quiet'[y] = quiet[y]
         /\ pc'[x] = "idle" \/ quiet' = quiet
  <1> DEFINE Own == /\ \A y \in Proc \ {x} : pc'[y] = pc[y] /\ quiet'[y] = quiet[y]
                    /\ pc'[x] = "idle" \/ quiet' = quiet
  <1>1. Return(x) => Own
    BY DEF Return, Goto, Typed, IngestTypeOK
  <1>2. NextFile(x) => Own
    BY DEF NextFile, Goto, Typed, IngestTypeOK
  <1>3. Abandon(x) => Own
    BY DEF Abandon, Goto, Typed, IngestTypeOK
  <1>4. ASSUME NEW l, Goto(x, l), quiet' = quiet PROVE Own
    BY <1>4 DEF Goto, Typed, IngestTypeOK
  <1>5. CASE BeginRebuild(x) \/ \E t \in Target, forced \in BOOLEAN : BeginIngest(x, t, forced)
    BY <1>5 DEF BeginRebuild, BeginIngest, BeginCall
  <1>6. CASE FindStale(x) \/ DropStaleVectors(x)
    BY <1>4, <1>6 DEF FindStale, DropStaleVectors
  <1>7. CASE \E f \in Path : ForgetStale(x, f) \/ Hash(x, f)
    BY <1>4, <1>7 DEF ForgetStale, Hash
  <1>8. CASE Compare(x)
    BY <1>2, <1>4, <1>8 DEF Compare
  <1>9. CASE DropRows(x) \/ DropVectors(x) \/ RecordManifest(x) \/ RecordRows(x) \/ Rebuild(x)
    BY <1>4, <1>9 DEF DropRows, DropVectors, RecordManifest, RecordRows, Rebuild, Advance
  <1>10. CASE Process(x)
    BY <1>2, <1>4, <1>10 DEF Process
  <1>11. CASE Upsert(x)
    BY <1>2, <1>11 DEF Upsert
  <1>12. CASE RecordRowsFails(x) \/ UpsertFails(x) \/ Raise(x)
    BY <1>3, <1>12 DEF RecordRowsFails, UpsertFails, Raise
  <1>13. CASE Catch(x)
    BY <1>1, <1>4, <1>13 DEF Catch, Advance
  <1>14. CASE ReadAll(x)
    BY <1>1, <1>4, <1>14 DEF ReadAll
  <1>15. CASE MarkFailed(x) \/ EndIngest(x) \/ Reconcile(x) \/ Crash(x)
    BY <1>1, <1>15 DEF MarkFailed, EndIngest, Reconcile, Crash
  <1> QED
    BY <1>5, <1>6, <1>7, <1>8, <1>9, <1>10, <1>11, <1>12, <1>13, <1>14, <1>15 DEF Step

LEMMA OwnFacts ==
  ASSUME Typed, NEW x \in Proc, Step(x), pc[x] # "idle", pc'[x] # "idle", Facts(x)
  PROVE  Facts(x)'
  <1>1. CASE BeginRebuild(x) \/ \E t \in Target, forced \in BOOLEAN : BeginIngest(x, t, forced)
    BY <1>1 DEF BeginRebuild, BeginIngest, BeginCall
  <1>2. CASE MarkFailed(x) \/ EndIngest(x) \/ Reconcile(x) \/ Crash(x)
    BY <1>2, ReturnTyped DEF MarkFailed, EndIngest, Reconcile, Crash
  <1>3. CASE RecordRowsFails(x) \/ UpsertFails(x) \/ Raise(x)
    <2>1. pc[x] \in Ingesting /\ Abandon(x) /\ latest' = latest
      BY <1>3 DEF RecordRowsFails, UpsertFails, Raise, FinishRun, dbVars, Ingesting, AtFile, AtStale
    <2> QED
      BY <2>1, AbandonFacts
  <1>4. CASE \E f \in Path : ForgetStale(x, f) \/ Hash(x, f)
    BY <1>4, ForgetStaleFacts, HashFacts
  <1>5. CASE FindStale(x) \/ DropStaleVectors(x)
    BY <1>5, FindStaleFacts, DropStaleVectorsFacts
  <1>6. CASE Compare(x) \/ DropRows(x) \/ DropVectors(x)
    BY <1>6, CompareFacts, DropRowsFacts, DropVectorsFacts
  <1>7. CASE Process(x) \/ RecordManifest(x) \/ RecordRows(x) \/ Upsert(x)
    BY <1>7, ProcessFacts, RecordManifestFacts, RecordRowsFacts, UpsertFacts
  <1>8. CASE Catch(x) \/ ReadAll(x) \/ Rebuild(x)
    BY <1>8, CatchFacts, ReadAllFacts, RebuildFacts
  <1> QED
    BY <1>1, <1>2, <1>3, <1>4, <1>5, <1>6, <1>7, <1>8 DEF Step

LEMMA InitInv == Init => Inv
  <1> SUFFICES ASSUME Init PROVE Inv
    OBVIOUS
  <1>1. Chunk = Path \X Piece /\ 0 \in 0 .. MaxCalls /\ 0 \in 0 .. MaxEdits
    BY IngestConstantsOK DEF Chunk
  <1>2. IngestTypeOK
    BY <1>1 DEF Init, IngestTypeOK, Label, RunState
  <1>3. \A x \in Proc : CallTyped(x) /\ AloneInv(x)
    BY DEF Init, CallTyped, AloneInv, Ingesting, AtFile, AtStale
  <1> QED
    BY <1>2, <1>3 DEF Inv, Typed

LEMMA StepInv == Inv /\ [Next]_vars => Inv'
  <1> SUFFICES ASSUME Inv, [Next]_vars PROVE Inv'
    OBVIOUS
  <1>1. ASSUME NEW x \in Proc, Step(x)
        PROVE  Inv'
    <2>1. Typed'
      BY <1>1, StepTyped DEF Inv
    <2>2. CASE pc[x] = "idle"
      <3>1. BeginRebuild(x) \/ \E t \in Target, forced \in BOOLEAN : BeginIngest(x, t, forced)
        BY <1>1, <2>2 DEF Step, FindStale, ForgetStale, DropStaleVectors, Hash, Compare, DropRows,
           DropVectors, Process, RecordManifest, RecordRows, RecordRowsFails, Upsert, UpsertFails,
           Raise, Catch, Return, Advance, MarkFailed, EndIngest, ReadAll, Rebuild, Reconcile, Crash
      <3> QED
        BY <2>1, <3>1, BeginIngestAlone, BeginRebuildAlone DEF Inv
    <2>3. CASE pc[x] # "idle"
      <3>1. \A y \in Proc \ {x} : pc'[y] = pc[y] /\ quiet'[y] = quiet[y]
        BY <1>1, <2>3, OwnStep DEF Inv
      <3>2. \A y \in Proc \ {x} : AloneInv(y)'
        BY <2>3, <3>1, OthersAlone
      <3>3. AloneInv(x)'
        <4>1. CASE pc'[x] = "idle"
          BY <4>1 DEF AloneInv
        <4>2. CASE pc'[x] # "idle"
          <5>1. quiet' = quiet
            BY <1>1, <2>3, <4>2, OwnStep DEF Inv
          <5>2. Facts(x) => Facts(x)'
            BY <1>1, <2>3, <4>2, OwnFacts DEF Inv
          <5> QED
            BY <2>3, <3>1, <5>1, <5>2, GoesOn
        <4> QED
          BY <4>1, <4>2
      <3> QED
        BY <2>1, <3>2, <3>3 DEF Inv
    <2> QED
      BY <2>2, <2>3
  <1>2. ASSUME NEW f \in Path, NEW c \in Content \cup {Absent}, EditFile(f, c)
        PROVE  Inv'
    <2>1. Typed'
      BY <1>2, OutsideTyped DEF Inv
    <2>2. \A x \in Proc : AloneInv(x)'
      <3>1. \A x \in Proc : quiet'[x] => pc'[x] = "idle"
        BY <1>2 DEF EditFile, callVars
      <3> QED
        BY <3>1 DEF AloneInv
    <2> QED
      BY <2>1, <2>2 DEF Inv
  <1>3. CASE UNCHANGED vars
    <2>1. Typed'
      BY <1>3, OutsideTyped DEF Inv
    <2>2. \A x \in Proc : AloneInv(x)'
      <3> USE <1>3 DEF vars, dbVars, callVars
      <3> SUFFICES ASSUME NEW x \in Proc PROVE AloneInv(x)'
        OBVIOUS
      <3>1. StaleInv(x) => StaleInv(x)'
        BY DEF StaleInv, Found, Listed
      <3>2. LoopInv(x) => LoopInv(x)'
        BY DEF LoopInv, Found, Listed, Behind, Recorded, Expected, Repaired, RowsAre, VectorsAre
      <3>3. FileInv(x) => FileInv(x)'
        BY DEF FileInv, Found, Expected, RowsAre, VectorsAre
      <3>4. RunInv(x) => RunInv(x)'
        BY DEF RunInv
      <3>5. RebuildInv(x) => RebuildInv(x)'
        BY DEF RebuildInv, OfFailedRuns, Stored
      <3> QED
        BY <3>1, <3>2, <3>3, <3>4, <3>5 DEF Inv, AloneInv, Facts
    <2> QED
      BY <2>1, <2>2 DEF Inv
  <1> QED
    BY <1>1, <1>2, <1>3 DEF Next

-----------------------------------------------------------------------------
(* Theorems. *)

\* No row refers to what is no target, no file is at a call that has none, and
\* every counter keeps its bound (service.py 59-168).
THEOREM TypeCorrect == Spec => []IngestTypeOK
  <1>1. Inv => IngestTypeOK
    BY DEF Inv, Typed
  <1> QED
    BY <1>1, InitInv, StepInv, PTL DEF Spec

\* What a call that is alone leaves when it ends an ingest.
LEMMA Ended ==
  ASSUME Inv, NEW x \in Proc, pc[x] = "next", todo[x] = {}, quiet[x]
  PROVE  /\ target[x] \in Target
         /\ target[x] \in Directory => Listed \subseteq Found(target[x])
         /\ \A f \in Found(target[x]) :
               f \in Path /\ Recorded(f) /\ (force[x] => Repaired(f))
  <1>1. Facts(x) /\ target[x] \in Target /\ file[x] = Nil
    BY DEF Inv, AloneInv, Typed, CallTyped, Ingesting, AtFile
  <1>2. Found(target[x]) \subseteq Path /\ Nil \notin Path
    BY <1>1, IngestConstantsOK DEF Found
  <1>3. Behind(x) = Found(target[x])
    BY <1>1, <1>2 DEF Behind
  <1> QED
    BY <1>1, <1>2, <1>3 DEF Facts, LoopInv

\* A forced ingest that nothing overlapped ends with exactly the chunks of the
\* files it found in the rows and in the index, whatever was left in them by
\* crashes, failures and calls that overlapped before (service.py 118-140).
THEOREM ForcedIngestRepairsAlways == Spec => ForcedIngestRepairs
  <1> DEFINE A ==
        \A x \in Proc : (EndIngest(x) /\ quiet[x] /\ force[x]) =>
            \A f \in Found(target[x]) :
                /\ Stored \cap ChunksOf(f) = Expected(f)
                /\ vectors \cap ChunksOf(f) = Expected(f)
  <1>1. Inv => A
    <2> SUFFICES ASSUME Inv, NEW x \in Proc, EndIngest(x), quiet[x], force[x],
                        NEW f \in Found(target[x])
                 PROVE  /\ Stored \cap ChunksOf(f) = Expected(f)
                        /\ vectors \cap ChunksOf(f) = Expected(f)
      OBVIOUS
    <2>1. f \in Path /\ Repaired(f)
      BY Ended DEF EndIngest
    <2>2. Expected(f) = {f} \X Pieces[disk[f]] /\ Pieces[disk[f]] \subseteq Piece
      BY <2>1, IngestConstantsOK DEF Expected, Found, Inv, Typed, IngestTypeOK
    <2>3. ChunksOf(f) \subseteq Chunk
      BY <2>1 DEF ChunksOf, Chunk
    <2> QED
      BY <2>1, <2>2, <2>3 DEF Repaired, RowsAre, VectorsAre, ChunksOf, Stored
  <1>2. Inv /\ [Next]_vars => [A]_vars
    BY <1>1
  <1> QED
    BY <1>2, InitInv, StepInv, PTL DEF Spec, ForcedIngestRepairs

\* An ingest that nothing overlapped leaves the manifest as the disk is: for a
\* directory no path it did not find, and for every file that has chunks its
\* hash of now (service.py 104-133).
THEOREM ManifestMatchesDiskAlways == Spec => ManifestMatchesDisk
  <1> DEFINE A ==
        \A x \in Proc : (EndIngest(x) /\ quiet[x]) =>
            /\ target[x] \in Directory => Listed \subseteq Found(target[x])
            /\ \A f \in Found(target[x]) : manifest[f] = disk[f] \/ Expected(f) = {}
  <1>1. Inv => A
    BY Ended DEF EndIngest, Recorded
  <1>2. Inv /\ [Next]_vars => [A]_vars
    BY <1>1
  <1> QED
    BY <1>2, InitInv, StepInv, PTL DEF Spec, ManifestMatchesDisk

\* A rebuild that nothing overlapped reconciles the failed runs with all their
\* chunks in the index (service.py 162-168).
THEOREM ReconciledIsIndexedAlways == Spec => ReconciledIsIndexed
  <1> DEFINE A ==
        \A x \in Proc : (Reconcile(x) /\ quiet[x]) => OfFailedRuns \subseteq vectors
  <1>1. Inv => A
    BY DEF Inv, AloneInv, Facts, RebuildInv, Reconcile
  <1>2. Inv /\ [Next]_vars => [A]_vars
    BY <1>1
  <1> QED
    BY <1>2, InitInv, StepInv, PTL DEF Spec, ReconciledIsIndexed

\* The handler of a call that nothing overlapped never writes FAILED over the
\* FAILED_VECTOR_UPSERT of its own run, although it asks for the state of the
\* latest run (service.py 137-149).
THEOREM UpsertFailureKeptAlways == Spec => UpsertFailureKept
  <1> DEFINE A ==
        \A x \in Proc : (MarkFailed(x) /\ quiet[x]) =>
            runState[target[x]] # "FAILED_VECTOR_UPSERT"
  <1>1. Inv => A
    BY DEF Inv, AloneInv, Facts, RunInv, MarkFailed
  <1>2. Inv /\ [Next]_vars => [A]_vars
    BY <1>1
  <1> QED
    BY <1>2, InitInv, StepInv, PTL DEF Spec, UpsertFailureKept

=============================================================================
