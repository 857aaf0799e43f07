---------------------------- MODULE MemoryProofs ----------------------------
(***************************************************************************)
(* Theorems about ActivePartition and Memory for any number of processes,  *)
(* projects, conversations and rows, however calls fail, die or overlap.   *)
(*                                                                         *)
(* IndexedIsInIndex and VectorHasRow are not inductive: between the two    *)
(* stores a row is in the hands of a call.  CallInv says what each of the  *)
(* calls knows of its row: before the INSERT that nobody else has it       *)
(* (InsertsAreDistinct), and after it that it has the project of the call, *)
(* whatever the active project has become.                                 *)
(*                                                                         *)
(* The types come last: of what the watcher and the rebuild choose, that   *)
(* there is a newest conversation and an oldest row.                       *)
(***************************************************************************)
EXTENDS Memory, WellFoundedInduction, TLAPS

InsertLabel == {"insertMemory", "insertSnapshot"}
RowLabel    == {"embed", "upsert", "mark", "markFailed"}

\* What the proofs need of the types.
CallsAreTyped ==
    /\ DOMAIN pc = Switcher
    /\ project \in [Switcher -> Project \cup {Nil}]
    /\ conv \in [Switcher -> Conv \cup {Nil}]
    /\ active \in [project: Project \cup {Nil}, conv: Conv \cup {Nil}, source: Source] \cup {Nil}
    /\ pc[Watcher] \in {"settle", "stat"} => conv[Watcher] \in Conv
    /\ record \in [Caller -> Nat]
    /\ todo \in [Caller -> SUBSET Record]
    /\ created \in 0 .. MaxRecords
    /\ rows \in [Record -> Row \cup {Nil}]
    /\ DOMAIN vectors = Record

\* A switch that is past its first commit has a project that is known.
SwitchesAreKnown ==
    \A x \in Switcher : pc[x] \in {"active", "event"} => project[x] \in projects

\* What a call knows of the row it is at, and of those it has still to do.
CallInv(x) ==
    /\ pc[x] \in RowLabel =>
          /\ record[x] \in Record
          /\ rows[record[x]] # Nil
          /\ rows[record[x]].project = project[x]
    /\ pc[x] = "mark" => vectors[record[x]] = project[x]
    /\ pc[x] \in InsertLabel => record[x] \in 1 .. created /\ rows[record[x]] = Nil
    /\ todo[x] # {} => pc[x] \in RowLabel
    /\ \A i \in todo[x] : rows[i] # Nil

InsertsAreDistinct ==
    \A x, y \in Caller :
        pc[x] \in InsertLabel /\ pc[y] \in InsertLabel /\ record[x] = record[y] => x = y

\* No row is there before it was begun.
RowsWereBegun == \A i \in Record : i > created => rows[i] = Nil

PartitionInv == SwitchesAreKnown /\ ActiveIsKnown

MemoryInv ==
    /\ \A x \in Caller : CallInv(x)
    /\ InsertsAreDistinct
    /\ RowsWereBegun
    /\ IndexedIsInIndex
    /\ VectorHasRow

Inv == CallsAreTyped /\ PartitionInv /\ MemoryInv

-----------------------------------------------------------------------------

\* A set of numbers has a least one, so that a call takes its next row from
\* those it has to do.
LEMMA LeastOf ==
  ASSUME NEW S, S \subseteq Nat, S # {}
  PROVE  LET least == CHOOSE j \in S : \A k \in S : j <= k
         IN  least \in S /\ \A k \in S : least <= k
  <1>1. PICK j \in S : \A k \in S : ~(<<k, j>> \in OpToRel(<, Nat))
    BY NatLessThanWellFounded, WFMin
  <1>2. ASSUME NEW k \in S, k < j PROVE FALSE
    <2>1. <<k, j>> \in {ss \in Nat \X Nat : ss[1] < ss[2]}
      BY <1>2
    <2>2. <<k, j>> \in OpToRel(<, Nat)
      BY <2>1, Zenon DEF OpToRel
    <2> QED
      BY <1>1, <2>2
  <1>3. \A k \in S : j <= k
    BY <1>2
  <1> QED
    BY <1>3

\* Nothing has been written, and no call has begun.
LEMMA InitInv == Init => Inv
  <1> SUFFICES ASSUME Init PROVE Inv
    OBVIOUS
  <1> USE DEF Init, PartitionInit
  <1>1. CallsAreTyped
    BY MemoryConstantsOK DEF CallsAreTyped, Switcher
  <1>2. PartitionInv
    BY DEF PartitionInv, SwitchesAreKnown, ActiveIsKnown, Switcher
  <1>3. MemoryInv
    BY DEF MemoryInv, CallInv, InsertsAreDistinct, RowsWereBegun, IndexedIsInIndex,
       VectorHasRow, RowLabel, InsertLabel, Switcher
  <1> QED
    BY <1>1, <1>2, <1>3 DEF Inv

-----------------------------------------------------------------------------
(* Switches. *)

\* A step of a switch or of the watcher keeps the types, and moves no call of
\* memory.
LEMMA SwitchTyped ==
  ASSUME CallsAreTyped, PartitionNext, UNCHANGED memoryVars
  PROVE  /\ CallsAreTyped'
         /\ \A x \in Caller :
              \/ pc'[x] = pc[x] /\ project'[x] = project[x]
              \/ /\ pc[x] \notin RowLabel \cup InsertLabel
                 /\ pc'[x] \notin RowLabel \cup InsertLabel
  <1> DEFINE Typed ==
               /\ DOMAIN pc' = Switcher
               /\ project' \in [Switcher -> Project \cup {Nil}]
               /\ conv' \in [Switcher -> Conv \cup {Nil}]
               /\ active' \in [project: Project \cup {Nil}, conv: Conv \cup {Nil}, source: Source] \cup {Nil}
               /\ pc'[Watcher] \in {"settle", "stat"} => conv'[Watcher] \in Conv
             Apart ==
               \A x \in Caller :
                 \/ pc'[x] = pc[x] /\ project'[x] = project[x]
                 \/ /\ pc[x] \notin RowLabel \cup InsertLabel
                    /\ pc'[x] \notin RowLabel \cup InsertLabel
  <1> SUFFICES Typed /\ Apart
    BY DEF CallsAreTyped, memoryVars
  <1> USE DEF CallsAreTyped, Goto, Return, RowLabel, InsertLabel, Switcher
  <1>1. ASSUME NEW y \in Caller, NEW p \in Project, BeginSwitch(y, p)
        PROVE  Typed /\ Apart
    BY <1>1 DEF BeginSwitch
  <1>2. ASSUME NEW y \in Caller, NEW k \in Conv, BeginConversationSwitch(y, k)
        PROVE  Typed /\ Apart
    <2>1. FolderOf[k] \in Project
      BY <1>2, PartitionConstantsOK DEF BeginConversationSwitch, MapStatus
    <2> QED
      BY <1>2, <2>1 DEF BeginConversationSwitch
  <1>3. ASSUME NEW y \in Switcher, UpsertMemoryProject(y) PROVE Typed /\ Apart
    BY <1>3 DEF UpsertMemoryProject, callVars
  <1>4. ASSUME NEW y \in Switcher, SetActivePartition(y) PROVE Typed /\ Apart
    BY <1>4 DEF SetActivePartition, callVars, SourceOf, Source
  <1>5. ASSUME NEW y \in Switcher, RecordConversationEvent(y) PROVE Typed /\ Apart
    BY <1>5 DEF RecordConversationEvent
  <1>6. CASE Poll
    BY <1>6, PartitionConstantsOK DEF Poll, Newest
  <1>7. CASE Settle
    BY <1>7, PartitionConstantsOK DEF Settle, WatcherReturns, callVars
  <1>8. CASE Stat
    <2>1. CASE WatcherReturns
      BY <1>8, <2>1, PartitionConstantsOK DEF Stat, WatcherReturns
    <2>2. CASE ~WatcherReturns
      <3>1. conv[Watcher] \in Conv
        BY <1>8 DEF Stat
      <3>2. FolderOf[conv[Watcher]] \in Project
        BY <1>8, <2>2, <3>1, PartitionConstantsOK DEF Stat, MapStatus
      <3> QED
        BY <1>8, <2>2, <3>1, <3>2, PartitionConstantsOK DEF Stat
    <2> QED
      BY <2>1, <2>2
  <1>9. ASSUME NEW y \in Switcher, SwitchFails(y) PROVE Typed /\ Apart
    BY <1>9, PartitionConstantsOK DEF SwitchFails
  <1>10. ASSUME NEW k \in Conv, NEW written \in BOOLEAN, EditConversation(k, written)
         PROVE  Typed /\ Apart
    BY <1>10 DEF EditConversation, callVars
  <1> QED
    BY <1>1, <1>2, <1>3, <1>4, <1>5, <1>6, <1>7, <1>8, <1>9, <1>10
       DEF PartitionNext, WatcherStep, SwitchStep

\* The project of a switch is inserted before the active row and the event,
\* which name it.
LEMMA SwitchKnown ==
  ASSUME CallsAreTyped, PartitionInv, PartitionNext
  PROVE  PartitionInv'
  <1> USE DEF CallsAreTyped, Goto, Return, PartitionInv, SwitchesAreKnown, ActiveIsKnown
  <1>1. ASSUME NEW y \in Caller, NEW p \in Project, BeginSwitch(y, p) PROVE PartitionInv'
    BY <1>1 DEF BeginSwitch
  <1>2. ASSUME NEW y \in Caller, NEW k \in Conv, BeginConversationSwitch(y, k)
        PROVE  PartitionInv'
    BY <1>2 DEF BeginConversationSwitch
  <1>3. ASSUME NEW y \in Switcher, UpsertMemoryProject(y) PROVE PartitionInv'
    BY <1>3 DEF UpsertMemoryProject, callVars
  <1>4. ASSUME NEW y \in Switcher, SetActivePartition(y) PROVE PartitionInv'
    BY <1>4 DEF SetActivePartition, callVars
  <1>5. ASSUME NEW y \in Switcher, RecordConversationEvent(y) PROVE PartitionInv'
    BY <1>5 DEF RecordConversationEvent
  <1>6. CASE Poll
    BY <1>6 DEF Poll
  <1>7. CASE Settle
    BY <1>7 DEF Settle, WatcherReturns, callVars
  <1>8. CASE Stat
    BY <1>8 DEF Stat, WatcherReturns
  <1>9. ASSUME NEW y \in Switcher, SwitchFails(y) PROVE PartitionInv'
    BY <1>9 DEF SwitchFails
  <1>10. ASSUME NEW k \in Conv, NEW written \in BOOLEAN, EditConversation(k, written)
         PROVE  PartitionInv'
    BY <1>10 DEF EditConversation, callVars
  <1> QED
    BY <1>1, <1>2, <1>3, <1>4, <1>5, <1>6, <1>7, <1>8, <1>9, <1>10
       DEF PartitionNext, WatcherStep, SwitchStep, Switcher

\* So switches keep the invariant.
LEMMA SwitchInv ==
  ASSUME Inv, PartitionNext, UNCHANGED memoryVars
  PROVE  Inv'
  <1>1. CallsAreTyped' /\ PartitionInv'
    BY SwitchTyped, SwitchKnown DEF Inv
  <1>2. \A x \in Caller :
              \/ pc'[x] = pc[x] /\ project'[x] = project[x]
              \/ /\ pc[x] \notin RowLabel \cup InsertLabel
                 /\ pc'[x] \notin RowLabel \cup InsertLabel
    BY SwitchTyped DEF Inv
  <1>3. MemoryInv'
    BY <1>2 DEF Inv, MemoryInv, memoryVars, CallInv, InsertsAreDistinct, RowsWereBegun,
       IndexedIsInIndex, VectorHasRow, RowLabel, InsertLabel
  <1> QED
    BY <1>1, <1>3 DEF Inv

-----------------------------------------------------------------------------
(* The calls of memory. *)

\* A step of the call x leaves the other calls, and the partition, alone.
Alone(x) ==
    /\ UNCHANGED <<projects, active, events>>
    /\ \A y \in Switcher \ {x} : pc'[y] = pc[y] /\ project'[y] = project[y]
    /\ \A y \in Caller \ {x} : record'[y] = record[y] /\ todo'[y] = todo[y]
    /\ pc'[x] \notin {"active", "event"}

\* It may add a row that no other call is to insert; the rows that are there
\* keep their project, and their vectors are of it.
RowsStay(x) ==
    /\ created <= created'
    /\ \A i \in Record : rows[i] # Nil => rows'[i] # Nil /\ rows'[i].project = rows[i].project
    /\ \A i \in Record : rows[i] = Nil /\ rows'[i] # Nil =>
          pc[x] \in InsertLabel /\ i = record[x]
    /\ \A i \in Record : rows[i] # Nil => vectors'[i] \in {vectors[i], rows[i].project}

\* Then the others know what they knew.
LEMMA OthersKeep ==
  ASSUME Inv, CallsAreTyped', NEW x \in Caller, Alone(x), RowsStay(x)
  PROVE  PartitionInv' /\ \A y \in Caller \ {x} : CallInv(y)'
  <1>1. PartitionInv'
    BY DEF Inv, PartitionInv, SwitchesAreKnown, ActiveIsKnown, Alone
  <1>2. ASSUME NEW y \in Caller, y # x PROVE CallInv(y)'
    <2> DEFINE i == record[y]
    <2>1. /\ pc'[y] = pc[y] /\ project'[y] = project[y]
          /\ record'[y] = i /\ todo'[y] = todo[y]
      BY <1>2 DEF Alone, Switcher
    <2>2. CallInv(y) /\ todo[y] \subseteq Record
      BY DEF Inv, MemoryInv, CallsAreTyped
    <2>3. ASSUME pc[y] \in RowLabel
          PROVE  /\ i \in Record /\ rows'[i] # Nil /\ rows'[i].project = project[y]
                 /\ pc[y] = "mark" => vectors'[i] = project[y]
      BY <2>2, <2>3 DEF CallInv, RowsStay
    <2>4. ASSUME pc[y] \in InsertLabel
          PROVE  i \in 1 .. created' /\ rows'[i] = Nil
      <3>1. i \in 1 .. created /\ rows[i] = Nil
        BY <2>2, <2>4 DEF CallInv
      <3>2. created \in Nat /\ created' \in Nat /\ created <= created' /\ created' <= MaxRecords
        BY MemoryConstantsOK DEF Inv, CallsAreTyped, RowsStay
      <3>3. i \in Record /\ i \in 1 .. created'
        BY <3>1, <3>2, MemoryConstantsOK DEF Record
      <3>4. ~(pc[x] \in InsertLabel /\ i = record[x])
        BY <1>2, <2>4 DEF Inv, MemoryInv, InsertsAreDistinct
      <3> QED
        BY <3>1, <3>3, <3>4 DEF RowsStay
    <2>5. \A j \in todo[y] : rows'[j] # Nil
      BY <2>2 DEF CallInv, RowsStay
    <2> QED
      BY <2>1, <2>2, <2>3, <2>4, <2>5 DEF CallInv, RowLabel
  <1> QED
    BY <1>1, <1>2

\* A step that writes neither rows nor vectors has only its own call to see to.
LEMMA QuietStep ==
  ASSUME Inv, CallsAreTyped', NEW x \in Caller, Alone(x), CallInv(x)',
         UNCHANGED rowVars, pc'[x] \notin InsertLabel
  PROVE  Inv'
  <1>1. UNCHANGED <<rows, vectors, created>>
    BY DEF rowVars
  <1>2. RowsStay(x)
    BY <1>1, MemoryConstantsOK DEF RowsStay, Inv, CallsAreTyped
  <1>3. PartitionInv' /\ \A y \in Caller : CallInv(y)'
    BY <1>2, OthersKeep
  <1>4. InsertsAreDistinct'
    BY DEF Inv, MemoryInv, InsertsAreDistinct, Alone, Switcher
  <1>5. RowsWereBegun' /\ IndexedIsInIndex' /\ VectorHasRow'
    BY <1>1 DEF Inv, MemoryInv, RowsWereBegun, IndexedIsInIndex, VectorHasRow
  <1> QED
    BY <1>3, <1>4, <1>5 DEF Inv, MemoryInv

\* Embeddings, whatever comes of them.
LEMMA EmbedInv ==
  ASSUME Inv, NEW x \in Caller, Embed(x) \/ EmbedFails(x) \/ UpsertRefused(x) \/ UpsertFails(x)
  PROVE  Inv'
  <1> USE PartitionConstantsOK DEF Switcher, Goto
  <1>1. /\ UNCHANGED <<project, conv, projects, active, events, rows, vectors, created, record, todo>>
        /\ pc' = [pc EXCEPT ![x] = pc'[x]] /\ pc'[x] \in {"upsert", "markFailed"}
        /\ pc[x] \in RowLabel
    BY DEF Inv, CallsAreTyped, Embed, EmbedFails, UpsertRefused, UpsertFails, NoSwitch, rowVars, memoryVars, RowLabel
  <1>2. CallsAreTyped'
    BY <1>1 DEF Inv, CallsAreTyped
  <1>3. Alone(x)
    BY <1>1 DEF Alone, Inv, CallsAreTyped
  <1>4. CallInv(x)'
    BY <1>1 DEF Inv, MemoryInv, CallInv, RowLabel, InsertLabel
  <1> QED
    BY <1>1, <1>2, <1>3, <1>4, QuietStep DEF rowVars, InsertLabel

\* A search, and the end of any call.
LEMMA ReturnInv ==
  ASSUME Inv, NEW x \in Caller, Search(x) \/ CallFails(x)
  PROVE  Inv'
  <1> USE PartitionConstantsOK DEF Switcher, Goto
  <1>1. /\ UNCHANGED <<projects, active, events, rows, vectors, created>>
        /\ Return(x)
        /\ \A y \in Caller \ {x} : record'[y] = record[y] /\ todo'[y] = todo[y]
        /\ record' \in [Caller -> Nat] /\ todo' \in [Caller -> SUBSET Record]
        /\ todo'[x] = {}
    <2>1. CASE Search(x)
      <3>1. todo[x] = {}
        BY <2>1 DEF Search, Inv, MemoryInv, CallInv, RowLabel
      <3> QED
        BY <2>1, <3>1 DEF Search, rowVars, Inv, CallsAreTyped
    <2>2. CASE CallFails(x)
      BY <2>2 DEF CallFails, rowVars, Inv, CallsAreTyped
    <2> QED
      BY <2>1, <2>2
  <1>2. CallsAreTyped'
    BY <1>1 DEF Inv, CallsAreTyped, Return
  <1>3. Alone(x)
    BY <1>1 DEF Alone, Inv, CallsAreTyped, Return
  <1>4. CallInv(x)' /\ pc'[x] = "idle"
    BY <1>1 DEF Inv, CallsAreTyped, CallInv, Return, RowLabel, InsertLabel
  <1> QED
    BY <1>1, <1>2, <1>3, <1>4, QuietStep DEF rowVars, InsertLabel

\* The begin of a search or of a rebuild, which takes rows that are there.
LEMMA BeginQuietInv ==
  ASSUME Inv, NEW x \in Caller, BeginSearch(x) \/ \E p \in Project : BeginRebuild(x, p)
  PROVE  Inv'
  <1> USE PartitionConstantsOK DEF Switcher, Goto
  <1>1. CASE BeginSearch(x)
    <2>1. todo[x] = {}
      BY <1>1 DEF BeginSearch, Inv, MemoryInv, CallInv, RowLabel
    <2>2. CallsAreTyped' /\ Alone(x)
      BY <1>1 DEF BeginSearch, NoSwitch, memoryVars, Inv, CallsAreTyped, Alone
    <2>3. CallInv(x)' /\ pc'[x] = "search" /\ UNCHANGED rowVars
      BY <1>1, <2>1 DEF BeginSearch, memoryVars, rowVars, Inv, CallsAreTyped, CallInv, RowLabel, InsertLabel
    <2> QED
      BY <2>2, <2>3, QuietStep DEF InsertLabel
  <1>2. ASSUME NEW p \in Project, BeginRebuild(x, p) PROVE Inv'
    <2> DEFINE due == ForReindex(p)
               i   == CHOOSE j \in due : \A k \in due : j <= k
    <2>1. /\ pc' = [pc EXCEPT ![x] = "embed"]
          /\ project' = [project EXCEPT ![x] = p]
          /\ record' = [record EXCEPT ![x] = i]
          /\ todo' = [todo EXCEPT ![x] = due \ {i}]
          /\ due # {}
          /\ UNCHANGED <<projects, active, events, conv, rows, vectors, created>>
      BY <1>2 DEF BeginRebuild, NoSwitch, rowVars
    <2>2. due \subseteq Record /\ \A j \in due : rows[j] # Nil /\ rows[j].project = p
      BY DEF ForReindex
    <2> HIDE DEF due
    <2>3. due \subseteq Nat
      BY <2>2, MemoryConstantsOK DEF Record
    <2>4. i \in due
      BY <2>1, <2>3, LeastOf
    <2> HIDE DEF i
    <2>5. i \in Nat /\ i \in Record
      BY <2>2, <2>3, <2>4
    <2>6. CallsAreTyped' /\ Alone(x)
      BY <2>1, <2>2, <2>5 DEF Inv, CallsAreTyped, Alone
    <2>7. CallInv(x)' /\ pc'[x] = "embed"
      BY <2>1, <2>2, <2>4, <2>5 DEF Inv, CallsAreTyped, CallInv, RowLabel, InsertLabel
    <2> QED
      BY <2>1, <2>6, <2>7, QuietStep DEF InsertLabel, rowVars
  <1> QED
    BY <1>1, <1>2

\* A vector is written under the project of the call, which is that of the row.
LEMMA UpsertInv ==
  ASSUME Inv, NEW x \in Caller, Upsert(x)
  PROVE  Inv'
  <1> USE PartitionConstantsOK DEF Switcher, Goto
  <1>1. /\ UNCHANGED <<project, conv, projects, active, events, rows, created, record, todo>>
        /\ pc' = [pc EXCEPT ![x] = "mark"] /\ pc[x] = "upsert"
        /\ vectors' = [vectors EXCEPT ![record[x]] = project[x]]
    BY DEF Upsert, NoSwitch
  <1>2. CallsAreTyped' /\ Alone(x)
    BY <1>1 DEF Inv, CallsAreTyped, Alone
  <1>3. record[x] \in Record /\ rows[record[x]] # Nil /\ rows[record[x]].project = project[x]
    BY <1>1 DEF Inv, MemoryInv, CallInv, RowLabel
  <1>4. \A i \in Record : vectors'[i] = IF i = record[x] THEN project[x] ELSE vectors[i]
    BY <1>1 DEF Inv, CallsAreTyped
  <1>5. RowsStay(x)
    BY <1>1, <1>3, <1>4, MemoryConstantsOK DEF RowsStay, Inv, CallsAreTyped
  <1>6. CallInv(x)' /\ pc'[x] \notin InsertLabel
    BY <1>1, <1>3, <1>4 DEF Inv, MemoryInv, CallsAreTyped, CallInv, RowLabel, InsertLabel
  <1>7. PartitionInv' /\ \A y \in Caller : CallInv(y)'
    BY <1>2, <1>5, <1>6, OthersKeep
  <1>8. InsertsAreDistinct' /\ RowsWereBegun'
    BY <1>1, <1>6 DEF Inv, MemoryInv, CallsAreTyped, InsertsAreDistinct, RowsWereBegun
  <1>9. IndexedIsInIndex' /\ VectorHasRow'
    BY <1>1, <1>3, <1>4 DEF Inv, MemoryInv, IndexedIsInIndex, VectorHasRow
  <1> QED
    BY <1>2, <1>7, <1>8, <1>9 DEF Inv, MemoryInv

\* A call that is done with a row takes the next, or returns.
LEMMA NextRecordTyped ==
  ASSUME CallsAreTyped, NEW x \in Caller, CallInv(x), NextRecord(x),
         conv' \in [Switcher -> Conv \cup {Nil}], conv'[Watcher] = conv[Watcher],
         rows' \in [Record -> Row \cup {Nil}], vectors' = vectors,
         created' \in 0 .. MaxRecords, active' = active,
         \A i \in Record : rows[i] # Nil =>
            rows'[i] # Nil /\ rows'[i].project = rows[i].project
  PROVE  /\ CallsAreTyped' /\ CallInv(x)' /\ pc'[x] \in {"idle", "embed"}
         /\ \A y \in Switcher \ {x} : pc'[y] = pc[y] /\ project'[y] = project[y]
         /\ \A y \in Caller \ {x} : record'[y] = record[y] /\ todo'[y] = todo[y]
  <1> USE PartitionConstantsOK DEF Switcher, Goto
  <1>1. CASE todo[x] = {}
    <2>1. /\ Return(x) /\ record' = [record EXCEPT ![x] = 0] /\ UNCHANGED todo
      BY <1>1 DEF NextRecord
    <2> QED
      BY <1>1, <2>1 DEF CallsAreTyped, Return, CallInv, RowLabel, InsertLabel
  <1>2. CASE todo[x] # {}
    <2> DEFINE i == CHOOSE j \in todo[x] : \A k \in todo[x] : j <= k
    <2>1. /\ record' = [record EXCEPT ![x] = i]
          /\ todo' = [todo EXCEPT ![x] = @ \ {i}]
          /\ project' = [project EXCEPT ![x] = rows[i].project]
          /\ pc' = [pc EXCEPT ![x] = "embed"]
      BY <1>2 DEF NextRecord
    <2>2. todo[x] \subseteq Record /\ todo[x] \subseteq Nat
      BY MemoryConstantsOK DEF CallsAreTyped, Record
    <2>3. i \in todo[x]
      BY <1>2, <2>2, LeastOf
    <2> HIDE DEF i
    <2>4. i \in Record /\ i \in Nat /\ rows[i] # Nil
      BY <2>2, <2>3 DEF CallInv
    <2>5. rows[i] \in Row /\ rows[i].project \in Project \cup {Nil}
      BY <2>4 DEF CallsAreTyped, Row
    <2>6. CallsAreTyped'
      BY <2>1, <2>4, <2>5 DEF CallsAreTyped
    <2>7. \A k \in todo'[x] : rows'[k] # Nil
      BY <2>1, <2>2 DEF CallsAreTyped, CallInv
    <2>8. CallInv(x)'
      BY <2>1, <2>4, <2>7 DEF CallsAreTyped, CallInv, RowLabel, InsertLabel
    <2> QED
      BY <2>1, <2>6, <2>8 DEF CallsAreTyped
  <1> QED
    BY <1>1, <1>2

\* A row is marked: as indexed only by a call that has just written its vector,
\* or found that another had.
LEMMA SetStatusInv ==
  ASSUME Inv, NEW x \in Caller, Mark(x) \/ MarkFailed(x)
  PROVE  Inv'
  <1> USE PartitionConstantsOK DEF Switcher, Goto
  <1> DEFINE i == record[x]
  <1>1. PICK s \in {"indexed", "failed"} :
            /\ SetStatus(x, s)
            /\ s = "indexed" => pc[x] = "mark"
            /\ pc[x] \in RowLabel
    BY DEF Mark, MarkFailed, RowLabel
  <1>2. i \in Record /\ rows[i] # Nil /\ rows[i].project = project[x]
        /\ (s = "indexed" => vectors[i] = project[x])
    BY <1>1 DEF Inv, MemoryInv, CallInv
  <1>3. rows[i] \in Row
    BY <1>2 DEF Inv, CallsAreTyped
  <1> DEFINE r == [rows[i] EXCEPT !.status = s]
  <1>4. r \in Row /\ r.project = rows[i].project /\ r.status = s /\ r # Nil
    BY <1>3, NilIsNoRow DEF Row, Status
  <1> HIDE DEF r
  <1>5. /\ rows' = [rows EXCEPT ![i] = r]
        /\ UNCHANGED <<projects, active, events, conv, vectors, created>>
        /\ NextRecord(x)
    BY <1>1 DEF SetStatus, NoSwitch, r
  <1>6. rows' \in [Record -> Row \cup {Nil}]
        /\ \A k \in Record : rows'[k] = IF k = i THEN r ELSE rows[k]
    BY <1>2, <1>4, <1>5 DEF Inv, CallsAreTyped
  <1>7. \A k \in Record : rows[k] # Nil => rows'[k] # Nil /\ rows'[k].project = rows[k].project
    BY <1>4, <1>6
  <1>8. /\ CallsAreTyped' /\ CallInv(x)' /\ pc'[x] \in {"idle", "embed"}
        /\ \A y \in Switcher \ {x} : pc'[y] = pc[y] /\ project'[y] = project[y]
        /\ \A y \in Caller \ {x} : record'[y] = record[y] /\ todo'[y] = todo[y]
    BY <1>5, <1>6, <1>7, NextRecordTyped DEF Inv, MemoryInv, CallsAreTyped
  <1>9. Alone(x)
    BY <1>5, <1>8 DEF Alone
  <1>10. RowsStay(x)
    BY <1>2, <1>5, <1>6, <1>7, MemoryConstantsOK DEF RowsStay, Inv, CallsAreTyped
  <1>11. PartitionInv' /\ \A y \in Caller : CallInv(y)'
    BY <1>8, <1>9, <1>10, OthersKeep
  <1>12. InsertsAreDistinct' /\ RowsWereBegun'
    BY <1>2, <1>5, <1>6, <1>8 DEF Inv, MemoryInv, InsertsAreDistinct, RowsWereBegun, InsertLabel
  <1>13. IndexedIsInIndex' /\ VectorHasRow'
    BY <1>2, <1>4, <1>5, <1>6 DEF Inv, MemoryInv, IndexedIsInIndex, VectorHasRow
  <1> QED
    BY <1>8, <1>11, <1>12, <1>13 DEF Inv, MemoryInv

\* A call that begins has a row that no other has.
LEMMA BeginRowInv ==
  ASSUME Inv, NEW x \in Caller, BeginCommit(x) \/ BeginSnapshot(x)
  PROVE  Inv'
  <1> USE PartitionConstantsOK DEF Switcher, Goto
  <1>1. /\ UNCHANGED <<projects, active, events, conv, rows, vectors, todo>>
        /\ created < MaxRecords /\ created' = created + 1
        /\ record' = [record EXCEPT ![x] = created + 1]
        /\ pc[x] = "idle"
        /\ pc' = [pc EXCEPT ![x] = pc'[x]] /\ pc'[x] \in InsertLabel
        /\ project' = [project EXCEPT ![x] = project'[x]]
        /\ project'[x] \in Project \cup {Nil}
    BY DEF Inv, CallsAreTyped, BeginCommit, BeginSnapshot, NoSwitch, InsertLabel
  <1>2. created \in Nat /\ created + 1 \in Record /\ MaxRecords \in Nat
    BY <1>1, MemoryConstantsOK DEF Inv, CallsAreTyped, Record
  <1>3. CallsAreTyped' /\ Alone(x)
    BY <1>1, <1>2 DEF Inv, CallsAreTyped, Alone, InsertLabel
  <1>4. rows[created + 1] = Nil
    BY <1>2 DEF Inv, MemoryInv, RowsWereBegun
  <1>5. todo[x] = {}
    BY <1>1 DEF Inv, MemoryInv, CallInv, RowLabel
  <1>6. CallInv(x)'
    BY <1>1, <1>2, <1>4, <1>5 DEF Inv, CallsAreTyped, CallInv, RowLabel, InsertLabel
  <1>7. RowsStay(x)
    BY <1>1, <1>2 DEF RowsStay
  <1>8. PartitionInv' /\ \A y \in Caller : CallInv(y)'
    BY <1>3, <1>6, <1>7, OthersKeep
  <1>9. \A y \in Caller : y # x /\ pc[y] \in InsertLabel => record[y] # created + 1
    BY <1>2 DEF Inv, MemoryInv, CallInv
  <1>10. InsertsAreDistinct'
    BY <1>1, <1>9 DEF Inv, MemoryInv, CallsAreTyped, InsertsAreDistinct
  <1>11. RowsWereBegun' /\ IndexedIsInIndex' /\ VectorHasRow'
    BY <1>1, <1>2 DEF Inv, MemoryInv, RowsWereBegun, IndexedIsInIndex, VectorHasRow, Record
  <1> QED
    BY <1>3, <1>8, <1>10, <1>11 DEF Inv, MemoryInv

\* The row of a call is inserted, under the project it began with; a snapshot
\* of no project is done with.
LEMMA InsertInv ==
  ASSUME Inv, NEW x \in Caller, InsertMemory(x) \/ InsertSnapshot(x)
  PROVE  Inv'
  <1> USE PartitionConstantsOK DEF Switcher, Goto
  <1> DEFINE i == record[x]
  <1>1. PICK kind \in Kind :
            /\ rows' = [rows EXCEPT ![i] =
                          [kind |-> kind, project |-> project[x], status |-> "pending"]]
            /\ UNCHANGED <<projects, active, events, vectors, created>>
            /\ pc[x] \in InsertLabel
            /\ \/ NextRecord(x)
               \/ /\ pc' = [pc EXCEPT ![x] = "embed"]
                  /\ UNCHANGED <<project, conv, record, todo>>
    <2>1. CASE InsertMemory(x)
      BY <2>1 DEF InsertMemory, NoSwitch, Kind, InsertLabel
    <2>2. CASE InsertSnapshot(x)
      BY <2>2 DEF InsertSnapshot, Kind, InsertLabel, callVars
    <2> QED
      BY <2>1, <2>2
  <1>2. todo[x] = {} /\ i \in 1 .. created /\ i \in Record /\ rows[i] = Nil
    BY <1>1, MemoryConstantsOK
       DEF Inv, MemoryInv, CallsAreTyped, CallInv, RowLabel, InsertLabel, Record
  <1> DEFINE r == [kind |-> kind, project |-> project[x], status |-> "pending"]
  <1>3. r \in Row /\ r.project = project[x] /\ r.status = "pending" /\ r # Nil
    BY NilIsNoRow DEF Row, Status, Inv, CallsAreTyped
  <1> HIDE DEF r
  <1>4. rows' \in [Record -> Row \cup {Nil}]
        /\ \A k \in Record : rows'[k] = IF k = i THEN r ELSE rows[k]
    BY <1>1, <1>2, <1>3 DEF Inv, CallsAreTyped, r
  <1>5. \A k \in Record : rows[k] # Nil => rows'[k] # Nil /\ rows'[k].project = rows[k].project
    BY <1>2, <1>4
  <1>6. /\ CallsAreTyped' /\ CallInv(x)' /\ pc'[x] \in {"idle", "embed"}
        /\ \A y \in Switcher \ {x} : pc'[y] = pc[y] /\ project'[y] = project[y]
        /\ \A y \in Caller \ {x} : record'[y] = record[y] /\ todo'[y] = todo[y]
    <2>1. CASE NextRecord(x)
      <3>1. Return(x) /\ record' = [record EXCEPT ![x] = 0] /\ UNCHANGED todo
        BY <1>2, <2>1 DEF NextRecord
      <3>2. CallsAreTyped'
        BY <1>1, <1>4, <3>1 DEF Inv, CallsAreTyped, Return
      <3>3. CallInv(x)'
        BY <1>2, <3>1 DEF Inv, CallsAreTyped, CallInv, Return, RowLabel, InsertLabel
      <3> QED
        BY <3>1, <3>2, <3>3 DEF Inv, CallsAreTyped, Return
    <2>2. CASE pc' = [pc EXCEPT ![x] = "embed"] /\ UNCHANGED <<project, conv, record, todo>>
      <3>1. CallsAreTyped'
        BY <1>1, <1>4, <2>2 DEF Inv, CallsAreTyped
      <3>2. CallInv(x)'
        BY <1>2, <1>3, <1>4, <2>2 DEF Inv, CallsAreTyped, CallInv, RowLabel, InsertLabel
      <3> QED
        BY <2>2, <3>1, <3>2 DEF Inv, CallsAreTyped
    <2> QED
      BY <1>1, <2>1, <2>2
  <1>7. Alone(x)
    BY <1>1, <1>6 DEF Alone
  <1>8. RowsStay(x)
    BY <1>1, <1>4, <1>5, MemoryConstantsOK DEF RowsStay, Inv, CallsAreTyped
  <1>9. PartitionInv' /\ \A y \in Caller : CallInv(y)'
    BY <1>6, <1>7, <1>8, OthersKeep
  <1>10. InsertsAreDistinct'
    BY <1>6 DEF Inv, MemoryInv, InsertsAreDistinct, InsertLabel
  <1>11. RowsWereBegun'
    BY <1>1, <1>2, <1>4, MemoryConstantsOK DEF Inv, MemoryInv, CallsAreTyped, RowsWereBegun, Record
  <1>12. IndexedIsInIndex' /\ VectorHasRow'
    BY <1>1, <1>2, <1>3, <1>4 DEF Inv, MemoryInv, IndexedIsInIndex, VectorHasRow
  <1> QED
    BY <1>6, <1>9, <1>10, <1>11, <1>12 DEF Inv, MemoryInv

-----------------------------------------------------------------------------

\* A step that changes nothing the invariant speaks of.
LEMMA IdleStep ==
  ASSUME Inv, UNCHANGED <<projects, active, events, pc, callVars, rowVars, record, todo>>
  PROVE  Inv'
  BY DEF callVars, rowVars, Inv, CallsAreTyped, PartitionInv, SwitchesAreKnown, ActiveIsKnown,
     MemoryInv, CallInv, InsertsAreDistinct, RowsWereBegun, IndexedIsInIndex, VectorHasRow

\* Each step keeps the invariant.
LEMMA StepInv == Inv /\ [Next]_vars => Inv'
  <1> SUFFICES ASSUME Inv, [Next]_vars PROVE Inv'
    OBVIOUS
  <1>1. CASE PartitionNext /\ UNCHANGED memoryVars
    BY <1>1, SwitchInv
  <1>2. ASSUME NEW x \in Caller,
               \/ BeginCommit(x) \/ BeginSnapshot(x) \/ BeginSearch(x)
               \/ \E p \in Project : BeginRebuild(x, p)
               \/ MemoryStep(x) \/ UpsertFails(x) \/ CallFails(x)
        PROVE  Inv'
    BY <1>2, BeginRowInv, BeginQuietInv, InsertInv, EmbedInv, UpsertInv, SetStatusInv, ReturnInv
       DEF MemoryStep
  <1>3. ASSUME NEW m \in Model, ModelChanges(m) PROVE Inv'
    BY <1>3, IdleStep DEF ModelChanges
  <1>4. CASE UNCHANGED vars
    BY <1>4, IdleStep DEF vars, partitionVars, memoryVars, rowVars
  <1> QED
    BY <1>1, <1>2, <1>3, <1>4 DEF Next

\* What each call knows of its row holds throughout.
THEOREM MemoryInvCorrect == Spec => []Inv
  BY InitInv, StepInv, PTL DEF Spec

\* Memory is written under, and events name, only projects that are in
\* memory_projects, whatever switches fail or overlap (active_partition/service.py).
THEOREM ActiveIsKnownCorrect == Spec => []ActiveIsKnown
  <1>1. Inv => ActiveIsKnown
    BY DEF Inv, PartitionInv
  <1> QED
    BY <1>1, MemoryInvCorrect, PTL

\* A row marked as indexed has its vector in Chroma, in the scope of the row
\* (memory/service.py, memory/snapshots.py).
THEOREM IndexedIsInIndexCorrect == Spec => []IndexedIsInIndex
  <1>1. Inv => IndexedIsInIndex
    BY DEF Inv, MemoryInv
  <1> QED
    BY <1>1, MemoryInvCorrect, PTL

\* Chroma holds no vector without a row of the same project, so that the index
\* can be rebuilt from queue.db (memory/service.py).
THEOREM VectorHasRowCorrect == Spec => []VectorHasRow
  <1>1. Inv => VectorHasRow
    BY DEF Inv, MemoryInv
  <1> QED
    BY <1>1, MemoryInvCorrect, PTL

-----------------------------------------------------------------------------
(* The types. *)

\* A switch has a project, and one of the watcher a conversation.
SwitchesTyped ==
    /\ \A x \in Switcher : pc[x] \in {"project", "active", "event"} => project[x] \in Project
    /\ pc[Watcher] \in {"settle", "stat", "project", "active", "event"} => conv[Watcher] \in Conv

\* There is a latest time, although there may be any number of conversations.
TimesAreBounded == \E m \in Nat : \A c \in Conv : mtime[c] <= m

PartitionTyped ==
    /\ PartitionTypeOK
    /\ SwitchesTyped
    /\ TimesAreBounded

MemoryTyped ==
    /\ pc \in [Switcher -> PartitionLabel \cup MemoryLabel]
    /\ vectors \in [Record -> Project \cup {Nil}]
    /\ record \in [Caller -> Record \cup {0}]
    /\ scope \in [Caller -> Project \cup {Nil}]
    /\ cache \in [Caller -> SUBSET Record]
    /\ model \in Model

LEMMA TypedInit == Init => PartitionTyped /\ MemoryTyped
  <1> SUFFICES ASSUME Init PROVE PartitionTyped /\ MemoryTyped
    OBVIOUS
  <1> USE DEF Init, PartitionInit
  <1>1. PartitionTypeOK
    BY PartitionConstantsOK DEF PartitionTypeOK
  <1>2. SwitchesTyped /\ TimesAreBounded
    BY DEF SwitchesTyped, TimesAreBounded, Switcher
  <1>3. MemoryTyped
    BY DEF MemoryTyped, PartitionLabel
  <1> QED
    BY <1>1, <1>2, <1>3 DEF PartitionTyped

\* A bound that is used stays a number.
LEMMA BoundTyped ==
  ASSUME PartitionTypeOK, NEW b \in {"edits", "switches", "saves", "searches", "faults"}, Bound(b)
  PROVE  budget' \in [edits: Nat, switches: Nat, saves: Nat, searches: Nat, faults: Nat]
  BY DEF PartitionTypeOK, Bound

\* The time of an edit is after all others.
LEMMA EditTyped ==
  ASSUME PartitionTyped, NEW c \in Conv, NEW written \in BOOLEAN, EditConversation(c, written)
  PROVE  mtime' \in [Conv -> Nat] /\ TimesAreBounded'
  <1> DEFINE S == {mtime[d] : d \in Conv}
             latest == CHOOSE m \in S : \A d \in Conv : mtime[d] <= m
             U == {b \in Nat : \A m \in S : m <= b}
             b == CHOOSE j \in U : \A k \in U : j <= k
  <1>1. S \subseteq Nat /\ mtime[c] \in S
    BY DEF PartitionTyped, PartitionTypeOK
  <1>2. U \subseteq Nat /\ U # {}
    BY DEF PartitionTyped, TimesAreBounded
  <1>3. b \in U /\ \A k \in U : b <= k
    BY <1>2, LeastOf
  <1>4. b \in S
    <2>1. SUFFICES ASSUME b \notin S PROVE FALSE
      OBVIOUS
    <2>2. b \in Nat /\ \A m \in S : m \in Nat /\ m <= b /\ m # b
      BY <1>1, <1>3, <2>1
    <2> HIDE DEF b, S
    <2>3. S # {}
      BY <1>1
    <2>4. PICK m \in S : m \in Nat /\ m <= b /\ m # b
      BY <2>2, <2>3
    <2>5. b - 1 \in Nat
      BY <2>2, <2>4
    <2>6. ASSUME NEW k \in S PROVE k <= b - 1
      BY <2>2, <2>6
    <2> QED
      BY <1>3, <2>2, <2>5, <2>6
  <1>5. \A d \in Conv : mtime[d] <= b
    BY <1>3
  <1>6. latest \in S
    BY <1>4, <1>5
  <1>7. \A d \in Conv : mtime[d] <= latest
    BY <1>4, <1>5
  <1>8. mtime' = [mtime EXCEPT ![c] = IF written THEN 1 + latest ELSE 0]
    BY DEF EditConversation
  <1> HIDE DEF latest
  <1>9. latest \in Nat
    BY <1>1, <1>6
  <1>10. mtime' \in [Conv -> Nat]
    BY <1>8, <1>9 DEF PartitionTyped, PartitionTypeOK
  <1>11. \A d \in Conv : mtime'[d] <= 1 + latest
    BY <1>7, <1>8, <1>9 DEF PartitionTyped, PartitionTypeOK
  <1> QED
    BY <1>9, <1>10, <1>11 DEF TimesAreBounded

\* A step of a switch, of the watcher or of LM Studio.
LEMMA PartitionStepTyped ==
  ASSUME PartitionTyped, pc \in [Switcher -> PartitionLabel \cup MemoryLabel], PartitionNext
  PROVE  PartitionTyped' /\ pc' \in [Switcher -> PartitionLabel \cup MemoryLabel]
  <1> DEFINE Goal == /\ PartitionTyped'
                     /\ pc' \in [Switcher -> PartitionLabel \cup MemoryLabel]
  <1> USE PartitionConstantsOK
      DEF PartitionTyped, PartitionTypeOK, SwitchesTyped, Goto, Return, Switcher,
          PartitionLabel, MemoryLabel
  <1>1. ASSUME NEW y \in Caller, NEW p \in Project, BeginSwitch(y, p) PROVE Goal
    BY <1>1, BoundTyped DEF BeginSwitch, TimesAreBounded, watchVars
  <1>2. ASSUME NEW y \in Caller, NEW k \in Conv, BeginConversationSwitch(y, k) PROVE Goal
    <2>1. FolderOf[k] \in Project
      BY <1>2 DEF BeginConversationSwitch, MapStatus
    <2> QED
      BY <1>2, <2>1, BoundTyped DEF BeginConversationSwitch, TimesAreBounded, watchVars
  <1>3. ASSUME NEW y \in Switcher, UpsertMemoryProject(y) PROVE Goal
    BY <1>3 DEF UpsertMemoryProject, callVars, watchVars, TimesAreBounded
  <1>4. ASSUME NEW y \in Switcher, SetActivePartition(y) PROVE Goal
    BY <1>4 DEF SetActivePartition, callVars, TimesAreBounded, SourceOf, Source
  <1>5. ASSUME NEW y \in Switcher, RecordConversationEvent(y) PROVE Goal
    <2>1. project[y] \in Project
      BY <1>5 DEF RecordConversationEvent
    <2>2. events' \subseteq [project: Project, session: Conv \cup Project]
      BY <1>5, <2>1 DEF RecordConversationEvent
    <2>3. lastApplied' \in Seen \cup {Nil}
      BY <1>5 DEF RecordConversationEvent, Seen
    <2> QED
      BY <1>5, <2>2, <2>3 DEF RecordConversationEvent, TimesAreBounded
  <1>6. CASE Poll
    BY <1>6 DEF Poll, Newest, TimesAreBounded
  <1>7. CASE Settle
    BY <1>7 DEF Settle, WatcherReturns, callVars, TimesAreBounded
  <1>8. CASE Stat
    <2>1. CASE WatcherReturns
      BY <1>8, <2>1 DEF Stat, WatcherReturns, TimesAreBounded
    <2>2. CASE ~WatcherReturns
      <3>1. conv[Watcher] \in Conv
        BY <1>8 DEF Stat
      <3>2. FolderOf[conv[Watcher]] \in Project
        BY <1>8, <2>2, <3>1 DEF Stat, MapStatus
      <3> QED
        BY <1>8, <2>2, <3>1, <3>2 DEF Stat, TimesAreBounded
    <2> QED
      BY <2>1, <2>2
  <1>9. ASSUME NEW y \in Switcher, SwitchFails(y) PROVE Goal
    BY <1>9, BoundTyped DEF SwitchFails, watchVars, TimesAreBounded
  <1>10. ASSUME NEW k \in Conv, NEW written \in BOOLEAN, EditConversation(k, written) PROVE Goal
    <2>1. mtime' \in [Conv -> Nat] /\ TimesAreBounded'
      BY <1>10, EditTyped
    <2> QED
      BY <1>10, <2>1, BoundTyped DEF EditConversation, callVars, watchVars
  <1> QED
    BY <1>1, <1>2, <1>3, <1>4, <1>5, <1>6, <1>7, <1>8, <1>9, <1>10
       DEF PartitionNext, WatcherStep, SwitchStep

\* A call of memory moves to a label of its own and leaves the switches alone.
LEMMA CallStepTyped ==
  ASSUME PartitionTyped, pc \in [Switcher -> PartitionLabel \cup MemoryLabel],
         NEW x \in Caller, NEW label \in {"idle"} \cup MemoryLabel, Goto(x, label),
         UNCHANGED <<mtime, projects, active, events, watchVars>>,
         project' \in [Switcher -> Project \cup {Nil}], conv' \in [Switcher -> Conv \cup {Nil}],
         \A y \in Switcher \ {x} : project'[y] = project[y] /\ conv'[y] = conv[y],
         budget' = budget \/ \E b \in {"saves", "searches", "faults"} : Bound(b)
  PROVE  PartitionTyped' /\ pc' \in [Switcher -> PartitionLabel \cup MemoryLabel]
  <1>1. pc' \in [Switcher -> PartitionLabel \cup MemoryLabel]
    BY DEF Goto, PartitionLabel
  <1>2. budget' \in [edits: Nat, switches: Nat, saves: Nat, searches: Nat, faults: Nat]
    BY BoundTyped DEF PartitionTyped, PartitionTypeOK
  <1>3. PartitionTypeOK'
    BY <1>2 DEF PartitionTyped, PartitionTypeOK, watchVars
  <1>4. SwitchesTyped'
    BY PartitionConstantsOK DEF PartitionTyped, SwitchesTyped, Switcher, Goto, MemoryLabel
  <1>5. TimesAreBounded'
    BY DEF PartitionTyped, TimesAreBounded
  <1> QED
    BY <1>1, <1>3, <1>4, <1>5 DEF PartitionTyped

AllTyped == PartitionTyped /\ MemoryTyped

\* What is left of the types when a call of memory takes a step.
LEMMA CallTyped ==
  ASSUME AllTyped, NEW x \in Caller, NEW label \in {"idle"} \cup MemoryLabel, Goto(x, label),
         UNCHANGED <<mtime, projects, active, events, watchVars>>,
         project' \in [Switcher -> Project \cup {Nil}], conv' \in [Switcher -> Conv \cup {Nil}],
         \A y \in Switcher \ {x} : project'[y] = project[y] /\ conv'[y] = conv[y],
         budget' = budget \/ \E b \in {"saves", "searches", "faults"} : Bound(b),
         vectors' \in [Record -> Project \cup {Nil}],
         record' \in [Caller -> Record \cup {0}],
         scope' \in [Caller -> Project \cup {Nil}],
         cache' \in [Caller -> SUBSET Record],
         model' \in Model
  PROVE  AllTyped'
  <1>1. PartitionTyped' /\ pc' \in [Switcher -> PartitionLabel \cup MemoryLabel]
    BY CallStepTyped DEF AllTyped, MemoryTyped
  <1> QED
    BY <1>1 DEF AllTyped, MemoryTyped

\* The next row of a call is one of those it has to do.
LEMMA NextRecordMoves ==
  ASSUME Inv, AllTyped, NEW x \in Caller, NextRecord(x),
         conv' = conv \/ Return(x)
  PROVE  /\ \E label \in {"idle", "embed"} : Goto(x, label)
         /\ project' \in [Switcher -> Project \cup {Nil}]
         /\ conv' \in [Switcher -> Conv \cup {Nil}]
         /\ \A y \in Switcher \ {x} : project'[y] = project[y] /\ conv'[y] = conv[y]
         /\ record' \in [Caller -> Record \cup {0}]
  <1> USE DEF AllTyped, MemoryTyped, PartitionTyped, PartitionTypeOK
  <1>1. CASE todo[x] = {}
    BY <1>1 DEF NextRecord, Return
  <1>2. CASE todo[x] # {}
    <2> DEFINE i == CHOOSE j \in todo[x] : \A k \in todo[x] : j <= k
    <2>1. todo[x] \subseteq Record /\ todo[x] \subseteq Nat
      BY MemoryConstantsOK DEF Inv, CallsAreTyped, Record
    <2>2. i \in todo[x]
      BY <1>2, <2>1, LeastOf
    <2>3. i \in Record /\ rows[i] # Nil
      BY <2>1, <2>2 DEF Inv, MemoryInv, CallInv
    <2>4. rows[i].project \in Project \cup {Nil}
      BY <2>3 DEF Inv, CallsAreTyped, Row
    <2>5. /\ record' = [record EXCEPT ![x] = i]
          /\ project' = [project EXCEPT ![x] = rows[i].project]
          /\ Goto(x, "embed") /\ conv' = conv
      BY <1>2 DEF NextRecord
    <2> HIDE DEF i
    <2> QED
      BY <2>3, <2>4, <2>5
  <1> QED
    BY <1>1, <1>2

\* Every step of a call of memory keeps the types.
LEMMA MemoryStepTyped ==
  ASSUME Inv, AllTyped, NEW x \in Caller,
         \/ BeginCommit(x) \/ BeginSnapshot(x) \/ BeginSearch(x)
         \/ \E p \in Project : BeginRebuild(x, p)
         \/ MemoryStep(x) \/ UpsertFails(x) \/ CallFails(x)
  PROVE  AllTyped'
  <1> USE DEF MemoryLabel
  <1> DEFINE Projects == [Switcher -> Project \cup {Nil}]
  <1>0. /\ project \in Projects /\ conv \in [Switcher -> Conv \cup {Nil}]
        /\ vectors \in [Record -> Project \cup {Nil}] /\ record \in [Caller -> Record \cup {0}]
        /\ scope \in [Caller -> Project \cup {Nil}] /\ cache \in [Caller -> SUBSET Record]
        /\ model \in Model /\ x \in Switcher /\ project[x] \in Project \cup {Nil}
        /\ active # Nil => active.project \in Project
    BY DEF AllTyped, MemoryTyped, PartitionTyped, PartitionTypeOK, Switcher
  <1>1. CASE BeginCommit(x) \/ BeginSnapshot(x)
    <2>1. created + 1 \in Record
      BY <1>1, MemoryConstantsOK DEF BeginCommit, BeginSnapshot, Record, Inv, CallsAreTyped
    <2>2. PICK label \in {"insertMemory", "insertSnapshot"} : Goto(x, label)
      BY <1>1 DEF BeginCommit, BeginSnapshot
    <2>3. /\ project' \in Projects /\ record' \in [Caller -> Record \cup {0}]
          /\ \A y \in Switcher \ {x} : project'[y] = project[y]
          /\ Bound("saves")
          /\ UNCHANGED <<mtime, projects, active, events, conv, watchVars, vectors, scope, cache, model>>
      BY <1>0, <1>1, <2>1 DEF BeginCommit, BeginSnapshot, NoSwitch
    <2> QED
      BY <1>0, <2>2, <2>3, CallTyped
  <1>2. CASE BeginSearch(x)
    <2>1. /\ project' \in Projects /\ Goto(x, "search") /\ Bound("searches")
          /\ \A y \in Switcher \ {x} : project'[y] = project[y]
          /\ UNCHANGED <<mtime, projects, active, events, conv, watchVars, record, vectors, scope, cache, model>>
      BY <1>0, <1>2 DEF BeginSearch, NoSwitch, memoryVars
    <2> QED
      BY <1>0, <2>1, CallTyped
  <1>3. ASSUME NEW p \in Project, BeginRebuild(x, p) PROVE AllTyped'
    <2> DEFINE due == ForReindex(p)
               i   == CHOOSE j \in due : \A k \in due : j <= k
    <2>1. due \subseteq Record /\ due # {} /\ due \subseteq Nat
      <3>1. due \subseteq Record
        BY DEF ForReindex
      <3>2. due # {}
        BY <1>3 DEF BeginRebuild
      <3>3. Record \subseteq Nat
        BY MemoryConstantsOK DEF Record
      <3> QED
        BY <3>1, <3>2, <3>3
    <2>2. i \in Record
      BY <2>1, LeastOf
    <2>3. /\ project' = [project EXCEPT ![x] = p] /\ record' = [record EXCEPT ![x] = i]
          /\ Goto(x, "embed")
          /\ UNCHANGED <<mtime, projects, active, events, conv, watchVars, vectors, scope, cache, model, budget>>
      BY <1>3 DEF BeginRebuild, NoSwitch, rowVars
    <2> HIDE DEF i
    <2>4. /\ project' \in Projects /\ record' \in [Caller -> Record \cup {0}]
          /\ \A y \in Switcher \ {x} : project'[y] = project[y]
      BY <1>0, <2>2, <2>3
    <2> QED
      BY <1>0, <2>3, <2>4, CallTyped
  <1>4. CASE Embed(x) \/ EmbedFails(x)
    <2>1. record[x] \in Record
      BY <1>4 DEF Embed, EmbedFails, Inv, MemoryInv, CallInv, RowLabel
    <2>2. PICK label \in {"upsert", "markFailed"} : Goto(x, label)
      BY <1>4 DEF Embed, EmbedFails
    <2>3. scope' \in [Caller -> Project \cup {Nil}] /\ cache' \in [Caller -> SUBSET Record]
      BY <1>0, <1>4, <2>1 DEF Embed, EmbedFails, ResolveScope, CachedIn
    <2>4. model' \in Model
      BY <1>0, <1>4 DEF Embed, EmbedFails, ModelReady, Model
    <2>5. UNCHANGED <<mtime, projects, active, events, project, conv, watchVars, record, vectors, budget>>
      BY <1>4 DEF Embed, EmbedFails, NoSwitch, rowVars
    <2> QED
      BY <1>0, <2>2, <2>3, <2>4, <2>5, CallTyped
  <1>5. CASE Upsert(x)
    <2>1. /\ vectors' \in [Record -> Project \cup {Nil}] /\ Goto(x, "mark")
          /\ UNCHANGED <<mtime, projects, active, events, project, conv, watchVars, record, scope, cache, model, budget>>
      BY <1>0, <1>5 DEF Upsert, NoSwitch
    <2> QED
      BY <1>0, <2>1, CallTyped
  <1>r. CASE UpsertRefused(x)
    <2>1. /\ Goto(x, "markFailed")
          /\ UNCHANGED <<mtime, projects, active, events, project, conv, watchVars, record, vectors, scope, cache, model, budget>>
      BY <1>r DEF UpsertRefused, NoSwitch, memoryVars
    <2> QED
      BY <1>0, <2>1, CallTyped
  <1>6. CASE UpsertFails(x)
    <2>1. /\ Goto(x, "markFailed") /\ Bound("faults")
          /\ UNCHANGED <<mtime, projects, active, events, project, conv, watchVars, record, vectors, scope, cache, model>>
      BY <1>6 DEF UpsertFails, NoSwitch, memoryVars
    <2> QED
      BY <1>0, <2>1, CallTyped
  <1>7. CASE Mark(x) \/ MarkFailed(x)
    <2>1. /\ NextRecord(x) /\ conv' = conv
          /\ UNCHANGED <<mtime, projects, active, events, watchVars, vectors, scope, cache, model, budget>>
      BY <1>7 DEF Mark, MarkFailed, SetStatus, NoSwitch
    <2>2. PICK label \in {"idle", "embed"} : Goto(x, label)
      BY <2>1, NextRecordMoves
    <2> QED
      BY <1>0, <2>1, <2>2, NextRecordMoves, CallTyped
  <1>8. CASE InsertMemory(x)
    <2>1. /\ Goto(x, "embed")
          /\ UNCHANGED <<mtime, projects, active, events, project, conv, watchVars, record, vectors, scope, cache, model, budget>>
      BY <1>8 DEF InsertMemory, NoSwitch
    <2> QED
      BY <1>0, <2>1, CallTyped
  <1>9. CASE InsertSnapshot(x)
    <2>1. UNCHANGED <<mtime, projects, active, events, watchVars, vectors, scope, cache, model, budget>>
      BY <1>9 DEF InsertSnapshot
    <2>2. CASE Goto(x, "embed") /\ UNCHANGED <<callVars, record, todo>>
      BY <1>0, <2>1, <2>2, CallTyped DEF callVars
    <2>3. CASE NextRecord(x)
      <3>1. todo[x] = {}
        BY <1>9 DEF InsertSnapshot, Inv, MemoryInv, CallInv, RowLabel
      <3>2. Return(x)
        BY <2>3, <3>1 DEF NextRecord
      <3>3. PICK label \in {"idle", "embed"} : Goto(x, label)
        BY <2>3, <3>2, NextRecordMoves
      <3> QED
        BY <1>0, <2>1, <2>3, <3>2, <3>3, NextRecordMoves, CallTyped
    <2> QED
      BY <1>9, <2>2, <2>3 DEF InsertSnapshot
  <1>10. CASE Search(x) \/ CallFails(x)
    <2>1. /\ Return(x)
          /\ UNCHANGED <<mtime, projects, active, events, watchVars, vectors>>
      BY <1>10 DEF Search, CallFails, rowVars
    <2>2. /\ project' \in Projects /\ conv' \in [Switcher -> Conv \cup {Nil}]
          /\ \A y \in Switcher \ {x} : project'[y] = project[y] /\ conv'[y] = conv[y]
          /\ Goto(x, "idle")
      BY <1>0, <2>1 DEF Return
    <2>3. /\ record' \in [Caller -> Record \cup {0}]
          /\ scope' \in [Caller -> Project \cup {Nil}] /\ cache' \in [Caller -> SUBSET Record]
      BY <1>0, <1>10 DEF Search, CallFails, ResolveScope, CachedIn
    <2>4. model' \in Model /\ (budget' = budget \/ Bound("faults"))
      BY <1>0, <1>10 DEF Search, CallFails, ModelReady, Model
    <2> QED
      BY <1>0, <2>1, <2>2, <2>3, <2>4, CallTyped
  <1> QED
    BY <1>1, <1>2, <1>3, <1>4, <1>5, <1>6, <1>7, <1>8, <1>9, <1>10, <1>r DEF MemoryStep

\* The types of ActivePartition and Memory hold, for any number of processes,
\* conversations and rows, whatever calls fail, die or overlap.
THEOREM TypeCorrect == Spec => []TypeOK
  <1>1. ASSUME Inv, AllTyped, [Next]_vars PROVE AllTyped'
    <2>1. CASE PartitionNext /\ UNCHANGED memoryVars
      BY <1>1, <2>1, PartitionStepTyped DEF AllTyped, MemoryTyped, memoryVars
    <2>2. ASSUME NEW m \in Model, ModelChanges(m) PROVE AllTyped'
      <3>1. PartitionTyped'
        BY <1>1, <2>2, BoundTyped DEF ModelChanges, AllTyped, PartitionTyped, PartitionTypeOK,
           SwitchesTyped, TimesAreBounded, callVars, watchVars
      <3> QED
        BY <1>1, <2>2, <3>1 DEF ModelChanges, AllTyped, MemoryTyped, rowVars
    <2>3. CASE UNCHANGED vars
      BY <1>1, <2>3 DEF vars, partitionVars, memoryVars, callVars, watchVars, AllTyped, PartitionTyped,
         PartitionTypeOK, SwitchesTyped, TimesAreBounded, MemoryTyped
    <2> QED
      BY <1>1, <2>1, <2>2, <2>3, MemoryStepTyped DEF Next
  <1>2. Inv /\ AllTyped => TypeOK
    BY DEF Inv, CallsAreTyped, AllTyped, PartitionTyped, MemoryTyped, TypeOK
  <1>3. Init => AllTyped
    BY TypedInit DEF AllTyped
  <1> QED
    BY <1>1, <1>2, <1>3, MemoryInvCorrect, PTL DEF Spec

=============================================================================
