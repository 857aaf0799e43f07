---------------------------- MODULE PatchProofs ----------------------------
(***************************************************************************)
(* Theorems about PatchApply for any number of processes, runs, patches    *)
(* and paths.                                                              *)
(*                                                                         *)
(* The invariants are not inductive.  That a patch file that was changed   *)
(* on disk is never what git writes rests on the bytes each call has in    *)
(* its hands; that a run with rollback_available can be restored rests on  *)
(* what each call knows of the rows of its run while other calls write the *)
(* same rows (CallInv), and on the rows of a run being about one patch     *)
(* from its first one on (RunInv).  QuietInv is what is true in addition   *)
(* as long as no two calls, and no call and an edit, overlapped.           *)
(***************************************************************************)
EXTENDS PatchApply, TLAPS

\* The labels of an apply whose snapshots are all there.
Past == Applying \ {"snapshot"}

\* What a call knows of the run it is about, whatever else goes on.
CallInv(x) ==
    /\ bytes[x] = "stored"
    /\ pc[x] # "idle" => run[x] \in Run /\ status[run[x]] # "none"
    /\ pc[x] = "snapshot" => Affected(PatchOf(x)) \ todo[x] \subseteq Rows(run[x])
    /\ pc[x] = "snapshot" => todo[x] \subseteq Affected(PatchOf(x))
    /\ pc[x] = "write" => todo[x] \subseteq Written(PatchOf(x))
    /\ pc[x] \in Past => Affected(PatchOf(x)) \subseteq Rows(run[x])
    /\ pc[x] \in {"restore", "rollBack"} => todo[x] \subseteq Rows(run[x])

\* Before a run begins it has no rows; from then on they are about its patch.
RunInv(r) ==
    /\ status[r] = "none" => ~available[r] /\ touched[r] = {} /\ Rows(r) = {}
    /\ status[r] # "none" =>
         /\ origin[r] \in Patch \X Approval
         /\ Record[origin[r][2]].approved
         /\ Record[origin[r][2]].exact
         /\ Record[origin[r][2]].patch = origin[r][1]
         /\ Rows(r) \subseteq Affected(origin[r][1])
         /\ available[r] => Affected(origin[r][1]) \subseteq Rows(r)
         /\ touched[r] \subseteq Written(origin[r][1])
         /\ touched[r] \cap Affected(origin[r][1]) \subseteq Rows(r)

NothingForeign ==
    /\ \A f \in Path : files[f] # Foreign
    /\ \A r \in Run, f \in Path : snapshot[r][f] # Foreign

Safe ==
    /\ PatchTypeOK
    /\ \A x \in Proc : CallInv(x)
    /\ \A r \in Run : RunInv(r)
    /\ NothingForeign

OneCall == \A x, y \in Proc : pc[x] # "idle" /\ pc[y] # "idle" => x = y

RestoredUpTo(x) ==
    \A f \in Rows(run[x]) \ todo[x] : files[f] = snapshot[run[x]][f]

\* What the only call in progress knows of the files.
QuietCall(x) ==
    /\ pc[x] = "snapshot" => touched[run[x]] = {}
    /\ pc[x] \in {"snapshot", "apply"} => Fits(PatchOf(x))
    /\ pc[x] \in Past \ {"rolledBack"} => available[run[x]]
    /\ pc[x] \in {"restore", "rollBack"} => RestoredUpTo(x)
    /\ pc[x] = "rolledBack" =>
         status[run[x]] = "ROLLED_BACK" /\ todo[x] = {} /\ RestoredUpTo(x)

\* A snapshot of a file that git writes holds what the diff of its run expected
\* to find.
SnapshotsFit ==
    \A r \in Run : \A f \in Rows(r) \cap Written(origin[r][1]) :
        snapshot[r][f] = Edit[origin[r][1]][f].from

QuietInv ==
    ~overlapped =>
        /\ OneCall
        /\ \A x \in Proc : QuietCall(x)
        /\ SnapshotsFit
        /\ NeverUnderstated

Inv == Safe /\ QuietInv

-----------------------------------------------------------------------------

LEMMA InitInv == Init => Inv
  <1> SUFFICES ASSUME Init PROVE Inv
    OBVIOUS
  <1>1. Safe
    BY PatchConstantsOK DEF Init, Safe, PatchTypeOK, CallInv, RunInv, NothingForeign, Rows,
       File, Past, Applying, Status
  <1>2. QuietInv
    BY DEF Init, QuietInv, OneCall, QuietCall, SnapshotsFit, NeverUnderstated, Rows, Past, Applying
  <1> QED
    BY <1>1, <1>2 DEF Inv

(***************************************************************************)
(* What a step leaves of the others.                                       *)
(***************************************************************************)

\* Only the call of x moves.
Alone(x) ==
    \A y \in Proc \ {x} :
        pc'[y] = pc[y] /\ run'[y] = run[y] /\ todo'[y] = todo[y] /\ bytes'[y] = bytes[y]

\* Runs that began stay about their patch and lose no row.
RunsStay ==
    \A r \in Run : status[r] # "none" =>
        origin'[r] = origin[r] /\ status'[r] # "none" /\ Rows(r) \subseteq Rows(r)'

\* What a call knows survives the steps of others.
LEMMA CallKeeps ==
  ASSUME Safe, RunsStay, NEW y \in Proc,
         pc'[y] = pc[y], run'[y] = run[y], todo'[y] = todo[y], bytes'[y] = bytes[y]
  PROVE  CallInv(y)'
  <1>1. CallInv(y)
    BY DEF Safe
  <1>2. CASE pc[y] = "idle"
    BY <1>1, <1>2 DEF CallInv, Past, Applying
  <1>3. CASE pc[y] # "idle"
    <2>1. run[y] \in Run /\ status[run[y]] # "none"
      BY <1>1, <1>3 DEF CallInv
    <2>2. PatchOf(y)' = PatchOf(y) /\ Rows(run[y]) \subseteq Rows(run[y])' /\ status'[run[y]] # "none"
      BY <2>1 DEF RunsStay, PatchOf
    <2> QED
      BY <1>1, <2>1, <2>2 DEF CallInv
  <1> QED
    BY <1>2, <1>3

LEMMA CallsKeep ==
  ASSUME Safe, RunsStay, NEW x \in Proc, Alone(x), CallInv(x)'
  PROVE  \A y \in Proc : CallInv(y)'
  BY CallKeeps DEF Alone

\* A step that writes no row of a run.
LEMMA RowsKeep ==
  ASSUME Safe, UNCHANGED <<rowVars, touched>>
  PROVE  RunsStay /\ \A r \in Run : RunInv(r)'
  BY DEF Safe, RunInv, RunsStay, Rows, rowVars

\* update_apply_run with a truthful rollback_available.
LEMMA SetRowKeeps ==
  ASSUME Safe, NEW x \in Proc, pc[x] # "idle", NEW s \in Status, NEW avail \in BOOLEAN,
         SetRow(x, s, avail), UNCHANGED touched,
         avail => Affected(PatchOf(x)) \subseteq Rows(run[x])
  PROVE  /\ RunsStay
         /\ \A r \in Run : RunInv(r)'
         /\ status' \in [Run -> Status \cup {"none"}]
         /\ available' \in [Run -> BOOLEAN]
  <1>1. run[x] \in Run /\ status[run[x]] # "none"
    BY DEF Safe, CallInv
  <1>2. /\ status' \in [Run -> Status \cup {"none"}]
        /\ available' \in [Run -> BOOLEAN]
    BY <1>1 DEF Safe, PatchTypeOK, SetRow
  <1>3. s # "none"
    BY DEF Status, Applied
  <1>4. ASSUME NEW r \in Run
        PROVE  /\ RunInv(r)'
               /\ status[r] # "none" => status'[r] # "none"
    <2>1. RunInv(r)
      BY DEF Safe
    <2>2. Rows(r)' = Rows(r) /\ origin'[r] = origin[r] /\ touched'[r] = touched[r]
      BY DEF SetRow, Rows
    <2>3. CASE r = run[x]
      <3>1. status'[r] = s /\ available'[r] = avail
        BY <2>3 DEF SetRow, Safe, PatchTypeOK
      <3> QED
        BY <1>1, <1>3, <2>1, <2>2, <2>3, <3>1 DEF RunInv, PatchOf
    <2>4. CASE r # run[x]
      <3>1. status'[r] = status[r] /\ available'[r] = available[r]
        BY <2>4 DEF SetRow, Safe, PatchTypeOK
      <3> QED
        BY <2>1, <2>2, <3>1 DEF RunInv
    <2> QED
      BY <2>3, <2>4
  <1>5. RunsStay
    BY <1>4 DEF RunsStay, SetRow, Rows
  <1> QED
    BY <1>2, <1>4, <1>5

\* The only call in progress carries what is true without an overlap.
LEMMA QuietStep ==
  ASSUME NEW x \in Proc, \A y \in Proc \ {x} : pc[y] = "idle", Alone(x),
         QuietCall(x)', SnapshotsFit', NeverUnderstated'
  PROVE  QuietInv'
  <1>1. \A y \in Proc \ {x} : pc'[y] = "idle"
    BY DEF Alone
  <1>2. OneCall'
    BY <1>1 DEF OneCall
  <1>3. \A y \in Proc : QuietCall(y)'
    BY <1>1 DEF QuietCall, Past, Applying
  <1> QED
    BY <1>2, <1>3 DEF QuietInv

\* In a step of a call that goes on, every other process is idle.
LEMMA OthersIdle ==
  ASSUME Inv, ~overlapped, NEW x \in Proc, pc[x] # "idle"
  PROVE  \A y \in Proc \ {x} : pc[y] = "idle"
  BY DEF Inv, QuietInv, OneCall

-----------------------------------------------------------------------------
(* The steps of apply_approved_patch keep Safe. *)

LEMMA SafeBeginApply ==
  ASSUME Safe, NEW x \in Proc, NEW p \in Patch, NEW a \in Approval, NEW r \in Run,
         BeginApply(x, p, a, r)
  PROVE  Safe'
  <1> USE DEF BeginApply, Goto
  <1>1. Alone(x) /\ RunsStay
    BY DEF Safe, PatchTypeOK, Alone, RunsStay, Rows
  <1>2. PatchTypeOK'
    BY PatchConstantsOK DEF Safe, PatchTypeOK, Affected, Overlap, Applying, Status
  <1>3. CallInv(x)'
    BY DEF Safe, PatchTypeOK, CallInv, PatchOf, Affected, Past, Applying
  <1>4. ASSUME NEW q \in Run PROVE RunInv(q)'
    <2>1. RunInv(q) /\ Rows(q)' = Rows(q)
      BY DEF Safe, Rows
    <2> QED
      BY <2>1 DEF Safe, PatchTypeOK, RunInv, Affected
  <1>5. NothingForeign'
    BY DEF Safe, NothingForeign
  <1> QED
    BY <1>1, <1>2, <1>3, <1>4, <1>5, CallsKeep DEF Safe

LEMMA SafeSnapshot ==
  ASSUME Safe, NEW x \in Proc, NEW f \in Path, Snapshot(x, f)
  PROVE  Safe'
  <1> USE DEF Snapshot
  <1>r. PICK r \in Run : r = run[x]
    BY DEF Safe, CallInv
  <1>0. status[r] # "none" /\ f \in Affected(PatchOf(x)) /\ files[f] \in File \ {Foreign}
    BY <1>r DEF Safe, CallInv, PatchTypeOK, NothingForeign
  <1>1. Alone(x)
    BY DEF Safe, PatchTypeOK, Alone
  <1>2. PatchTypeOK'
    BY <1>0 DEF Safe, PatchTypeOK
  <1>3. files[f] # Nil
    BY <1>0, PatchConstantsOK
  <1>4. /\ Rows(r)' = Rows(r) \cup {f}
        /\ \A q \in Run \ {r} : Rows(q)' = Rows(q)
    BY <1>r, <1>0, <1>3 DEF Safe, PatchTypeOK, Rows
  <1>5. RunsStay
    BY <1>4 DEF RunsStay
  <1>6. CallInv(x)'
    BY <1>r, <1>0, <1>4 DEF Safe, PatchTypeOK, CallInv, PatchOf, Past, Applying
  <1>7. ASSUME NEW q \in Run PROVE RunInv(q)'
    BY <1>r, <1>0, <1>4 DEF Safe, RunInv, PatchOf
  <1>8. NothingForeign'
    BY <1>r, <1>0 DEF Safe, NothingForeign, PatchTypeOK
  <1> QED
    BY <1>1, <1>2, <1>5, <1>6, <1>7, <1>8, CallsKeep DEF Safe

\* The steps that only record a status, with the flag they record.
LEMMA SafeRecord ==
  ASSUME Safe, NEW x \in Proc, pc[x] # "idle", NEW s \in Status, NEW avail \in BOOLEAN,
         SetRow(x, s, avail), UNCHANGED <<files, diff, touched, overlapped>>,
         avail => Affected(PatchOf(x)) \subseteq Rows(run[x]),
         \/ Return(x)
         \/ /\ UNCHANGED <<run, todo, bytes>>
            /\ \/ pc[x] = "snapshot" /\ todo[x] = {} /\ Goto(x, "apply")
               \/ pc[x] = "write" /\ \E l \in {"test", "untested"} : Goto(x, l)
               \/ pc[x] = "rollBack" /\ Goto(x, "rolledBack")
  PROVE  Safe'
  <1> USE DEF Goto, Return
  <1>1. /\ RunsStay
        /\ \A r \in Run : RunInv(r)'
        /\ status' \in [Run -> Status \cup {"none"}]
        /\ available' \in [Run -> BOOLEAN]
    BY SetRowKeeps
  <1>2. PatchTypeOK'
    <2>1. CASE Return(x)
      BY <1>1, <2>1 DEF Safe, PatchTypeOK, SetRow
    <2>2. CASE UNCHANGED <<run, todo, bytes>>
      <3>1. pc' \in [Proc -> Applying \cup {"idle", "restore"}]
        BY <2>2 DEF Safe, PatchTypeOK, Applying
      <3> QED
        BY <1>1, <2>2, <3>1 DEF Safe, PatchTypeOK, SetRow
    <2> QED
      BY <2>1, <2>2
  <1>3. Alone(x)
    BY DEF Safe, PatchTypeOK, Alone
  <1>4. CallInv(x)'
    <2>1. CallInv(x) /\ pc \in [Proc -> Applying \cup {"idle", "restore"}]
          /\ bytes \in [Proc -> {"stored", "changed"}]
      BY DEF Safe, PatchTypeOK
    <2>2. CASE Return(x)
      BY <2>1, <2>2 DEF CallInv, Past, Applying
    <2>3. CASE UNCHANGED <<run, todo, bytes>>
      <3>1. run[x] \in Run /\ status[run[x]] # "none"
        BY <2>1 DEF CallInv
      <3>2. status'[run[x]] # "none" /\ PatchOf(x)' = PatchOf(x) /\ Rows(run[x]) \subseteq Rows(run[x])'
        BY <1>1, <2>3, <3>1 DEF RunsStay, PatchOf
      <3> QED
        BY <2>1, <2>3, <3>1, <3>2 DEF CallInv, Past, Applying
    <2> QED
      BY <2>2, <2>3
  <1>5. NothingForeign'
    BY DEF Safe, NothingForeign, SetRow
  <1> QED
    BY <1>1, <1>2, <1>3, <1>4, <1>5, CallsKeep DEF Safe

\* A call ends and writes nothing.
LEMMA SafeReturn ==
  ASSUME Safe, NEW x \in Proc, Return(x), UNCHANGED <<files, diff, rowVars, touched, overlapped>>
  PROVE  Safe'
  <1> USE DEF Goto, Return
  <1>1. PatchTypeOK'
    BY DEF Safe, PatchTypeOK, rowVars
  <1>2. Alone(x) /\ CallInv(x)'
    BY DEF Safe, PatchTypeOK, Alone, CallInv, Past, Applying
  <1>3. NothingForeign'
    BY DEF Safe, NothingForeign, rowVars
  <1> QED
    BY <1>1, <1>2, <1>3, RowsKeep, CallsKeep DEF Safe

\* A call goes on to the next loop and writes nothing.
LEMMA SafeGoOn ==
  ASSUME Safe, NEW x \in Proc, pc[x] \in {"apply", "write", "test", "rollBack"},
         NEW l \in Past, Goto(x, l),
         NEW ahead \in SUBSET Path, todo' = [todo EXCEPT ![x] = ahead],
         l = "write" => ahead \subseteq Written(PatchOf(x)),
         l = "rollBack" => ahead \subseteq Rows(run[x]),
         UNCHANGED <<files, diff, rowVars, run, bytes, touched, overlapped>>
  PROVE  Safe'
  <1> USE DEF Goto
  <1>1. PatchTypeOK'
    BY DEF Safe, PatchTypeOK, rowVars, Past
  <1>2. Alone(x)
    BY DEF Safe, PatchTypeOK, Alone
  <1>3. PatchOf(x)' = PatchOf(x) /\ Rows(run[x])' = Rows(run[x])
    BY DEF PatchOf, Rows, rowVars
  <1>4. CallInv(x)'
    BY <1>3 DEF Safe, PatchTypeOK, CallInv, Past, Applying, rowVars
  <1>5. NothingForeign'
    BY DEF Safe, NothingForeign, rowVars
  <1> QED
    BY <1>1, <1>2, <1>4, <1>5, RowsKeep, CallsKeep DEF Safe

LEMMA SafeGitWrites ==
  ASSUME Safe, NEW x \in Proc, NEW f \in Path, GitWrites(x, f)
  PROVE  Safe'
  <1> USE DEF GitWrites
  <1>r. PICK r \in Run : r = run[x]
    BY DEF Safe, CallInv
  <1>1. /\ bytes[x] = "stored"
        /\ status[r] # "none"
        /\ f \in Written(PatchOf(x))
        /\ Affected(PatchOf(x)) \subseteq Rows(r)
    BY <1>r DEF Safe, CallInv, Past, Applying
  <1>2. PatchOf(x) \in Patch
    BY <1>r, <1>1 DEF Safe, RunInv, PatchOf
  <1>3. Edit[PatchOf(x)][f].to \in File \ {Foreign}
    BY <1>1, <1>2, PatchConstantsOK DEF Written
  <1>4. files' = [files EXCEPT ![f] = Edit[PatchOf(x)][f].to]
    BY <1>1
  <1>5. PatchTypeOK'
    BY <1>3, <1>4 DEF Safe, PatchTypeOK, rowVars
  <1>6. RunsStay /\ \A q \in Run : Rows(q)' = Rows(q)
    BY DEF RunsStay, Rows, rowVars
  <1>7. ASSUME NEW q \in Run PROVE RunInv(q)'
    BY <1>r, <1>1, <1>6 DEF Safe, PatchTypeOK, RunInv, PatchOf, rowVars
  <1>8. CallInv(x)'
    <2>1. PatchOf(x)' = PatchOf(x) /\ Rows(run[x])' = Rows(run[x])
      BY DEF PatchOf, Rows, rowVars
    <2>2. CallInv(x) /\ todo'[x] \subseteq todo[x]
      BY DEF Safe, PatchTypeOK
    <2> QED
      BY <2>1, <2>2 DEF CallInv, rowVars
  <1>9. NothingForeign'
    BY <1>3, <1>4 DEF Safe, PatchTypeOK, NothingForeign, rowVars
  <1>10. Alone(x)
    BY DEF Safe, PatchTypeOK, Alone
  <1> QED
    BY <1>5, <1>6, <1>7, <1>8, <1>9, <1>10, CallsKeep DEF Safe

(* The steps of restore_apply_run. *)

LEMMA SafeBeginRestore ==
  ASSUME Safe, NEW x \in Proc, NEW r \in Run, BeginRestore(x, r)
  PROVE  Safe'
  <1> USE DEF BeginRestore, Goto
  <1>1. PatchTypeOK'
    BY DEF Safe, PatchTypeOK, rowVars, Overlap, Rows
  <1>2. Alone(x)
    BY DEF Safe, PatchTypeOK, Alone
  <1>3. CallInv(x)'
    <2>1. Rows(r)' = Rows(r)
      BY DEF Rows, rowVars
    <2> QED
      BY <2>1 DEF Safe, PatchTypeOK, CallInv, Past, Applying, rowVars
  <1>4. NothingForeign'
    BY DEF Safe, NothingForeign, rowVars
  <1> QED
    BY <1>1, <1>2, <1>3, <1>4, RowsKeep, CallsKeep DEF Safe

LEMMA SafeRestoreFile ==
  ASSUME Safe, NEW x \in Proc, NEW f \in Path, RestoreFile(x, f)
  PROVE  Safe'
  <1> USE DEF RestoreFile
  <1>1. run[x] \in Run /\ snapshot[run[x]][f] # Nil
    BY DEF Safe, CallInv, Rows
  <1>2. snapshot[run[x]][f] \in File \ {Foreign}
    BY <1>1 DEF Safe, PatchTypeOK, NothingForeign
  <1>3. PatchTypeOK'
    BY <1>2 DEF Safe, PatchTypeOK, rowVars
  <1>4. Alone(x)
    BY DEF Safe, PatchTypeOK, Alone
  <1>5. CallInv(x)'
    <2>1. PatchOf(x)' = PatchOf(x) /\ Rows(run[x])' = Rows(run[x])
      BY DEF PatchOf, Rows, rowVars
    <2> QED
      BY <2>1 DEF Safe, PatchTypeOK, CallInv, Past, Applying, rowVars
  <1>6. NothingForeign'
    BY <1>2 DEF Safe, PatchTypeOK, NothingForeign, rowVars
  <1> QED
    BY <1>3, <1>4, <1>5, <1>6, RowsKeep, CallsKeep DEF Safe

\* A call never has the flag set without a row for every file of its patch.
LEMMA AvailableIsTrue ==
  ASSUME Safe, NEW x \in Proc, pc[x] # "idle", available[run[x]]
  PROVE  Affected(PatchOf(x)) \subseteq Rows(run[x])
  BY DEF Safe, CallInv, RunInv, PatchOf

LEMMA SafeStep ==
  ASSUME Safe, NEW x \in Proc, Step(x)
  PROVE  Safe'
  <1> USE DEF Status, Applied
  <1>1. CASE \E p \in Patch, a \in Approval, r \in Run : BeginApply(x, p, a, r)
    BY <1>1, SafeBeginApply
  <1>2. CASE \E r \in Run : BeginRestore(x, r)
    BY <1>2, SafeBeginRestore
  <1>3. CASE \E f \in Path : Snapshot(x, f) \/ GitWrites(x, f) \/ RestoreFile(x, f)
    BY <1>3, SafeSnapshot, SafeGitWrites, SafeRestoreFile
  <1>a. pc[x] # "idle" => run[x] \in Run /\ available[run[x]] \in BOOLEAN
    BY DEF Safe, CallInv, PatchTypeOK
  <1>p. pc[x] \in Past => Affected(PatchOf(x)) \subseteq Rows(run[x])
    BY DEF Safe, CallInv
  <1>4. CASE SnapshotFails(x)
    BY <1>4, <1>a, AvailableIsTrue, SafeRecord DEF SnapshotFails
  <1>5. CASE EndSnapshots(x)
    <2>1. Affected(PatchOf(x)) \subseteq Rows(run[x])
      BY <1>5 DEF EndSnapshots, Safe, CallInv
    <2> QED
      BY <1>5, <2>1, SafeRecord DEF EndSnapshots
  <1>6. CASE GitBegins(x)
    <2> DEFINE p == PatchOf(x)
    <2>1. p \in Patch
      BY <1>6 DEF GitBegins, Safe, CallInv, RunInv, PatchOf
    <2>2. Written(p) \in SUBSET Path /\ Rows(run[x]) \in SUBSET Path
      BY <2>1, PatchConstantsOK DEF Written, Rows
    <2>3. "write" \in Past /\ "rollBack" \in Past
      BY DEF Past, Applying
    <2> QED
      BY <1>6, <2>2, <2>3, SafeGoOn DEF GitBegins
  <1>7. CASE GitFails(x)
    <2>1. Rows(run[x]) \in SUBSET Path /\ "rollBack" \in Past
      BY DEF Rows, Past, Applying
    <2> QED
      BY <1>7, <2>1, SafeGoOn DEF GitFails
  <1>8. CASE RecordApplied(x)
    <2>1. Affected(PatchOf(x)) \subseteq Rows(run[x])
      BY <1>8, <1>p DEF RecordApplied, Past, Applying
    <2> QED
      BY <1>8, <2>1, SafeRecord DEF RecordApplied
  <1>9. CASE RunTests(x)
    <2>1. todo' = [todo EXCEPT ![x] = todo[x]] /\ todo[x] \in SUBSET Path
      BY <1>9 DEF RunTests, Safe, PatchTypeOK
    <2>2. PICK l \in {"passed", "failed"} : Goto(x, l)
      BY <1>9 DEF RunTests
    <2> QED
      BY <1>9, <2>1, <2>2, SafeGoOn DEF RunTests, Past, Applying
  <1>10. CASE TestsBlocked(x)
    BY <1>10, <1>a, AvailableIsTrue, SafeRecord DEF TestsBlocked
  <1>11. CASE EndApply(x)
    <2>1. Affected(PatchOf(x)) \subseteq Rows(run[x])
      BY <1>11, <1>p DEF EndApply, Past, Applying
    <2> QED
      BY <1>11, <2>1, SafeRecord DEF EndApply
  <1>12. CASE EndFailedApply(x)
    <2>1. Affected(PatchOf(x)) \subseteq Rows(run[x])
      BY <1>12, <1>p DEF EndFailedApply, Past, Applying
    <2> QED
      BY <1>12, <2>1, SafeRecord DEF EndFailedApply
  <1>13. CASE EndRestore(x)
    BY <1>13, SafeRecord DEF EndRestore
  <1>14. CASE RestoreStops(x)
    <2>1. CASE Return(x)
      BY <1>14, <2>1, SafeReturn DEF RestoreStops
    <2>2. CASE pc[x] = "rollBack"
      BY <1>14, <2>2, SafeGoOn DEF RestoreStops, Past, Applying
    <2> QED
      BY <1>14, <2>1, <2>2 DEF RestoreStops
  <1>15. CASE Crash(x)
    BY <1>15, SafeReturn DEF Crash
  <1> QED
    BY <1>1, <1>2, <1>3, <1>4, <1>5, <1>6, <1>7, <1>8, <1>9, <1>10, <1>11, <1>12, <1>13,
       <1>14, <1>15 DEF Step

\* Edits and changes of a patch file, and the steps in which nothing happens.
LEMMA SafeOutside ==
  ASSUME Safe,
         \/ \E f \in Path, c \in Typed : EditFile(f, c)
         \/ \E p \in Patch : ChangeDiff(p)
         \/ UNCHANGED vars
  PROVE  Safe'
  <1>1. UNCHANGED <<rowVars, callVars, touched>>
    BY DEF EditFile, ChangeDiff, vars
  <1>2. (\A x \in Proc : CallInv(x)') /\ \A r \in Run : RunInv(r)'
    BY <1>1, RowsKeep, CallKeeps DEF callVars
  <1>3. PatchTypeOK' /\ NothingForeign'
    <2>1. files' \in [Path -> File \ {Foreign}]
      BY PatchConstantsOK DEF EditFile, ChangeDiff, vars, Safe, PatchTypeOK, NothingForeign
    <2>2. diff' \in [Patch -> {"stored", "changed"}] /\ overlapped' \in BOOLEAN
      BY DEF EditFile, ChangeDiff, vars, Overlap, Safe, PatchTypeOK
    <2> QED
      BY <1>1, <2>1, <2>2 DEF Safe, PatchTypeOK, NothingForeign, rowVars, callVars
  <1> QED
    BY <1>2, <1>3 DEF Safe

-----------------------------------------------------------------------------
(* As long as nothing overlapped. *)

\* The rows of the runs stay.
LEMMA QuietRowsKeep ==
  ASSUME Inv, ~overlapped, ~overlapped', UNCHANGED <<rowVars, touched>>
  PROVE  SnapshotsFit' /\ NeverUnderstated'
  BY DEF Inv, QuietInv, SnapshotsFit, NeverUnderstated, Rows, rowVars

\* What update_apply_run may say of a run that wrote files.
LEMMA QuietSetRow ==
  ASSUME Inv, ~overlapped, ~overlapped', NEW x \in Proc, run[x] \in Run, NEW s, NEW avail,
         SetRow(x, s, avail), UNCHANGED touched,
         \/ touched[run[x]] = {} \/ avail
         \/ s \in {"ROLLED_BACK", "APPLY_FAILED_ROLLBACK_FAILED"}
  PROVE  SnapshotsFit' /\ NeverUnderstated'
  <1>1. SnapshotsFit'
    BY DEF Inv, QuietInv, SnapshotsFit, Rows, SetRow
  <1>2. ASSUME NEW r \in Run, touched'[r] # {}, ~available'[r]
        PROVE  status'[r] \in {"ROLLED_BACK", "APPLY_FAILED_ROLLBACK_FAILED"}
    BY <1>2 DEF Inv, Safe, PatchTypeOK, QuietInv, NeverUnderstated, SetRow
  <1> QED
    BY <1>1, <1>2 DEF NeverUnderstated

LEMMA QuietBeginApply ==
  ASSUME Inv, NEW x \in Proc, NEW p \in Patch, NEW a \in Approval, NEW r \in Run,
         BeginApply(x, p, a, r), ~overlapped'
  PROVE  QuietInv'
  <1> USE DEF BeginApply, Goto
  <1>1. ~overlapped /\ Busy = {}
    BY DEF Overlap
  <1>2. (\A y \in Proc \ {x} : pc[y] = "idle") /\ Alone(x)
    BY <1>1 DEF Busy, Alone, Inv, Safe, PatchTypeOK
  <1>3. Rows(r) = {} /\ touched[r] = {} /\ ~available[r]
    BY DEF Inv, Safe, RunInv
  <1>4. QuietCall(x)'
    <2>1. pc'[x] = "snapshot" /\ run'[x] = r /\ origin'[r] = <<p, a>>
      BY DEF Inv, Safe, PatchTypeOK
    <2>2. Fits(PatchOf(x))'
      BY <2>1 DEF Fits, PatchOf
    <2> QED
      BY <1>3, <2>1, <2>2 DEF QuietCall, Past
  <1>5. SnapshotsFit'
    <2>1. \A q \in Run : Rows(q)' = Rows(q)
      BY DEF Rows
    <2> QED
      BY <1>1, <1>3, <2>1 DEF Inv, Safe, PatchTypeOK, QuietInv, SnapshotsFit
  <1>6. NeverUnderstated'
    BY <1>1, <1>3 DEF Inv, Safe, PatchTypeOK, QuietInv, NeverUnderstated
  <1> QED
    BY <1>2, <1>4, <1>5, <1>6, QuietStep

LEMMA QuietBeginRestore ==
  ASSUME Inv, NEW x \in Proc, NEW r \in Run, BeginRestore(x, r), ~overlapped'
  PROVE  QuietInv'
  <1> USE DEF BeginRestore, Goto
  <1>1. ~overlapped /\ Busy = {}
    BY DEF Overlap
  <1>2. (\A y \in Proc \ {x} : pc[y] = "idle") /\ Alone(x)
    BY <1>1 DEF Busy, Alone, Inv, Safe, PatchTypeOK
  <1>3. QuietCall(x)'
    <2>1. pc'[x] = "restore" /\ run'[x] = r /\ todo'[x] = Rows(r)
      BY DEF Inv, Safe, PatchTypeOK
    <2>2. RestoredUpTo(x)'
      BY <2>1 DEF RestoredUpTo, Rows, rowVars
    <2> QED
      BY <2>1, <2>2 DEF QuietCall, Past, Applying
  <1> QED
    BY <1>1, <1>2, <1>3, QuietRowsKeep, QuietStep

LEMMA QuietSnapshot ==
  ASSUME Inv, NEW x \in Proc, NEW f \in Path, Snapshot(x, f), ~overlapped
  PROVE  QuietInv'
  <1> USE DEF Snapshot
  <1>r. PICK r \in Run : r = run[x]
    BY DEF Inv, Safe, CallInv
  <1>1. (\A y \in Proc \ {x} : pc[y] = "idle") /\ Alone(x)
    BY OthersIdle DEF Alone, Inv, Safe, PatchTypeOK
  <1>2. QuietCall(x)'
    BY DEF Inv, Safe, QuietInv, QuietCall, Fits, PatchOf, Past
  <1>3. SnapshotsFit'
    <2>1. Fits(PatchOf(x))
      BY DEF Inv, QuietInv, QuietCall
    <2>2. f \in Written(origin[r][1]) => files[f] = Edit[origin[r][1]][f].from
      BY <1>r, <2>1 DEF Fits, PatchOf
    <2>3. \A q \in Run : \A g \in Rows(q)' :
            \/ g \in Rows(q) /\ snapshot'[q][g] = snapshot[q][g]
            \/ q = r /\ g = f /\ snapshot'[q][g] = files[f]
      BY <1>r DEF Rows, Inv, Safe, PatchTypeOK
    <2> QED
      BY <2>2, <2>3 DEF Inv, QuietInv, SnapshotsFit
  <1>4. NeverUnderstated'
    BY DEF Inv, QuietInv, NeverUnderstated
  <1> QED
    BY <1>1, <1>2, <1>3, <1>4, QuietStep

LEMMA QuietGitWrites ==
  ASSUME Inv, NEW x \in Proc, NEW f \in Path, GitWrites(x, f), ~overlapped
  PROVE  QuietInv'
  <1> USE DEF GitWrites
  <1>r. PICK r \in Run : r = run[x]
    BY DEF Inv, Safe, CallInv
  <1>1. (\A y \in Proc \ {x} : pc[y] = "idle") /\ Alone(x)
    BY OthersIdle DEF Alone, Inv, Safe, PatchTypeOK
  <1>2. available[r]
    BY <1>r DEF Inv, QuietInv, QuietCall, Past, Applying
  <1>3. QuietCall(x)'
    BY <1>r, <1>2 DEF QuietCall, rowVars
  <1>4. SnapshotsFit'
    BY DEF Inv, QuietInv, SnapshotsFit, Rows, rowVars
  <1>5. NeverUnderstated'
    BY <1>r, <1>2 DEF Inv, Safe, PatchTypeOK, QuietInv, NeverUnderstated, rowVars
  <1> QED
    BY <1>1, <1>3, <1>4, <1>5, QuietStep

LEMMA QuietRestoreFile ==
  ASSUME Inv, NEW x \in Proc, NEW f \in Path, RestoreFile(x, f), ~overlapped
  PROVE  QuietInv'
  <1> USE DEF RestoreFile
  <1>1. (\A y \in Proc \ {x} : pc[y] = "idle") /\ Alone(x)
    BY OthersIdle DEF Alone, Inv, Safe, PatchTypeOK
  <1>2. RestoredUpTo(x)'
    <2>1. RestoredUpTo(x)
      BY DEF Inv, QuietInv, QuietCall
    <2>2. Rows(run[x])' = Rows(run[x]) /\ Rows(run[x]) \subseteq Path
      BY DEF Rows, rowVars
    <2> QED
      BY <2>1, <2>2 DEF RestoredUpTo, rowVars, Inv, Safe, PatchTypeOK
  <1>3. QuietCall(x)'
    BY <1>2 DEF Inv, QuietInv, QuietCall, rowVars, Past, Applying
  <1> QED
    BY <1>1, <1>3, QuietRowsKeep, QuietStep

\* A call returns; what it wrote to the row of its run is true of it.
LEMMA QuietReturn ==
  ASSUME Inv, NEW x \in Proc, pc[x] # "idle", Return(x), ~overlapped,
         SnapshotsFit', NeverUnderstated'
  PROVE  QuietInv'
  <1>1. (\A y \in Proc \ {x} : pc[y] = "idle") /\ Alone(x)
    BY OthersIdle DEF Alone, Inv, Safe, PatchTypeOK, Return, Goto
  <1>2. QuietCall(x)'
    BY DEF Return, Goto, QuietCall, Past, Applying, Inv, Safe, PatchTypeOK
  <1> QED
    BY <1>1, <1>2, QuietStep

\* A call goes on within the apply of a run that can be restored.
LEMMA QuietGoOn ==
  ASSUME Inv, NEW x \in Proc, pc[x] # "idle", NEW l \in Past \ {"apply", "rolledBack"}, Goto(x, l),
         UNCHANGED run, NEW ahead, todo' = [todo EXCEPT ![x] = ahead],
         l = "rollBack" => ahead = Rows(run[x]),
         UNCHANGED bytes, UNCHANGED snapshot, available'[run[x]], ~overlapped,
         SnapshotsFit', NeverUnderstated'
  PROVE  QuietInv'
  <1>1. (\A y \in Proc \ {x} : pc[y] = "idle") /\ Alone(x)
    BY OthersIdle DEF Alone, Inv, Safe, PatchTypeOK, Goto
  <1>2. pc'[x] = l /\ todo'[x] = ahead
    BY DEF Goto, Inv, Safe, PatchTypeOK
  <1>3. l = "rollBack" => RestoredUpTo(x)'
    BY <1>2 DEF RestoredUpTo, Rows
  <1>4. QuietCall(x)'
    BY <1>2, <1>3 DEF QuietCall, Past, Applying
  <1> QED
    BY <1>1, <1>4, QuietStep

LEMMA QuietEndSnapshots ==
  ASSUME Inv, NEW x \in Proc, EndSnapshots(x), ~overlapped
  PROVE  QuietInv'
  <1> USE DEF EndSnapshots
  <1>1. (\A y \in Proc \ {x} : pc[y] = "idle") /\ Alone(x)
    BY OthersIdle DEF Alone, Inv, Safe, PatchTypeOK, Goto
  <1>2. run[x] \in Run
    BY DEF Inv, Safe, CallInv
  <1>3. SnapshotsFit' /\ NeverUnderstated'
    BY <1>2, QuietSetRow
  <1>4. pc'[x] = "apply" /\ available'[run[x]]
    BY <1>2 DEF Goto, SetRow, Inv, Safe, PatchTypeOK
  <1>5. Fits(PatchOf(x))'
    BY DEF Inv, QuietInv, QuietCall, Fits, PatchOf, SetRow
  <1>6. QuietCall(x)'
    BY <1>4, <1>5 DEF QuietCall
  <1> QED
    BY <1>1, <1>3, <1>6, QuietStep

LEMMA QuietEndRestore ==
  ASSUME Inv, NEW x \in Proc, EndRestore(x), ~overlapped
  PROVE  QuietInv'
  <1> USE DEF EndRestore
  <1>1. run[x] \in Run /\ pc[x] # "idle"
    BY DEF Inv, Safe, CallInv
  <1>2. SnapshotsFit' /\ NeverUnderstated'
    BY <1>1, QuietSetRow
  <1>3. CASE pc[x] = "restore"
    BY <1>1, <1>2, <1>3, QuietReturn
  <1>4. CASE pc[x] = "rollBack"
    <2>1. (\A y \in Proc \ {x} : pc[y] = "idle") /\ Alone(x)
      BY <1>1, <1>4, OthersIdle DEF Alone, Inv, Safe, PatchTypeOK, Goto
    <2>2. pc'[x] = "rolledBack" /\ status'[run[x]] = "ROLLED_BACK"
      BY <1>1, <1>4 DEF Goto, SetRow, Inv, Safe, PatchTypeOK
    <2>3. RestoredUpTo(x)'
      BY <1>4 DEF Inv, QuietInv, QuietCall, RestoredUpTo, Rows, SetRow
    <2>4. QuietCall(x)'
      BY <1>4, <2>2, <2>3 DEF QuietCall, Past
    <2> QED
      BY <1>2, <2>1, <2>4, QuietStep
  <1> QED
    BY <1>3, <1>4

LEMMA QuietStepInv ==
  ASSUME Inv, NEW x \in Proc, Step(x)
  PROVE  QuietInv'
  <1> SUFFICES ASSUME ~overlapped' PROVE QuietInv'
    BY DEF QuietInv
  <1>1. CASE \E p \in Patch, a \in Approval, r \in Run : BeginApply(x, p, a, r)
    BY <1>1, QuietBeginApply
  <1>2. CASE \E r \in Run : BeginRestore(x, r)
    BY <1>2, QuietBeginRestore
  <1>3. CASE \E f \in Path : Snapshot(x, f) \/ GitWrites(x, f) \/ RestoreFile(x, f)
    BY <1>3, QuietSnapshot, QuietGitWrites, QuietRestoreFile DEF Snapshot, GitWrites, RestoreFile
  <1>r. pc[x] # "idle" => run[x] \in Run
    BY DEF Inv, Safe, CallInv
  <1>q. ASSUME ~overlapped PROVE QuietCall(x)
    BY <1>q DEF Inv, QuietInv
  <1>4. CASE SnapshotFails(x)
    <2>1. ~overlapped /\ pc[x] # "idle" /\ touched[run[x]] = {}
      BY <1>4, <1>q DEF SnapshotFails, QuietCall
    <2>2. SnapshotsFit' /\ NeverUnderstated'
      BY <1>4, <1>r, <2>1, QuietSetRow DEF SnapshotFails
    <2> QED
      BY <1>4, <2>1, <2>2, QuietReturn DEF SnapshotFails
  <1>5. CASE EndSnapshots(x)
    BY <1>5, QuietEndSnapshots DEF EndSnapshots
  <1>6. CASE GitBegins(x)
    <2>1. ~overlapped /\ pc[x] # "idle" /\ available'[run[x]] /\ Fits(PatchOf(x))
      BY <1>6, <1>q DEF GitBegins, QuietCall, rowVars, Past, Applying
    <2>2. SnapshotsFit' /\ NeverUnderstated'
      BY <1>6, <2>1, QuietRowsKeep DEF GitBegins
    <2>3. "write" \in Past \ {"apply", "rolledBack"}
      BY DEF Past, Applying
    <2> QED
      BY <1>6, <2>1, <2>2, <2>3, QuietGoOn DEF GitBegins, rowVars
  <1>7. CASE GitFails(x)
    <2>1. ~overlapped /\ pc[x] # "idle" /\ available'[run[x]]
      BY <1>7, <1>q DEF GitFails, QuietCall, rowVars, Past, Applying
    <2>2. SnapshotsFit' /\ NeverUnderstated'
      BY <1>7, <2>1, QuietRowsKeep DEF GitFails
    <2>3. "rollBack" \in Past \ {"apply", "rolledBack"}
      BY DEF Past, Applying
    <2> QED
      BY <1>7, <2>1, <2>2, <2>3, QuietGoOn DEF GitFails, rowVars
  <1>8. CASE RecordApplied(x)
    <2>1. ~overlapped /\ pc[x] # "idle"
      BY <1>8 DEF RecordApplied
    <2>2. SnapshotsFit' /\ NeverUnderstated' /\ available'[run[x]]
      BY <1>8, <1>r, <2>1, QuietSetRow DEF RecordApplied, SetRow, Inv, Safe, PatchTypeOK
    <2>3. todo' = [todo EXCEPT ![x] = todo[x]]
      BY <1>8 DEF RecordApplied, Inv, Safe, PatchTypeOK
    <2>4. PICK l \in {"test", "untested"} : Goto(x, l)
      BY <1>8 DEF RecordApplied
    <2>5. l \in Past \ {"apply", "rolledBack"} /\ l # "rollBack"
      BY DEF Past, Applying
    <2> QED
      BY <1>8, <2>1, <2>2, <2>3, <2>4, <2>5, QuietGoOn DEF RecordApplied, SetRow
  <1>9. CASE RunTests(x)
    <2>1. ~overlapped /\ pc[x] # "idle" /\ available'[run[x]]
      BY <1>9, <1>q DEF RunTests, QuietCall, rowVars, Past, Applying
    <2>2. SnapshotsFit' /\ NeverUnderstated'
      BY <1>9, <2>1, QuietRowsKeep DEF RunTests
    <2>3. todo' = [todo EXCEPT ![x] = todo[x]]
      BY <1>9 DEF RunTests, Inv, Safe, PatchTypeOK
    <2>4. PICK l \in {"passed", "failed"} : Goto(x, l)
      BY <1>9 DEF RunTests
    <2>5. l \in Past \ {"apply", "rolledBack"} /\ l # "rollBack"
      BY DEF Past, Applying
    <2> QED
      BY <1>9, <2>1, <2>2, <2>3, <2>4, <2>5, QuietGoOn DEF RunTests, rowVars
  <1>10. CASE TestsBlocked(x)
    <2>1. ~overlapped /\ pc[x] # "idle" /\ available[run[x]]
      BY <1>10, <1>q DEF TestsBlocked, QuietCall, Past, Applying
    <2>2. SnapshotsFit' /\ NeverUnderstated'
      BY <1>10, <1>r, <2>1, QuietSetRow DEF TestsBlocked
    <2> QED
      BY <1>10, <2>1, <2>2, QuietReturn DEF TestsBlocked
  <1>11. CASE EndApply(x)
    <2>1. ~overlapped /\ pc[x] # "idle"
      BY <1>11 DEF EndApply
    <2>2. PICK s : SetRow(x, s, TRUE)
      BY <1>11 DEF EndApply
    <2>3. SnapshotsFit' /\ NeverUnderstated'
      BY <1>11, <1>r, <2>1, <2>2, QuietSetRow DEF EndApply
    <2> QED
      BY <1>11, <2>1, <2>3, QuietReturn DEF EndApply
  <1>12. CASE EndFailedApply(x)
    <2>1. ~overlapped /\ pc[x] # "idle"
      BY <1>12 DEF EndFailedApply
    <2>2. SnapshotsFit' /\ NeverUnderstated'
      BY <1>12, <1>r, <2>1, QuietSetRow DEF EndFailedApply
    <2> QED
      BY <1>12, <2>1, <2>2, QuietReturn DEF EndFailedApply
  <1>13. CASE EndRestore(x)
    BY <1>13, QuietEndRestore DEF EndRestore
  <1>14. CASE RestoreStops(x)
    <2>1. ~overlapped /\ pc[x] # "idle"
      BY <1>14 DEF RestoreStops
    <2>2. SnapshotsFit' /\ NeverUnderstated'
      BY <1>14, <2>1, QuietRowsKeep DEF RestoreStops
    <2>3. CASE Return(x)
      BY <2>1, <2>2, <2>3, QuietReturn
    <2>4. CASE pc[x] = "rollBack" /\ ~Return(x)
      <3>1. available'[run[x]]
        BY <1>14, <1>q, <2>1, <2>4 DEF RestoreStops, QuietCall, rowVars, Past, Applying
      <3>2. "rollbackFailed" \in Past \ {"apply", "rolledBack"}
        BY DEF Past, Applying
      <3> QED
        BY <1>14, <2>1, <2>2, <2>4, <3>1, <3>2, QuietGoOn DEF RestoreStops, rowVars
    <2> QED
      BY <1>14, <2>3, <2>4 DEF RestoreStops
  <1>15. CASE Crash(x)
    <2>1. ~overlapped /\ pc[x] # "idle"
      BY <1>15 DEF Crash
    <2> QED
      BY <1>15, <2>1, QuietRowsKeep, QuietReturn DEF Crash
  <1> QED
    BY <1>1, <1>2, <1>3, <1>4, <1>5, <1>6, <1>7, <1>8, <1>9, <1>10, <1>11, <1>12, <1>13,
       <1>14, <1>15 DEF Step

LEMMA QuietOutside ==
  ASSUME Inv,
         \/ \E f \in Path, c \in Typed : EditFile(f, c)
         \/ \E p \in Patch : ChangeDiff(p)
         \/ UNCHANGED vars
  PROVE  QuietInv'
  <1> SUFFICES ASSUME ~overlapped' PROVE QuietInv'
    BY DEF QuietInv
  <1>1. ~overlapped /\ UNCHANGED <<rowVars, callVars, touched>>
    <2>1. UNCHANGED <<rowVars, callVars, touched>>
      BY DEF EditFile, ChangeDiff, vars
    <2>2. ~overlapped
      BY Zenon DEF EditFile, ChangeDiff, vars, Overlap
    <2> QED
      BY <2>1, <2>2
  <1>2. SnapshotsFit' /\ NeverUnderstated'
    BY <1>1, QuietRowsKeep
  <1>3. OneCall'
    BY <1>1 DEF Inv, QuietInv, OneCall, callVars
  <1>4. ASSUME NEW x \in Proc PROVE QuietCall(x)'
    <2>1. pc[x] = "idle" \/ UNCHANGED files
      BY DEF EditFile, ChangeDiff, vars, Overlap, Busy
    <2>2. CASE pc[x] = "idle"
      BY <1>1, <2>2 DEF QuietCall, callVars, Past, Applying
    <2>3. CASE UNCHANGED files
      BY <1>1, <2>3 DEF Inv, QuietInv, QuietCall, RestoredUpTo, Rows, Fits, PatchOf, rowVars, callVars
    <2> QED
      BY <2>1, <2>2, <2>3
  <1> QED
    BY <1>2, <1>3, <1>4 DEF QuietInv

-----------------------------------------------------------------------------

LEMMA StepInv == Inv /\ [Next]_vars => Inv'
  <1> SUFFICES ASSUME Inv, [Next]_vars PROVE Inv'
    OBVIOUS
  <1>1. CASE \E x \in Proc : Step(x)
    BY <1>1, SafeStep, QuietStepInv DEF Inv
  <1>2. CASE ~ \E x \in Proc : Step(x)
    BY <1>2, SafeOutside, QuietOutside DEF Inv, Next
  <1> QED
    BY <1>1, <1>2

\* What the rows and the files look like, whatever overlaps or dies.
THEOREM TypeCorrect == Spec => []PatchTypeOK
  <1>1. Inv => PatchTypeOK
    BY DEF Inv, Safe
  <1> QED
    BY <1>1, InitInv, StepInv, PTL DEF Spec

\* No file gets bytes that were not approved: what an apply has read and
\* hashed is what git writes, however the patch file changes meanwhile and
\* however many calls work on one repository (apply.py 61-77).
THEOREM ApprovedBytesOnlyAlways == Spec => []ApprovedBytesOnly
  <1>1. Inv => ApprovedBytesOnly
    BY DEF Inv, Safe, RunInv, NothingForeign, ApprovedBytesOnly
  <1> QED
    BY <1>1, InitInv, StepInv, PTL DEF Spec

\* Wherever a process dies, every affected path git wrote has its snapshot row,
\* and a run that claims rollback_available has the rows of all affected paths
\* of its patch (apply.py 108-120), also when other calls end or restore the
\* same run.  Affected paths need not be the ones git writes: nothing is said
\* of a file whose section has no "--- " and "+++ " lines.
THEOREM SnapshotsFirstAlways == Spec => []SnapshotsFirst
  <1>1. Inv => SnapshotsFirst
    BY DEF Inv, Safe, RunInv, SnapshotsFirst
  <1> QED
    BY <1>1, InitInv, StepInv, PTL DEF Spec

\* Without an overlap, the row of a run that wrote files never says that there
\* is nothing to restore, wherever the process died (apply.py 120-182).
THEOREM NeverUnderstatedAlways == Spec => []NeverUnderstated
  <1>1. Inv => NeverUnderstated
    BY DEF Inv, QuietInv, NeverUnderstated
  <1> QED
    BY <1>1, InitInv, StepInv, PTL DEF Spec

\* A run comes to say that it is rolled back at the end of a restore, or of the
\* apply that made one.
LEMMA RolledBackBy ==
  ASSUME Inv, [Next]_vars, NEW r \in Run, status'[r] # status[r],
         status'[r] \in {"ROLLED_BACK", "APPLY_FAILED_ROLLED_BACK"}
  PROVE  /\ UNCHANGED files
         /\ \E x \in Proc :
              /\ run[x] = r
              /\ \/ pc[x] \in {"restore", "rollBack"} /\ todo[x] = {}
                 \/ pc[x] = "rolledBack"
  <1>1. PICK x \in Proc : Step(x)
    BY DEF Next, EditFile, ChangeDiff, vars, rowVars
  <1>2. status \in [Run -> Status \cup {"none"}]
    BY DEF Inv, Safe, PatchTypeOK
  <1>3. ~ \E p \in Patch, a \in Approval, q \in Run : BeginApply(x, p, a, q)
    BY DEF BeginApply, Inv, Safe, PatchTypeOK
  <1>4. ~SnapshotFails(x) /\ ~EndSnapshots(x) /\ ~RecordApplied(x) /\ ~TestsBlocked(x)
    BY <1>2 DEF SetRow, SnapshotFails, EndSnapshots, RecordApplied, TestsBlocked
  <1>5. ~EndApply(x)
    <2> SUFFICES ASSUME EndApply(x) PROVE FALSE
      OBVIOUS
    <2>1. CASE pc[x] = "passed"
      BY <1>2, <2>1 DEF SetRow, EndApply
    <2>2. CASE pc[x] = "failed"
      BY <1>2, <2>2 DEF SetRow, EndApply
    <2>3. CASE pc[x] = "untested"
      BY <1>2, <2>3 DEF SetRow, EndApply
    <2> QED
      BY <2>1, <2>2, <2>3 DEF EndApply
  <1>6. EndRestore(x) => /\ run[x] = r /\ UNCHANGED files
                         /\ pc[x] \in {"restore", "rollBack"} /\ todo[x] = {}
    BY <1>2 DEF SetRow, EndRestore
  <1>7. EndFailedApply(x) => run[x] = r /\ UNCHANGED files /\ pc[x] = "rolledBack"
    BY <1>2 DEF SetRow, EndFailedApply
  <1>8. ~(UNCHANGED rowVars) /\ ~(\E f \in Path : Snapshot(x, f))
    BY DEF rowVars, Snapshot
  <1>9. EndRestore(x) \/ EndFailedApply(x)
    BY <1>1, <1>3, <1>4, <1>5, <1>8 DEF Step, BeginRestore, GitWrites, RestoreFile,
       GitBegins, GitFails, RunTests, RestoreStops, Crash
  <1> QED
    BY <1>6, <1>7, <1>9

\* Without an overlap, a run that comes to say it is rolled back has in every
\* affected path git wrote for it the bytes from before the apply, also if the
\* apply stopped half way, or died and was restored later (rollback.py 21-45,
\* apply.py 120-131).  What git wrote beside the affected paths stays.
THEOREM OriginalsRestoredAlways == Spec => OriginalsRestored
  <1> DEFINE Restored ==
        \A r \in Run :
          (/\ ~overlapped
           /\ status'[r] # status[r]
           /\ status'[r] \in {"ROLLED_BACK", "APPLY_FAILED_ROLLED_BACK"})
              => \A f \in touched[r] : f \in Affected(origin[r][1]) =>
                     files'[f] = Edit[origin[r][1]][f].from
  <1>1. Inv /\ [Next]_vars => [Restored]_vars
    <2> SUFFICES ASSUME Inv, [Next]_vars, NEW r \in Run, ~overlapped, status'[r] # status[r],
                        status'[r] \in {"ROLLED_BACK", "APPLY_FAILED_ROLLED_BACK"},
                        NEW f \in touched[r], f \in Affected(origin[r][1])
                 PROVE  files'[f] = Edit[origin[r][1]][f].from
      OBVIOUS
    <2>1. PICK x \in Proc :
            /\ run[x] = r
            /\ \/ pc[x] \in {"restore", "rollBack"} /\ todo[x] = {}
               \/ pc[x] = "rolledBack"
      BY RolledBackBy
    <2>2. todo[x] = {} /\ RestoredUpTo(x)
      BY <2>1 DEF Inv, QuietInv, QuietCall
    <2>3. f \in Rows(r) /\ f \in Written(origin[r][1]) /\ files' = files
      BY RolledBackBy DEF Inv, Safe, RunInv
    <2>4. snapshot[r][f] = Edit[origin[r][1]][f].from
      BY <2>3 DEF Inv, QuietInv, SnapshotsFit
    <2> QED
      BY <2>1, <2>2, <2>3, <2>4 DEF RestoredUpTo
  <1> QED
    BY <1>1, InitInv, StepInv, PTL DEF Spec, OriginalsRestored

=============================================================================
