----------------------------- MODULE PatchApply -----------------------------
(***************************************************************************)
(* PatchApplyService.apply_approved_patch (patching/apply.py) with the     *)
(* RollbackSnapshotService and the RollbackRestoreService it calls, and    *)
(* the restore command of the admin CLI, over one target repository.       *)
(* Nothing keeps two of these calls apart.  Snapshot rows, status rows and *)
(* file writes are separate steps; a process may die, or git or a test     *)
(* command may raise a timeout, between any two of them.                   *)
(***************************************************************************)
CONSTANTS
    Proc,     \* processes that run apply or restore calls
    Run,      \* apply_run_id
    Path,     \* files of the target repository
    Content,  \* what a file may hold
    Typed,    \* what somebody who works in the repository may write
    Foreign,  \* the content a patch file that was changed on disk would write
    Absent,   \* there is no such file
    Nil,      \* no row
    Patch,    \* the rows of patch_artifacts, which nothing updates
    Edit,     \* what git does for the stored diff of a patch: [from, to] by path
    Marked,   \* what stands after "--- " and "+++ " at the start of its lines
    Unsafe,   \* the patches validate_unified_diff refuses
    Approval, \* the rows of approval_records, which nothing updates
    Record    \* their columns; exact: approved_diff_sha256 is that of the patch

File == Content \cup {Absent}

ASSUME PatchConstantsOK ==
    /\ Foreign \in Content
    /\ Typed \subseteq File \ {Foreign}
    /\ Absent \notin Content /\ Nil \notin File \cup Patch \cup Approval \cup Run
    /\ \A p \in Patch :
        /\ DOMAIN Edit[p] \subseteq Path
        /\ \A f \in DOMAIN Edit[p] : Edit[p][f] \in [from: File, to: File \ {Foreign}]
    /\ Record \in [Approval -> [patch: Patch, approved: BOOLEAN, exact: BOOLEAN, tests: BOOLEAN]]

\* The paths a patch writes, as the code finds them: not those of a section
\* that has no such lines (a file that is only renamed, changes its mode only,
\* or is empty), and one that no section is about if a removed line looks like
\* one of them.  /dev/null is no path.
Affected(p) == Marked[p] \cap Path

\* The paths git writes.
Written(p) == DOMAIN Edit[p]

VARIABLES
    files,     \* the working tree of the target repository
    diff,      \* the patch file: "stored", or "changed" since
    \* patch_apply_runs and file_snapshots
    status,    \* "none": no row
    available, \* rollback_available
    origin,    \* <<patch_id, approval_id>> of the row
    snapshot,  \* what the snapshot row of a path says it held, Nil: no row
    \* the calls
    pc,
    run,       \* the run the call is about
    todo,      \* the paths the loop it is in has not reached
    bytes,     \* the patch bytes it read
    \* observed by the properties only
    touched,   \* paths that git wrote for a run
    overlapped \* two calls, or a call and an edit, were ever in progress at once

rowVars  == <<status, available, origin, snapshot>>
callVars == <<pc, run, todo, bytes>>
vars     == <<files, diff, rowVars, callVars, touched, overlapped>>

Applied  == {"APPLIED", "TESTS_BLOCKED", "APPLIED_TESTS_PASSED", "APPLIED_TESTS_FAILED"}
Status   == Applied \cup
    {"SNAPSHOTTING", "SNAPSHOTTED", "SNAPSHOT_FAILED", "APPLY_FAILED_ROLLED_BACK",
     "APPLY_FAILED_ROLLBACK_FAILED", "ROLLED_BACK"}
Applying == {"snapshot", "apply", "write", "rollBack", "rolledBack",
             "rollbackFailed", "test", "passed", "failed", "untested"}

PatchTypeOK ==
    /\ files \in [Path -> File]
    /\ diff \in [Patch -> {"stored", "changed"}]
    /\ status \in [Run -> Status \cup {"none"}]
    /\ available \in [Run -> BOOLEAN]
    /\ origin \in [Run -> (Patch \X Approval) \cup {Nil}]
    /\ snapshot \in [Run -> [Path -> File \cup {Nil}]]
    /\ pc \in [Proc -> Applying \cup {"idle", "restore"}]
    /\ run \in [Proc -> Run \cup {Nil}]
    /\ todo \in [Proc -> SUBSET Path]
    /\ bytes \in [Proc -> {"stored", "changed"}]
    /\ touched \in [Run -> SUBSET Path]
    /\ overlapped \in BOOLEAN

Init ==
    /\ files \in [Path -> File \ {Foreign}]
    /\ diff = [p \in Patch |-> "stored"]
    /\ status = [r \in Run |-> "none"]
    /\ available = [r \in Run |-> FALSE]
    /\ origin = [r \in Run |-> Nil]
    /\ snapshot = [r \in Run |-> [f \in Path |-> Nil]]
    /\ pc = [x \in Proc |-> "idle"]
    /\ run = [x \in Proc |-> Nil]
    /\ todo = [x \in Proc |-> {}]
    /\ bytes = [x \in Proc |-> "stored"]
    /\ touched = [r \in Run |-> {}]
    /\ overlapped = FALSE

Busy == {x \in Proc : pc[x] # "idle"}

\* A call begins, or the tree is edited, while the calls of Busy are in progress.
Overlap == overlapped' = (overlapped \/ Busy # {})

PatchOf(x)  == origin[run[x]][1]
TestsOf(x)  == Record[origin[run[x]][2]].tests

\* Mutant of Rows: the restore walks over files that have no row.
RowsOfEveryPath(r) == Path
Rows(r) == {f \in Path : snapshot[r][f] # Nil}

\* git apply --check: every file of a section is as the diff expects it.
Fits(p) == \A f \in Written(p) : files[f] = Edit[p][f].from

Goto(x, label) == pc' = [pc EXCEPT ![x] = label]

\* The call of x is over: it returned or raised.
Return(x) ==
    /\ Goto(x, "idle")
    /\ run' = [run EXCEPT ![x] = Nil]
    /\ todo' = [todo EXCEPT ![x] = {}]
    /\ bytes' = [bytes EXCEPT ![x] = "stored"]

\* update_apply_run.
SetRow(x, s, avail) ==
    /\ status' = [status EXCEPT ![run[x]] = s]
    /\ available' = [available EXCEPT ![run[x]] = avail]
    /\ UNCHANGED <<origin, snapshot>>

-----------------------------------------------------------------------------
(* apply_approved_patch. *)

\* Mutant of BeginApply: the stored sha256 is not compared with the file.
BeginApplyUnhashed(x, p, a, r) ==
    /\ pc[x] = "idle"
    /\ Record[a].patch = p /\ Record[a].approved /\ Record[a].exact
    /\ p \notin Unsafe /\ Affected(p) # {}
    /\ Fits(p)
    /\ status[r] = "none"
    /\ status' = [status EXCEPT ![r] = "SNAPSHOTTING"]
    /\ origin' = [origin EXCEPT ![r] = <<p, a>>]
    /\ run' = [run EXCEPT ![x] = r]
    /\ bytes' = [bytes EXCEPT ![x] = diff[p]]
    /\ todo' = [todo EXCEPT ![x] = Affected(p)]
    /\ Goto(x, "snapshot")
    /\ Overlap
    /\ UNCHANGED <<files, diff, available, snapshot, touched>>

\* Every check up to git apply --check, and the row of the run.  A call that
\* fails a check changes nothing.  The bytes that are hashed are the ones that
\* are applied.  Not looked at: the target_repo columns of the patch and of the
\* approval, and whether the approval was used before.
BeginApply(x, p, a, r) ==
    /\ pc[x] = "idle"
    /\ Record[a].patch = p
    /\ Record[a].approved
    /\ Record[a].exact
    /\ diff[p] = "stored"
    /\ p \notin Unsafe /\ Affected(p) # {}
    /\ Fits(p)
    /\ status[r] = "none"
    /\ status' = [status EXCEPT ![r] = "SNAPSHOTTING"]
    /\ origin' = [origin EXCEPT ![r] = <<p, a>>]
    /\ run' = [run EXCEPT ![x] = r]
    /\ bytes' = [bytes EXCEPT ![x] = diff[p]]
    /\ todo' = [todo EXCEPT ![x] = Affected(p)]
    /\ Goto(x, "snapshot")
    /\ Overlap
    /\ UNCHANGED <<files, diff, available, snapshot, touched>>

\* snapshot_targets copies one file and inserts its row.
Snapshot(x, f) ==
    /\ pc[x] = "snapshot"
    /\ f \in todo[x]
    /\ snapshot' = [snapshot EXCEPT ![run[x]][f] = files[f]]
    /\ todo' = [todo EXCEPT ![x] = @ \ {f}]
    /\ UNCHANGED <<files, diff, status, available, origin, pc, run, bytes, touched, overlapped>>

\* Copying, verifying or inserting raises: the run is over, nothing was written.
SnapshotFails(x) ==
    /\ pc[x] = "snapshot"
    /\ SetRow(x, "SNAPSHOT_FAILED", available[run[x]])
    /\ Return(x)
    /\ UNCHANGED <<files, diff, touched, overlapped>>

\* Mutant of EndSnapshots: the last file is left for later.
EndSnapshotsEarly(x) ==
    /\ pc[x] = "snapshot"
    /\ SetRow(x, "SNAPSHOTTED", TRUE)
    /\ todo' = [todo EXCEPT ![x] = {}]
    /\ Goto(x, "apply")
    /\ UNCHANGED <<files, diff, run, bytes, touched, overlapped>>

\* Mutant of EndSnapshots: rollback_available waits for APPLIED.
EndSnapshotsUnavailable(x) ==
    /\ pc[x] = "snapshot"
    /\ todo[x] = {}
    /\ SetRow(x, "SNAPSHOTTED", FALSE)
    /\ Goto(x, "apply")
    /\ UNCHANGED <<files, diff, run, todo, bytes, touched, overlapped>>

EndSnapshots(x) ==
    /\ pc[x] = "snapshot"
    /\ todo[x] = {}
    /\ SetRow(x, "SNAPSHOTTED", TRUE)
    /\ Goto(x, "apply")
    /\ UNCHANGED <<files, diff, run, todo, bytes, touched, overlapped>>

\* git apply looks at every file again before it writes the first one.
GitBegins(x) ==
    /\ pc[x] = "apply"
    /\ IF Fits(PatchOf(x))
       THEN Goto(x, "write") /\ todo' = [todo EXCEPT ![x] = Written(PatchOf(x))]
       ELSE Goto(x, "rollBack") /\ todo' = [todo EXCEPT ![x] = Rows(run[x])]
    /\ UNCHANGED <<files, diff, rowVars, run, bytes, touched, overlapped>>

GitWrites(x, f) ==
    /\ pc[x] = "write"
    /\ f \in todo[x]
    /\ files' = [files EXCEPT ![f] = IF bytes[x] = "stored" THEN Edit[PatchOf(x)][f].to ELSE Foreign]
    /\ touched' = [touched EXCEPT ![run[x]] = @ \cup {f}]
    /\ todo' = [todo EXCEPT ![x] = @ \ {f}]
    /\ UNCHANGED <<diff, rowVars, pc, run, bytes, overlapped>>

\* git ends with an error after some of its writes: restore_apply_run.
GitFails(x) ==
    /\ pc[x] = "write"
    /\ todo[x] # {}
    /\ Goto(x, "rollBack")
    /\ todo' = [todo EXCEPT ![x] = Rows(run[x])]
    /\ UNCHANGED <<files, diff, rowVars, run, bytes, touched, overlapped>>

\* The row says APPLIED; then come the tests the approval declares, if any.
RecordApplied(x) ==
    /\ pc[x] = "write"
    /\ todo[x] = {}
    /\ SetRow(x, "APPLIED", TRUE)
    /\ Goto(x, IF TestsOf(x) THEN "test" ELSE "untested")
    /\ UNCHANGED <<files, diff, run, todo, bytes, touched, overlapped>>

RunTests(x) ==
    /\ pc[x] = "test"
    /\ \E verdict \in {"passed", "failed"} : Goto(x, verdict)
    /\ UNCHANGED <<files, diff, rowVars, run, todo, bytes, touched, overlapped>>

\* A test command is refused or times out.
TestsBlocked(x) ==
    /\ pc[x] = "test"
    /\ SetRow(x, "TESTS_BLOCKED", available[run[x]])
    /\ Return(x)
    /\ UNCHANGED <<files, diff, touched, overlapped>>

\* The final status, whatever the row says by now.
EndApply(x) ==
    /\ pc[x] \in {"passed", "failed", "untested"}
    /\ SetRow(x, CASE pc[x] = "passed" -> "APPLIED_TESTS_PASSED"
                   [] pc[x] = "failed" -> "APPLIED_TESTS_FAILED"
                   [] OTHER -> "APPLIED", TRUE)
    /\ Return(x)
    /\ UNCHANGED <<files, diff, touched, overlapped>>

\* After the restore of a failed apply, rollback_available is what it returned.
EndFailedApply(x) ==
    /\ \/ pc[x] = "rolledBack" /\ SetRow(x, "APPLY_FAILED_ROLLED_BACK", TRUE)
       \/ pc[x] = "rollbackFailed" /\ SetRow(x, "APPLY_FAILED_ROLLBACK_FAILED", FALSE)
    /\ Return(x)
    /\ UNCHANGED <<files, diff, touched, overlapped>>

-----------------------------------------------------------------------------
(* restore_apply_run, from the admin CLI ("restore") or from a failed apply *)
(* ("rollBack").                                                            *)

\* restore_patch_run --confirm: of any run, whatever its status.
BeginRestore(x, r) ==
    /\ pc[x] = "idle"
    /\ status[r] # "none"
    /\ run' = [run EXCEPT ![x] = r]
    /\ todo' = [todo EXCEPT ![x] = Rows(r)]
    /\ Goto(x, "restore")
    /\ Overlap
    /\ UNCHANGED <<files, diff, rowVars, bytes, touched>>

\* Mutant of RestoreFile: a file the patch created is left in place.
RestoreFileKeepingCreated(x, f) ==
    /\ pc[x] \in {"restore", "rollBack"}
    /\ f \in todo[x]
    /\ files' = IF snapshot[run[x]][f] = Absent THEN files
                ELSE [files EXCEPT ![f] = snapshot[run[x]][f]]
    /\ todo' = [todo EXCEPT ![x] = @ \ {f}]
    /\ UNCHANGED <<diff, rowVars, pc, run, bytes, touched, overlapped>>

\* One file is written back, or deleted if there was none.
RestoreFile(x, f) ==
    /\ pc[x] \in {"restore", "rollBack"}
    /\ f \in todo[x]
    /\ files' = [files EXCEPT ![f] = snapshot[run[x]][f]]
    /\ todo' = [todo EXCEPT ![x] = @ \ {f}]
    /\ UNCHANGED <<diff, rowVars, pc, run, bytes, touched, overlapped>>

EndRestore(x) ==
    /\ todo[x] = {}
    /\ \/ pc[x] = "restore" /\ Return(x)
       \/ pc[x] = "rollBack" /\ Goto(x, "rolledBack") /\ UNCHANGED <<run, todo, bytes>>
    /\ SetRow(x, "ROLLED_BACK", FALSE)
    /\ UNCHANGED <<files, diff, touched, overlapped>>

\* A backup is damaged, a target became a symlink, or a file that was written
\* back does not read as its snapshot, which may be the last one: the early
\* returns of the loop leave the files it has reached restored.
RestoreStops(x) ==
    /\ pc[x] \in {"restore", "rollBack"}
    /\ todo[x] # {} \/ \E f \in Rows(run[x]) : snapshot[run[x]][f] # Absent
    /\ \/ pc[x] = "restore" /\ Return(x)
       \/ /\ pc[x] = "rollBack"
          /\ Goto(x, "rollbackFailed")
          /\ todo' = [todo EXCEPT ![x] = {}]
          /\ UNCHANGED <<run, bytes>>
    /\ UNCHANGED <<files, diff, rowVars, touched, overlapped>>

-----------------------------------------------------------------------------
\* The process dies, or something is raised that nothing catches: TimeoutExpired
\* by git apply, OSError by a restore that does not find a backup.
Crash(x) ==
    /\ pc[x] # "idle"
    /\ Return(x)
    /\ UNCHANGED <<files, diff, rowVars, touched, overlapped>>

\* Somebody works in the repository, or changes a patch file on disk.
EditFile(f, c) ==
    /\ files' = [files EXCEPT ![f] = c]
    /\ Overlap
    /\ UNCHANGED <<diff, rowVars, callVars, touched>>
ChangeDiff(p) ==
    /\ diff' = [diff EXCEPT ![p] = "changed"]
    /\ UNCHANGED <<files, rowVars, callVars, touched, overlapped>>

Step(x) ==
    \/ \E p \in Patch, a \in Approval, r \in Run : BeginApply(x, p, a, r)
    \/ \E r \in Run : BeginRestore(x, r)
    \/ \E f \in Path : Snapshot(x, f) \/ GitWrites(x, f) \/ RestoreFile(x, f)
    \/ SnapshotFails(x) \/ EndSnapshots(x)
    \/ GitBegins(x) \/ GitFails(x) \/ RecordApplied(x)
    \/ RunTests(x) \/ TestsBlocked(x) \/ EndApply(x) \/ EndFailedApply(x)
    \/ EndRestore(x) \/ RestoreStops(x) \/ Crash(x)

Next ==
    \/ \E x \in Proc : Step(x)
    \/ \E f \in Path, c \in Typed : EditFile(f, c)
    \/ \E p \in Patch : ChangeDiff(p)

Spec == Init /\ [][Next]_vars

-----------------------------------------------------------------------------
(* Whatever calls overlap and wherever a process dies. *)

\* Only the bytes an approval was given for reach the repository: no run wrote
\* a file without an approved record for its patch and its hash, and a patch
\* file that was changed on disk at any time is never what git writes
\* (apply.py 61-77).
ApprovedBytesOnly ==
    /\ \A f \in Path : files[f] # Foreign
    /\ \A r \in Run : touched[r] # {} =>
        LET record == Record[origin[r][2]] IN
        record.approved /\ record.exact /\ record.patch = origin[r][1]

\* No file among the affected paths of the patch is written before it has a
\* snapshot row, and a run that claims rollback_available has a row for each of
\* them, so that whenever the process dies they can be restored (apply.py
\* 108-120).  It says nothing of the files git writes for sections that
\* _affected_paths does not see: they have no row.
SnapshotsFirst ==
    \A r \in Run :
        /\ \A f \in touched[r] : f \in Affected(origin[r][1]) => f \in Rows(r)
        /\ available[r] => Affected(origin[r][1]) \subseteq Rows(r)

-----------------------------------------------------------------------------
(* As long as no two calls overlapped and nobody edited a file during one. *)

\* The row of a run that wrote files tells an operator to restore it, unless
\* it was restored already or its restore failed.
NeverUnderstated ==
    ~overlapped => \A r \in Run :
        touched[r] # {} /\ ~available[r] =>
            status[r] \in {"ROLLED_BACK", "APPLY_FAILED_ROLLBACK_FAILED"}

\* A run that says it is rolled back had the bytes from before its git apply
\* written back at that step, in every affected path that git had written, also
\* if git had failed half way.  What git wrote beside them stays as it is.
OriginalsRestored ==
    [][\A r \in Run :
        (/\ ~overlapped
         /\ status'[r] # status[r]
         /\ status'[r] \in {"ROLLED_BACK", "APPLY_FAILED_ROLLED_BACK"})
            => \A f \in touched[r] : f \in Affected(origin[r][1]) =>
                   files'[f] = Edit[origin[r][1]][f].from]_vars
=============================================================================
