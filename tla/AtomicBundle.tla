---------------------------- MODULE AtomicBundle ----------------------------
(***************************************************************************)
(* One call of replace_text_bundle: stage every document, back up every    *)
(* existing destination, rename the stages over the destinations in input  *)
(* order, read back and validate; on any exception undo every attempted    *)
(* rename in reverse order; in both cases remove the temporary files.      *)
(*                                                                         *)
(* A file name is modelled by the inode behind it.  "orig" is the file     *)
(* that was at the destination when the call began, "copy" the complete    *)
(* byte copy of it, "new" the fully written stage; "empty" and "partial"   *)
(* are temporary files that do not hold a whole document.  A system call   *)
(* may fail without effect or raise after its effect (an asynchronous      *)
(* exception); MaxFaults bounds how many do.                               *)
(***************************************************************************)
EXTENDS Integers

CONSTANTS N,          \* number of writes in the bundle, in input order
          MaxFaults   \* bound on injected exceptions

ASSUME SizeAssumption  == N \in Nat \ {0}
ASSUME FaultAssumption == MaxFaults \in Nat

VARIABLES
    existed,    \* the destinations that hold a file when the call begins
    dest,       \* the inode behind each destination name
    stage,      \* the inode behind each stage name
    backup,     \* the inode behind each backup name
    stages,     \* the stage names in the registry (not None)
    backups,    \* the backup names in the registry (not None)
    attempted,  \* number of renames recorded as attempted
    pc,         \* the statement being executed
    k,          \* the loop index of that statement
    failed,     \* control is in, or came through, the exception handler
    unverified, \* destinations whose restoration could not be verified
    errors,     \* rollback_errors or committed_errors is not empty
    faults,     \* exceptions injected so far
    outcome     \* how the call ended

files  == <<dest, stage, backup>>
memory == <<stages, backups, attempted, failed, unverified, errors>>
vars   == <<existed, files, memory, pc, k, faults, outcome>>

Slots == 1 .. N

\* The destination the n-th replacement works on: replacements follow input order.
Slot(n) == n

\* The inodes that count as the original document being back in place.
Acceptable(i) == IF i \in existed THEN {"orig", "copy"} ELSE {"absent"}
Restored(i)   == dest[i] \in Acceptable(i)
NowRestored(i) == dest'[i] \in Acceptable(i)

BodySteps    == {"reserveStage", "writeStage", "reserveBackup", "unlinkReserved",
                 "link", "copy", "commit", "sync", "verify"}
HandlerSteps == {"rollback", "syncRollback"}
CleanSteps   == {"cleanStages", "cleanBackups", "syncCleanup"}
Steps        == BodySteps \cup HandlerSteps \cup CleanSteps \cup {"done"}
Outcomes     == {"none", "ok", "failed", "committed", "incomplete", "interrupted", "crashed"}

TypeOK ==
    /\ existed \subseteq Slots
    /\ dest \in [Slots -> {"absent", "orig", "copy", "new", "empty", "partial"}]
    /\ stage \in [Slots -> {"absent", "empty", "partial", "new"}]
    /\ backup \in [Slots -> {"absent", "empty", "orig", "partial", "copy"}]
    /\ stages \subseteq Slots
    /\ backups \subseteq Slots
    /\ attempted \in 0 .. N
    /\ pc \in Steps
    /\ k \in Slots
    /\ failed \in BOOLEAN
    /\ unverified \subseteq Slots
    /\ errors \in BOOLEAN
    /\ faults \in 0 .. MaxFaults
    /\ outcome \in Outcomes

Init ==
    /\ existed \in SUBSET Slots
    /\ dest = [i \in Slots |-> IF i \in existed THEN "orig" ELSE "absent"]
    /\ stage = [i \in Slots |-> "absent"]
    /\ backup = [i \in Slots |-> "absent"]
    /\ stages = {} /\ backups = {} /\ attempted = 0
    /\ pc = "reserveStage" /\ k = 1
    /\ failed = FALSE /\ unverified = {} /\ errors = FALSE
    /\ faults = 0 /\ outcome = "none"

-----------------------------------------------------------------------------
(* Control. *)

Fault(n) == faults + n <= MaxFaults /\ faults' = faults + n
NoFault  == UNCHANGED faults

Go(step) == pc' = step /\ UNCHANGED k

\* The loop over the destinations goes on, or the next statement starts.
Loop(body, next) ==
    IF k < N THEN pc' = body /\ k' = k + 1 ELSE pc' = next /\ k' = 1

\* An exception in the body of the try: the handler starts at the last attempt.
RaiseAfter(attempts) ==
    /\ Fault(1)
    /\ failed' = TRUE
    /\ IF attempts > 0
       THEN pc' = "rollback" /\ k' = attempts
       ELSE pc' = "syncRollback" /\ k' = 1

Raise == RaiseAfter(attempted)

-----------------------------------------------------------------------------
(* The body: stage, back up, replace, verify. *)

\* mkstemp may be interrupted after creating a file it never returned; any later
\* exception finds the path in the registry.
ReserveStage ==
    /\ pc = "reserveStage"
    /\ \/ /\ stage' = [stage EXCEPT ![k] = "empty"]
          /\ stages' = stages \cup {k}
          /\ \/ Go("writeStage") /\ NoFault /\ UNCHANGED failed
             \/ Raise
       \/ /\ stage' \in {stage, [stage EXCEPT ![k] = "empty"]}
          /\ UNCHANGED stages
          /\ Raise
    /\ UNCHANGED <<existed, dest, backup, backups, attempted, unverified, errors, outcome>>

\* Mutant of WriteStage: one write call, whatever number of bytes it returns.
WriteStageOnce ==
    /\ pc = "writeStage"
    /\ \E content \in {"partial", "new"} : stage' = [stage EXCEPT ![k] = content]
    /\ Loop("reserveStage", "reserveBackup") /\ NoFault /\ UNCHANGED failed
    /\ UNCHANGED <<existed, dest, backup, stages, backups, attempted, unverified, errors, outcome>>

\* Open, write all bytes, fsync, close.
WriteStage ==
    /\ pc = "writeStage"
    /\ \/ /\ stage' = [stage EXCEPT ![k] = "new"]
          /\ Loop("reserveStage", "reserveBackup") /\ NoFault /\ UNCHANGED failed
       \/ /\ \E content \in {"empty", "partial", "new"} : stage' = [stage EXCEPT ![k] = content]
          /\ Raise
    /\ UNCHANGED <<existed, dest, backup, stages, backups, attempted, unverified, errors, outcome>>

\* An absent destination has the backup None; for a file, a name is reserved.
ReserveBackup ==
    /\ pc = "reserveBackup"
    /\ \/ /\ k \notin existed
          /\ Loop("reserveBackup", "commit")
          /\ NoFault /\ UNCHANGED <<backup, backups, failed>>
       \/ /\ k \in existed
          /\ backup' = [backup EXCEPT ![k] = "empty"]
          /\ backups' = backups \cup {k}
          /\ \/ Go("unlinkReserved") /\ NoFault /\ UNCHANGED failed
             \/ Raise
       \/ /\ k \in existed
          /\ backup' = [backup EXCEPT ![k] = "empty"]
          /\ UNCHANGED backups
          /\ Raise
       \/ UNCHANGED <<backup, backups>> /\ Raise
    /\ UNCHANGED <<existed, dest, stage, stages, attempted, unverified, errors, outcome>>

UnlinkReserved ==
    /\ pc = "unlinkReserved"
    /\ \/ /\ backup' = [backup EXCEPT ![k] = "absent"]
          /\ Go("link") /\ NoFault /\ UNCHANGED failed
       \/ /\ backup' \in {backup, [backup EXCEPT ![k] = "absent"]}
          /\ Raise
    /\ UNCHANGED <<existed, dest, stage, stages, backups, attempted, unverified, errors, outcome>>

\* A hard link; a file system without them raises OSError and the code copies.
\* An exception that is not an OSError propagates.
LinkBackup ==
    /\ pc = "link"
    /\ \/ /\ backup' = [backup EXCEPT ![k] = dest[k]]
          /\ Loop("reserveBackup", "commit") /\ NoFault /\ UNCHANGED failed
       \/ UNCHANGED backup /\ Go("copy") /\ NoFault /\ UNCHANGED failed
       \/ /\ backup' \in {backup, [backup EXCEPT ![k] = dest[k]]}
          /\ Raise
    /\ UNCHANGED <<existed, dest, stage, stages, backups, attempted, unverified, errors, outcome>>

CopyBackup ==
    /\ pc = "copy"
    /\ \/ /\ backup' = [backup EXCEPT ![k] = "copy"]
          /\ Loop("reserveBackup", "commit") /\ NoFault /\ UNCHANGED failed
       \/ /\ \E content \in {"absent", "partial", "copy"} :
                backup' = [backup EXCEPT ![k] = content]
          /\ Raise
    /\ UNCHANGED <<existed, dest, stage, stages, backups, attempted, unverified, errors, outcome>>

RenameStage(i) ==
    /\ dest' = [dest EXCEPT ![i] = stage[i]]
    /\ stage' = [stage EXCEPT ![i] = "absent"]

\* Mutant of Commit: the attempt is recorded once os.replace has returned.
CommitRecordsLate ==
    /\ pc = "commit"
    /\ \/ /\ RenameStage(Slot(k))
          /\ attempted' = k /\ stages' = stages \ {Slot(k)}
          /\ Loop("commit", "sync") /\ NoFault /\ UNCHANGED failed
       \/ /\ RenameStage(Slot(k)) \/ UNCHANGED <<dest, stage>>
          /\ UNCHANGED <<stages, attempted>>
          /\ Raise
    /\ UNCHANGED <<existed, backup, backups, unverified, errors, outcome>>

\* The attempt is recorded before os.replace, so an exception that arrives after
\* the rename but before it returns finds the destination in the list to undo.
Commit ==
    /\ pc = "commit"
    /\ attempted' = k
    /\ \/ /\ RenameStage(Slot(k))
          /\ stages' = stages \ {Slot(k)}
          /\ Loop("commit", "sync") /\ NoFault /\ UNCHANGED failed
       \/ /\ RenameStage(Slot(k)) \/ UNCHANGED <<dest, stage>>
          /\ UNCHANGED stages
          /\ RaiseAfter(k)
    /\ UNCHANGED <<existed, backup, backups, unverified, errors, outcome>>

SyncReplaced ==
    /\ pc = "sync"
    /\ \/ Go("verify") /\ NoFault /\ UNCHANGED failed
       \/ Raise
    /\ UNCHANGED <<existed, files, stages, backups, attempted, unverified, errors, outcome>>

\* Read the destination back, compare the bytes and run its validator.  With one
\* writer the bytes match unless a fault says otherwise; a mismatch raises.
Verify ==
    /\ pc = "verify"
    /\ \/ /\ dest[k] = "new"
          /\ Loop("verify", "cleanStages") /\ NoFault /\ UNCHANGED failed
       \/ Raise
    /\ UNCHANGED <<existed, files, stages, backups, attempted, unverified, errors, outcome>>

-----------------------------------------------------------------------------
(* The handler: undo every attempted replacement, the last one first. *)

\* What one iteration does to the files when no call fails.
Restore(i) ==
    \/ /\ i \notin existed
       /\ dest' = [dest EXCEPT ![i] = "absent"]
       /\ UNCHANGED backup
    \/ /\ i \in existed /\ Restored(i)
       /\ UNCHANGED <<dest, backup>>
    \/ /\ i \in existed /\ ~Restored(i)
       /\ dest' = [dest EXCEPT ![i] = backup[i]]
       /\ backup' = [backup EXCEPT ![i] = "absent"]

\* Mutant of NextUndo: a failed iteration is tried for ever.
NextUndoStays == IF k > 1 THEN Go("rollback") ELSE Go("syncRollback")

NextUndo == IF k > 1 THEN pc' = "rollback" /\ k' = k - 1 ELSE Go("syncRollback")

Rollback ==
    /\ pc = "rollback"
    /\ NextUndo
    /\ Restore(Slot(k)) /\ NoFault /\ UNCHANGED <<unverified, errors>>
    /\ UNCHANGED <<existed, stage, stages, backups, attempted, failed, outcome>>

\* An exception in the iteration: the destination is inspected again, which may
\* fail too.  A restoration that is not confirmed keeps its backup.
RollbackFails ==
    /\ pc = "rollback"
    /\ NextUndo
    /\ Restore(Slot(k)) \/ UNCHANGED <<dest, backup>>
    /\ \/ /\ Fault(1)
          /\ NowRestored(Slot(k))
          /\ UNCHANGED <<unverified, errors>>
       \/ /\ \/ Fault(1) /\ ~NowRestored(Slot(k))
             \/ Fault(2)
          /\ unverified' = unverified \cup {Slot(k)}
          /\ errors' = TRUE
    /\ UNCHANGED <<existed, stage, stages, backups, attempted, failed, outcome>>

SyncRollback ==
    /\ pc = "syncRollback"
    /\ pc' = "cleanStages" /\ k' = 1
    /\ \/ NoFault /\ UNCHANGED errors
       \/ Fault(1) /\ errors' = TRUE
    /\ UNCHANGED <<existed, files, stages, backups, attempted, failed, unverified, outcome>>

-----------------------------------------------------------------------------
(* Removal of the temporary files, after success and after a rollback. *)

CleanStage ==
    /\ pc = "cleanStages"
    /\ Loop("cleanStages", "cleanBackups")
    /\ \/ k \notin stages /\ UNCHANGED <<stage, errors>> /\ NoFault
       \/ /\ k \in stages
          /\ stage' = [stage EXCEPT ![k] = "absent"]
          /\ NoFault /\ UNCHANGED errors
       \/ /\ k \in stages
          /\ stage' \in {stage, [stage EXCEPT ![k] = "absent"]}
          /\ Fault(1) /\ errors' = TRUE
    /\ UNCHANGED <<existed, dest, backup, stages, backups, attempted, failed, unverified, outcome>>

\* Mutant of Preserved: every backup is removed.
PreservedNone == {}

\* The backups an unverified restoration needs are preserved.
Preserved == unverified \cap backups

\* Mutant of CleanBackup: an unlink error is swallowed.
CleanBackupQuietly ==
    /\ pc = "cleanBackups"
    /\ Loop("cleanBackups", "syncCleanup")
    /\ \/ k \notin backups \ Preserved /\ UNCHANGED backup /\ NoFault
       \/ /\ k \in backups \ Preserved
          /\ \/ backup' = [backup EXCEPT ![k] = "absent"] /\ NoFault
             \/ UNCHANGED backup /\ Fault(1)
    /\ UNCHANGED <<existed, dest, stage, stages, backups, attempted, failed, unverified, errors, outcome>>

CleanBackup ==
    /\ pc = "cleanBackups"
    /\ Loop("cleanBackups", "syncCleanup")
    /\ \/ k \notin backups \ Preserved /\ UNCHANGED <<backup, errors>> /\ NoFault
       \/ /\ k \in backups \ Preserved
          /\ backup' = [backup EXCEPT ![k] = "absent"]
          /\ NoFault /\ UNCHANGED errors
       \/ /\ k \in backups \ Preserved
          /\ backup' \in {backup, [backup EXCEPT ![k] = "absent"]}
          /\ Fault(1) /\ errors' = TRUE
    /\ UNCHANGED <<existed, dest, stage, stages, backups, attempted, failed, unverified, outcome>>

\* Mutant of Verdict: errors of the rollback are not reported.
VerdictHidesErrors(broken, bad) ==
    IF broken THEN "failed" ELSE IF bad THEN "committed" ELSE "ok"

\* What the call reports once the last directory sync is done.
Verdict(broken, bad) ==
    CASE ~broken /\ ~bad -> "ok"
      [] ~broken /\ bad  -> "committed"
      [] broken /\ ~bad  -> "failed"
      [] broken /\ bad   -> "incomplete"

Finish ==
    /\ pc = "syncCleanup"
    /\ Go("done")
    /\ \/ NoFault /\ UNCHANGED errors
       \/ Fault(1) /\ errors' = TRUE
    /\ outcome' = Verdict(failed, errors')
    /\ UNCHANGED <<existed, files, stages, backups, attempted, failed, unverified>>

-----------------------------------------------------------------------------
(* Exceptions no statement catches, and the end of the process. *)

\* Between the guarded statements of the handler and of the final cleanup an
\* asynchronous exception leaves the function.
Interrupt ==
    /\ pc \in HandlerSteps \cup CleanSteps
    /\ Fault(1)
    /\ Go("done") /\ outcome' = "interrupted"
    /\ UNCHANGED <<existed, files, memory>>

Crash ==
    /\ pc # "done"
    /\ Fault(1)
    /\ Go("done") /\ outcome' = "crashed"
    /\ UNCHANGED <<existed, files, memory>>

Stage  == ReserveStage \/ WriteStage
Backup == ReserveBackup \/ UnlinkReserved \/ LinkBackup \/ CopyBackup
Undo   == Rollback \/ RollbackFails \/ SyncRollback
Clean  == CleanStage \/ CleanBackup \/ Finish

Call == Stage \/ Backup \/ Commit \/ SyncReplaced \/ Verify \/ Undo \/ Clean

Terminated == pc = "done" /\ UNCHANGED vars

Next == Call \/ Interrupt \/ Crash \/ Terminated

Spec     == Init /\ [][Next]_vars
FairSpec == Spec /\ WF_vars(Call)

-----------------------------------------------------------------------------
(* Properties. *)

\* Every step of the body and the handler sees a destination as a whole file:
\* the original, its complete copy or the complete new document, never a
\* reserved or half-written temporary, whatever fails.
NeverTorn == \A i \in Slots :
    dest[i] \in {"new"} \cup Acceptable(i)

\* As long as the whole new bundle is not in place, and as soon as the handler
\* runs, the original of every existing destination is at its name or complete at
\* a backup name the call still knows: faults in the rollback, an interrupt or a
\* crash lose nothing a user had.
HasBackup(i) == i \in backups /\ backup[i] \in {"orig", "copy"}
OldContentNeverLost == \A i \in existed :
    \/ ~failed /\ \A j \in Slots : dest[j] = "new"
    \/ Restored(i)
    \/ HasBackup(i)

\* A clean outcome is all or nothing: "ok" and "committed" mean every document
\* is in place, a plain re-raise means every destination is as it was, and an
\* "incomplete" report leaves new content only at the destinations it names.
OutcomeIsExact ==
    /\ outcome \in {"ok", "committed"} => \A i \in Slots : dest[i] = "new"
    /\ outcome = "failed" => \A i \in Slots : Restored(i)
    /\ outcome = "incomplete" => \A i \in Slots : Restored(i) \/ i \in unverified

\* Policy-last: while no restoration has been given up, a later document of the
\* bundle is visible only together with all earlier ones, in the commit, in the
\* reversed rollback and in what a crash leaves behind.
LaterImpliesEarlier ==
    unverified = {} => \A i, j \in Slots :
        i < j /\ dest[j] = "new" => dest[i] = "new"

\* A report with no error leaves no temporary file the registries know of.
CleanOutcomeNoDebris ==
    outcome \in {"ok", "failed"} =>
        /\ \A i \in stages : stage[i] = "absent"
        /\ \A i \in backups : backup[i] = "absent"

\* Every exception, an asynchronous one included, undoes every attempted
\* replacement: what the docstring of replace_text_bundle says.
AsyncExceptionRollsBack ==
    outcome = "interrupted" => \A i \in Slots : Restored(i)

\* The call always ends, whatever is injected into the rollback and cleanup.
EventuallyAnswered == <>(pc = "done")
=============================================================================
