------------------------- MODULE AtomicBundleProofs -------------------------
(***************************************************************************)
(* The safety of one bundle replacement, for every number of documents and *)
(* every number of injected faults.                                        *)
(***************************************************************************)
EXTENDS BundleReader, TLAPS

Original(i) == IF i \in existed THEN "orig" ELSE "absent"

BackupSteps == {"reserveBackup", "unlinkReserved", "link", "copy"}

\* Which phase the flags belong to.
Control ==
    /\ pc \in BodySteps => ~failed
    /\ pc \in HandlerSteps => failed
    /\ pc = "done" <=> outcome # "none"
    /\ ~failed => unverified = {}
    /\ ~errors => unverified = {}

\* Which stages hold their whole document.
Staged ==
    /\ pc \in {"reserveStage", "writeStage"} => \A i \in Slots : i < k => stage[i] = "new"
    /\ pc \in BackupSteps => \A i \in Slots : stage[i] = "new"
    /\ pc = "commit" => \A i \in Slots : i >= k => stage[i] = "new"

\* Which originals are held by a backup.
Kept ==
    /\ pc \in BackupSteps => \A i \in existed : i < k => HasBackup(i)
    /\ pc \in BackupSteps \ {"reserveBackup"} => k \in existed /\ k \in backups
    /\ pc \in {"commit", "sync", "verify"} => \A i \in existed : HasBackup(i)
    /\ pc = "rollback" => \A i \in existed : i <= k => HasBackup(i)

\* What every destination shows at each step.
Progress ==
    /\ pc \in {"reserveStage", "writeStage"} \cup BackupSteps =>
          attempted = 0 /\ \A i \in Slots : dest[i] = Original(i)
    /\ pc = "commit" =>
          /\ attempted = k - 1
          /\ \A i \in Slots : dest[i] = IF i < k THEN "new" ELSE Original(i)
    /\ pc \in {"sync", "verify"} => attempted = N
    /\ ~failed /\ pc \in {"sync", "verify"} \cup CleanSteps =>
          \A i \in Slots : dest[i] = "new"
    /\ pc = "rollback" =>
          /\ \A i \in Slots : i < k => dest[i] = "new"
          /\ dest[k] \in {"new", Original(k)}
          /\ \A i \in Slots : i > k => Restored(i) \/ i \in unverified
    /\ failed /\ pc \in {"syncRollback"} \cup CleanSteps =>
          \A i \in Slots : Restored(i) \/ i \in unverified

\* Which registered temporary files an error-free cleanup has removed.
Cleaned ==
    ~errors =>
        /\ pc = "cleanStages" => \A i \in stages : i < k => stage[i] = "absent"
        /\ pc \in {"cleanBackups", "syncCleanup"} => \A i \in stages : stage[i] = "absent"
        /\ pc = "cleanBackups" => \A i \in backups : i < k => backup[i] = "absent"
        /\ pc = "syncCleanup" => \A i \in backups : backup[i] = "absent"

Safety ==
    /\ NeverTorn
    /\ OldContentNeverLost
    /\ OutcomeIsExact
    /\ LaterImpliesEarlier
    /\ CleanOutcomeNoDebris

IInv == TypeOK /\ Control /\ Staged /\ Kept /\ Progress /\ Cleaned /\ Safety

LEMMA ReserveStageStep == IInv /\ ReserveStage => IInv'
<1> SUFFICES ASSUME IInv, ReserveStage PROVE IInv'
  OBVIOUS
<1> USE SizeAssumption, FaultAssumption DEF IInv, TypeOK, Slots, Steps, BodySteps, HandlerSteps, CleanSteps, Outcomes, BackupSteps,
             ReserveStage, Fault, NoFault, Go, Raise, RaiseAfter
<1>1. TypeOK'
  <2>1. /\ dest' \in [Slots -> {"absent", "orig", "copy", "new", "empty", "partial"}]
       /\ stage' \in [Slots -> {"absent", "empty", "partial", "new"}]
       /\ backup' \in [Slots -> {"absent", "empty", "orig", "partial", "copy"}]
    BY DEF Progress, Original
  <2>2. existed' \subseteq Slots /\ stages' \subseteq Slots /\ backups' \subseteq Slots
       /\ unverified' \subseteq Slots
    OBVIOUS
  <2>3. pc' \in Steps /\ k' \in Slots /\ attempted' \in 0 .. N
       /\ faults' \in 0 .. MaxFaults /\ outcome' \in Outcomes
    OBVIOUS
  <2>4. failed' \in BOOLEAN /\ errors' \in BOOLEAN
    OBVIOUS
  <2> QED
    BY <2>1, <2>2, <2>3, <2>4
<1>2. Control'
  BY DEF Control
<1>3. Staged'
  BY DEF Control, Staged
<1>4. Kept'
  BY DEF Control, Staged, Kept, Progress, HasBackup, Original
<1>5. Progress'
  BY DEF Control, Staged, Kept, Progress, Original, Restored, Acceptable, HasBackup
<1>6. Cleaned'
  BY DEF Control, Cleaned
<1>7. Safety'
  BY DEF Control, Staged, Kept, Progress, Cleaned, Safety, NeverTorn, OldContentNeverLost, OutcomeIsExact,
         LaterImpliesEarlier, CleanOutcomeNoDebris, HasBackup, Original, Restored, Acceptable
<1> QED
  BY <1>1, <1>2, <1>3, <1>4, <1>5, <1>6, <1>7

LEMMA WriteStageStep == IInv /\ WriteStage => IInv'
<1> SUFFICES ASSUME IInv, WriteStage PROVE IInv'
  OBVIOUS
<1> USE SizeAssumption, FaultAssumption DEF IInv, TypeOK, Slots, Steps, BodySteps, HandlerSteps, CleanSteps, Outcomes, BackupSteps,
             WriteStage, Fault, NoFault, Loop, Raise, RaiseAfter
<1>1. TypeOK'
  <2>1. /\ dest' \in [Slots -> {"absent", "orig", "copy", "new", "empty", "partial"}]
       /\ stage' \in [Slots -> {"absent", "empty", "partial", "new"}]
       /\ backup' \in [Slots -> {"absent", "empty", "orig", "partial", "copy"}]
    BY DEF Progress, Original
  <2>2. existed' \subseteq Slots /\ stages' \subseteq Slots /\ backups' \subseteq Slots
       /\ unverified' \subseteq Slots
    OBVIOUS
  <2>3. pc' \in Steps /\ k' \in Slots /\ attempted' \in 0 .. N
       /\ faults' \in 0 .. MaxFaults /\ outcome' \in Outcomes
    OBVIOUS
  <2>4. failed' \in BOOLEAN /\ errors' \in BOOLEAN
    OBVIOUS
  <2> QED
    BY <2>1, <2>2, <2>3, <2>4
<1>2. Control'
  BY DEF Control
<1>3. Staged'
  BY DEF Control, Staged
<1>4. Kept'
  BY DEF Control, Staged, Kept, Progress, HasBackup, Original
<1>5. Progress'
  BY DEF Control, Staged, Kept, Progress, Original, Restored, Acceptable, HasBackup
<1>6. Cleaned'
  BY DEF Control, Cleaned
<1>7. Safety'
  BY DEF Control, Staged, Kept, Progress, Cleaned, Safety, NeverTorn, OldContentNeverLost, OutcomeIsExact,
         LaterImpliesEarlier, CleanOutcomeNoDebris, HasBackup, Original, Restored, Acceptable
<1> QED
  BY <1>1, <1>2, <1>3, <1>4, <1>5, <1>6, <1>7

LEMMA ReserveBackupStep == IInv /\ ReserveBackup => IInv'
<1> SUFFICES ASSUME IInv, ReserveBackup PROVE IInv'
  OBVIOUS
<1> USE SizeAssumption, FaultAssumption DEF IInv, TypeOK, Slots, Steps, BodySteps, HandlerSteps, CleanSteps, Outcomes, BackupSteps,
             ReserveBackup, Fault, NoFault, Go, Loop, Raise, RaiseAfter
<1>1. TypeOK'
  <2>1. /\ dest' \in [Slots -> {"absent", "orig", "copy", "new", "empty", "partial"}]
       /\ stage' \in [Slots -> {"absent", "empty", "partial", "new"}]
       /\ backup' \in [Slots -> {"absent", "empty", "orig", "partial", "copy"}]
    BY DEF Progress, Original
  <2>2. existed' \subseteq Slots /\ stages' \subseteq Slots /\ backups' \subseteq Slots
       /\ unverified' \subseteq Slots
    OBVIOUS
  <2>3. pc' \in Steps /\ k' \in Slots /\ attempted' \in 0 .. N
       /\ faults' \in 0 .. MaxFaults /\ outcome' \in Outcomes
    OBVIOUS
  <2>4. failed' \in BOOLEAN /\ errors' \in BOOLEAN
    OBVIOUS
  <2> QED
    BY <2>1, <2>2, <2>3, <2>4
<1>2. Control'
  BY DEF Control
<1>3. Staged'
  BY DEF Control, Staged
<1>4. Kept'
  BY DEF Control, Staged, Kept, Progress, HasBackup, Original
<1>5. Progress'
  BY DEF Control, Staged, Kept, Progress, Original, Restored, Acceptable, HasBackup
<1>6. Cleaned'
  BY DEF Control, Cleaned
<1>7. Safety'
  BY DEF Control, Staged, Kept, Progress, Cleaned, Safety, NeverTorn, OldContentNeverLost, OutcomeIsExact,
         LaterImpliesEarlier, CleanOutcomeNoDebris, HasBackup, Original, Restored, Acceptable
<1> QED
  BY <1>1, <1>2, <1>3, <1>4, <1>5, <1>6, <1>7

LEMMA UnlinkReservedStep == IInv /\ UnlinkReserved => IInv'
<1> SUFFICES ASSUME IInv, UnlinkReserved PROVE IInv'
  OBVIOUS
<1> USE SizeAssumption, FaultAssumption DEF IInv, TypeOK, Slots, Steps, BodySteps, HandlerSteps, CleanSteps, Outcomes, BackupSteps,
             UnlinkReserved, Fault, NoFault, Go, Raise, RaiseAfter
<1>1. TypeOK'
  <2>1. /\ dest' \in [Slots -> {"absent", "orig", "copy", "new", "empty", "partial"}]
       /\ stage' \in [Slots -> {"absent", "empty", "partial", "new"}]
       /\ backup' \in [Slots -> {"absent", "empty", "orig", "partial", "copy"}]
    BY DEF Progress, Original
  <2>2. existed' \subseteq Slots /\ stages' \subseteq Slots /\ backups' \subseteq Slots
       /\ unverified' \subseteq Slots
    OBVIOUS
  <2>3. pc' \in Steps /\ k' \in Slots /\ attempted' \in 0 .. N
       /\ faults' \in 0 .. MaxFaults /\ outcome' \in Outcomes
    OBVIOUS
  <2>4. failed' \in BOOLEAN /\ errors' \in BOOLEAN
    OBVIOUS
  <2> QED
    BY <2>1, <2>2, <2>3, <2>4
<1>2. Control'
  BY DEF Control
<1>3. Staged'
  BY DEF Control, Staged
<1>4. Kept'
  BY DEF Control, Staged, Kept, Progress, HasBackup, Original
<1>5. Progress'
  BY DEF Control, Staged, Kept, Progress, Original, Restored, Acceptable, HasBackup
<1>6. Cleaned'
  BY DEF Control, Cleaned
<1>7. Safety'
  BY DEF Control, Staged, Kept, Progress, Cleaned, Safety, NeverTorn, OldContentNeverLost, OutcomeIsExact,
         LaterImpliesEarlier, CleanOutcomeNoDebris, HasBackup, Original, Restored, Acceptable
<1> QED
  BY <1>1, <1>2, <1>3, <1>4, <1>5, <1>6, <1>7

LEMMA LinkBackupStep == IInv /\ LinkBackup => IInv'
<1> SUFFICES ASSUME IInv, LinkBackup PROVE IInv'
  OBVIOUS
<1> USE SizeAssumption, FaultAssumption DEF IInv, TypeOK, Slots, Steps, BodySteps, HandlerSteps, CleanSteps, Outcomes, BackupSteps,
             LinkBackup, Fault, NoFault, Go, Loop, Raise, RaiseAfter
<1>1. TypeOK'
  <2>1. /\ dest' \in [Slots -> {"absent", "orig", "copy", "new", "empty", "partial"}]
       /\ stage' \in [Slots -> {"absent", "empty", "partial", "new"}]
       /\ backup' \in [Slots -> {"absent", "empty", "orig", "partial", "copy"}]
    BY DEF Progress, Original
  <2>2. existed' \subseteq Slots /\ stages' \subseteq Slots /\ backups' \subseteq Slots
       /\ unverified' \subseteq Slots
    OBVIOUS
  <2>3. pc' \in Steps /\ k' \in Slots /\ attempted' \in 0 .. N
       /\ faults' \in 0 .. MaxFaults /\ outcome' \in Outcomes
    OBVIOUS
  <2>4. failed' \in BOOLEAN /\ errors' \in BOOLEAN
    OBVIOUS
  <2> QED
    BY <2>1, <2>2, <2>3, <2>4
<1>2. Control'
  BY DEF Control
<1>3. Staged'
  BY DEF Control, Staged
<1>4. Kept'
  BY DEF Control, Staged, Kept, Progress, HasBackup, Original
<1>5. Progress'
  BY DEF Control, Staged, Kept, Progress, Original, Restored, Acceptable, HasBackup
<1>6. Cleaned'
  BY DEF Control, Cleaned
<1>7. Safety'
  BY DEF Control, Staged, Kept, Progress, Cleaned, Safety, NeverTorn, OldContentNeverLost, OutcomeIsExact,
         LaterImpliesEarlier, CleanOutcomeNoDebris, HasBackup, Original, Restored, Acceptable
<1> QED
  BY <1>1, <1>2, <1>3, <1>4, <1>5, <1>6, <1>7

LEMMA CopyBackupStep == IInv /\ CopyBackup => IInv'
<1> SUFFICES ASSUME IInv, CopyBackup PROVE IInv'
  OBVIOUS
<1> USE SizeAssumption, FaultAssumption DEF IInv, TypeOK, Slots, Steps, BodySteps, HandlerSteps, CleanSteps, Outcomes, BackupSteps,
             CopyBackup, Fault, NoFault, Loop, Raise, RaiseAfter
<1>1. TypeOK'
  <2>1. /\ dest' \in [Slots -> {"absent", "orig", "copy", "new", "empty", "partial"}]
       /\ stage' \in [Slots -> {"absent", "empty", "partial", "new"}]
       /\ backup' \in [Slots -> {"absent", "empty", "orig", "partial", "copy"}]
    BY DEF Progress, Original
  <2>2. existed' \subseteq Slots /\ stages' \subseteq Slots /\ backups' \subseteq Slots
       /\ unverified' \subseteq Slots
    OBVIOUS
  <2>3. pc' \in Steps /\ k' \in Slots /\ attempted' \in 0 .. N
       /\ faults' \in 0 .. MaxFaults /\ outcome' \in Outcomes
    OBVIOUS
  <2>4. failed' \in BOOLEAN /\ errors' \in BOOLEAN
    OBVIOUS
  <2> QED
    BY <2>1, <2>2, <2>3, <2>4
<1>2. Control'
  BY DEF Control
<1>3. Staged'
  BY DEF Control, Staged
<1>4. Kept'
  BY DEF Control, Staged, Kept, Progress, HasBackup, Original
<1>5. Progress'
  BY DEF Control, Staged, Kept, Progress, Original, Restored, Acceptable, HasBackup
<1>6. Cleaned'
  BY DEF Control, Cleaned
<1>7. Safety'
  BY DEF Control, Staged, Kept, Progress, Cleaned, Safety, NeverTorn, OldContentNeverLost, OutcomeIsExact,
         LaterImpliesEarlier, CleanOutcomeNoDebris, HasBackup, Original, Restored, Acceptable
<1> QED
  BY <1>1, <1>2, <1>3, <1>4, <1>5, <1>6, <1>7

LEMMA CommitStep == IInv /\ Commit => IInv'
<1> SUFFICES ASSUME IInv, Commit PROVE IInv'
  OBVIOUS
<1> USE SizeAssumption, FaultAssumption DEF IInv, TypeOK, Slots, Steps, BodySteps, HandlerSteps, CleanSteps, Outcomes, BackupSteps,
             Commit, RenameStage, Slot, Fault, NoFault, Loop, RaiseAfter
<1>1. TypeOK'
  <2>1. /\ dest' \in [Slots -> {"absent", "orig", "copy", "new", "empty", "partial"}]
       /\ stage' \in [Slots -> {"absent", "empty", "partial", "new"}]
       /\ backup' \in [Slots -> {"absent", "empty", "orig", "partial", "copy"}]
    BY DEF Progress, Original
  <2>2. existed' \subseteq Slots /\ stages' \subseteq Slots /\ backups' \subseteq Slots
       /\ unverified' \subseteq Slots
    OBVIOUS
  <2>3. pc' \in Steps /\ k' \in Slots /\ attempted' \in 0 .. N
       /\ faults' \in 0 .. MaxFaults /\ outcome' \in Outcomes
    OBVIOUS
  <2>4. failed' \in BOOLEAN /\ errors' \in BOOLEAN
    OBVIOUS
  <2> QED
    BY <2>1, <2>2, <2>3, <2>4
<1>2. Control'
  BY DEF Control
<1>3. Staged'
  BY DEF Control, Staged
<1>4. Kept'
  BY DEF Control, Staged, Kept, Progress, HasBackup, Original
<1>5. Progress'
  BY DEF Control, Staged, Kept, Progress, Original, Restored, Acceptable, HasBackup
<1>6. Cleaned'
  BY DEF Control, Cleaned
<1>7. Safety'
  BY DEF Control, Staged, Kept, Progress, Cleaned, Safety, NeverTorn, OldContentNeverLost, OutcomeIsExact,
         LaterImpliesEarlier, CleanOutcomeNoDebris, HasBackup, Original, Restored, Acceptable
<1> QED
  BY <1>1, <1>2, <1>3, <1>4, <1>5, <1>6, <1>7

LEMMA SyncReplacedStep == IInv /\ SyncReplaced => IInv'
<1> SUFFICES ASSUME IInv, SyncReplaced PROVE IInv'
  OBVIOUS
<1> USE SizeAssumption, FaultAssumption DEF IInv, TypeOK, Slots, Steps, BodySteps, HandlerSteps, CleanSteps, Outcomes, BackupSteps,
             SyncReplaced, files, Fault, NoFault, Go, Raise, RaiseAfter
<1>1. TypeOK'
  <2>1. /\ dest' \in [Slots -> {"absent", "orig", "copy", "new", "empty", "partial"}]
       /\ stage' \in [Slots -> {"absent", "empty", "partial", "new"}]
       /\ backup' \in [Slots -> {"absent", "empty", "orig", "partial", "copy"}]
    BY DEF Progress, Original
  <2>2. existed' \subseteq Slots /\ stages' \subseteq Slots /\ backups' \subseteq Slots
       /\ unverified' \subseteq Slots
    OBVIOUS
  <2>3. pc' \in Steps /\ k' \in Slots /\ attempted' \in 0 .. N
       /\ faults' \in 0 .. MaxFaults /\ outcome' \in Outcomes
    OBVIOUS
  <2>4. failed' \in BOOLEAN /\ errors' \in BOOLEAN
    OBVIOUS
  <2> QED
    BY <2>1, <2>2, <2>3, <2>4
<1>2. Control'
  BY DEF Control
<1>3. Staged'
  BY DEF Control, Staged
<1>4. Kept'
  BY DEF Control, Staged, Kept, Progress, HasBackup, Original
<1>5. Progress'
  BY DEF Control, Staged, Kept, Progress, Original, Restored, Acceptable, HasBackup
<1>6. Cleaned'
  BY DEF Control, Cleaned
<1>7. Safety'
  BY DEF Control, Staged, Kept, Progress, Cleaned, Safety, NeverTorn, OldContentNeverLost, OutcomeIsExact,
         LaterImpliesEarlier, CleanOutcomeNoDebris, HasBackup, Original, Restored, Acceptable
<1> QED
  BY <1>1, <1>2, <1>3, <1>4, <1>5, <1>6, <1>7

LEMMA VerifyStep == IInv /\ Verify => IInv'
<1> SUFFICES ASSUME IInv, Verify PROVE IInv'
  OBVIOUS
<1> USE SizeAssumption, FaultAssumption DEF IInv, TypeOK, Slots, Steps, BodySteps, HandlerSteps, CleanSteps, Outcomes, BackupSteps,
             Verify, files, Fault, NoFault, Loop, Raise, RaiseAfter
<1>1. TypeOK'
  <2>1. /\ dest' \in [Slots -> {"absent", "orig", "copy", "new", "empty", "partial"}]
       /\ stage' \in [Slots -> {"absent", "empty", "partial", "new"}]
       /\ backup' \in [Slots -> {"absent", "empty", "orig", "partial", "copy"}]
    BY DEF Progress, Original
  <2>2. existed' \subseteq Slots /\ stages' \subseteq Slots /\ backups' \subseteq Slots
       /\ unverified' \subseteq Slots
    OBVIOUS
  <2>3. pc' \in Steps /\ k' \in Slots /\ attempted' \in 0 .. N
       /\ faults' \in 0 .. MaxFaults /\ outcome' \in Outcomes
    OBVIOUS
  <2>4. failed' \in BOOLEAN /\ errors' \in BOOLEAN
    OBVIOUS
  <2> QED
    BY <2>1, <2>2, <2>3, <2>4
<1>2. Control'
  BY DEF Control
<1>3. Staged'
  BY DEF Control, Staged
<1>4. Kept'
  BY DEF Control, Staged, Kept, Progress, HasBackup, Original
<1>5. Progress'
  BY DEF Control, Staged, Kept, Progress, Original, Restored, Acceptable, HasBackup
<1>6. Cleaned'
  BY DEF Control, Cleaned
<1>7. Safety'
  BY DEF Control, Staged, Kept, Progress, Cleaned, Safety, NeverTorn, OldContentNeverLost, OutcomeIsExact,
         LaterImpliesEarlier, CleanOutcomeNoDebris, HasBackup, Original, Restored, Acceptable
<1> QED
  BY <1>1, <1>2, <1>3, <1>4, <1>5, <1>6, <1>7

LEMMA RollbackStep == IInv /\ Rollback => IInv'
<1> SUFFICES ASSUME IInv, Rollback PROVE IInv'
  OBVIOUS
<1> USE SizeAssumption, FaultAssumption DEF IInv, TypeOK, Slots, Steps, BodySteps, HandlerSteps, CleanSteps, Outcomes, BackupSteps,
             Rollback, Restore, NextUndo, Slot, Fault, NoFault, Go
\* What the iteration does: slot k is put back, nothing else moves.
<1>a. /\ \A i \in Slots : i # k => dest'[i] = dest[i] /\ backup'[i] = backup[i]
      /\ dest'[k] \in Acceptable(k)
      /\ failed /\ pc' \in {"rollback", "syncRollback"}
      /\ UNCHANGED <<existed, stages, backups, unverified, failed, errors, outcome, attempted>>
  BY DEF Control, Kept, Restored, Acceptable, HasBackup
<1>b. \A i \in Slots : i > k => Restored(i)' \/ i \in unverified'
  BY <1>a DEF Progress, Restored, Acceptable
<1>1. TypeOK'
  <2>1. /\ dest' \in [Slots -> {"absent", "orig", "copy", "new", "empty", "partial"}]
       /\ stage' \in [Slots -> {"absent", "empty", "partial", "new"}]
       /\ backup' \in [Slots -> {"absent", "empty", "orig", "partial", "copy"}]
    BY DEF Progress, Original
  <2>2. existed' \subseteq Slots /\ stages' \subseteq Slots /\ backups' \subseteq Slots
       /\ unverified' \subseteq Slots
    OBVIOUS
  <2>3. pc' \in Steps /\ k' \in Slots /\ attempted' \in 0 .. N
       /\ faults' \in 0 .. MaxFaults /\ outcome' \in Outcomes
    OBVIOUS
  <2>4. failed' \in BOOLEAN /\ errors' \in BOOLEAN
    OBVIOUS
  <2> QED
    BY <2>1, <2>2, <2>3, <2>4
<1>2. Control'
  BY DEF Control
<1>3. Staged'
  BY DEF Control, Staged
<1>4. Kept'
  BY DEF Control, Staged, Kept, Progress, HasBackup, Original
<1>5. Progress'
  <2>1. CASE k > 1
    BY <1>a, <1>b, <2>1 DEF Control, Progress, Restored, Original, Acceptable
  <2>2. CASE k = 1
    BY <1>a, <1>b, <2>2 DEF Control, Progress, Restored, Acceptable
  <2> QED
    BY <2>1, <2>2
<1>6. Cleaned'
  BY DEF Control, Cleaned
<1>7. Safety'
  <2>1. NeverTorn'
    BY <1>a DEF Safety, NeverTorn, Acceptable
  <2>2. OldContentNeverLost'
    BY <1>a DEF Kept, Safety, OldContentNeverLost, Restored, Acceptable, HasBackup
  <2>3. LaterImpliesEarlier'
    BY <1>a, <1>b DEF Progress, LaterImpliesEarlier, Restored, Acceptable
  <2>4. OutcomeIsExact' /\ CleanOutcomeNoDebris'
    BY <1>a DEF Control, OutcomeIsExact, CleanOutcomeNoDebris
  <2> QED
    BY <2>1, <2>2, <2>3, <2>4 DEF Safety
<1> QED
  BY <1>1, <1>2, <1>3, <1>4, <1>5, <1>6, <1>7

LEMMA RollbackFailsStep == IInv /\ RollbackFails => IInv'
<1> SUFFICES ASSUME IInv, RollbackFails PROVE IInv'
  OBVIOUS
<1> USE SizeAssumption, FaultAssumption DEF IInv, TypeOK, Slots, Steps, BodySteps, HandlerSteps, CleanSteps, Outcomes, BackupSteps,
             RollbackFails, Restore, NextUndo, Slot, NowRestored, Fault, Go
<1>1. TypeOK'
  <2>1. /\ dest' \in [Slots -> {"absent", "orig", "copy", "new", "empty", "partial"}]
       /\ stage' \in [Slots -> {"absent", "empty", "partial", "new"}]
       /\ backup' \in [Slots -> {"absent", "empty", "orig", "partial", "copy"}]
    BY DEF Progress, Original
  <2>2. existed' \subseteq Slots /\ stages' \subseteq Slots /\ backups' \subseteq Slots
       /\ unverified' \subseteq Slots
    OBVIOUS
  <2>3. pc' \in Steps /\ k' \in Slots /\ attempted' \in 0 .. N
       /\ faults' \in 0 .. MaxFaults /\ outcome' \in Outcomes
    OBVIOUS
  <2>4. failed' \in BOOLEAN /\ errors' \in BOOLEAN
    OBVIOUS
  <2> QED
    BY <2>1, <2>2, <2>3, <2>4
<1>2. Control'
  <2>1. failed' /\ pc' \in HandlerSteps /\ outcome' = "none"
    BY DEF Control
  <2>2. ~errors' => unverified' = {}
    <3>1. CASE UNCHANGED <<unverified, errors>>
      BY <3>1 DEF Control
    <3>2. CASE errors' = TRUE
      BY <3>2
    <3> QED
      BY <3>1, <3>2
  <2>3. /\ pc' \in BodySteps => ~failed'
        /\ pc' = "done" <=> outcome' # "none"
    BY <2>1
  <2> QED
    BY <2>1, <2>2, <2>3 DEF Control
<1>3. Staged'
  BY DEF Control, Staged
<1>4. Kept'
  BY DEF Control, Staged, Kept, Progress, HasBackup, Original
<1>5. Progress'
  BY DEF Control, Staged, Kept, Progress, Original, Restored, Acceptable, HasBackup
<1>6. Cleaned'
  BY DEF Control, Cleaned
<1>7. Safety'
  <2>1. NeverTorn'
    BY DEF Kept, Safety, NeverTorn, HasBackup, Restored, Acceptable
  <2>2. OldContentNeverLost'
    BY DEF Control, Kept, Safety, OldContentNeverLost, Restored, Acceptable, HasBackup
  <2>3. LaterImpliesEarlier'
    <3>1. CASE unverified' = unverified /\ NowRestored(k)
      BY <3>1 DEF Progress, LaterImpliesEarlier, Restored, Acceptable
    <3>2. CASE unverified' = unverified \cup {k}
      BY <3>2 DEF LaterImpliesEarlier
    <3> QED
      BY <3>1, <3>2
  <2>4. OutcomeIsExact' /\ CleanOutcomeNoDebris'
    BY DEF Control, OutcomeIsExact, CleanOutcomeNoDebris
  <2> QED
    BY <2>1, <2>2, <2>3, <2>4 DEF Safety
<1> QED
  BY <1>1, <1>2, <1>3, <1>4, <1>5, <1>6, <1>7

LEMMA SyncRollbackStep == IInv /\ SyncRollback => IInv'
<1> SUFFICES ASSUME IInv, SyncRollback PROVE IInv'
  OBVIOUS
<1> USE SizeAssumption, FaultAssumption DEF IInv, TypeOK, Slots, Steps, BodySteps, HandlerSteps, CleanSteps, Outcomes, BackupSteps,
             SyncRollback, files, Fault, NoFault
<1>1. TypeOK'
  <2>1. /\ dest' \in [Slots -> {"absent", "orig", "copy", "new", "empty", "partial"}]
       /\ stage' \in [Slots -> {"absent", "empty", "partial", "new"}]
       /\ backup' \in [Slots -> {"absent", "empty", "orig", "partial", "copy"}]
    BY DEF Progress, Original
  <2>2. existed' \subseteq Slots /\ stages' \subseteq Slots /\ backups' \subseteq Slots
       /\ unverified' \subseteq Slots
    OBVIOUS
  <2>3. pc' \in Steps /\ k' \in Slots /\ attempted' \in 0 .. N
       /\ faults' \in 0 .. MaxFaults /\ outcome' \in Outcomes
    OBVIOUS
  <2>4. failed' \in BOOLEAN /\ errors' \in BOOLEAN
    OBVIOUS
  <2> QED
    BY <2>1, <2>2, <2>3, <2>4
<1>2. Control'
  BY DEF Control
<1>3. Staged'
  BY DEF Control, Staged
<1>4. Kept'
  BY DEF Control, Staged, Kept, Progress, HasBackup, Original
<1>5. Progress'
  BY DEF Control, Staged, Kept, Progress, Original, Restored, Acceptable, HasBackup
<1>6. Cleaned'
  BY DEF Control, Cleaned
<1>7. Safety'
  BY DEF Control, Staged, Kept, Progress, Cleaned, Safety, NeverTorn, OldContentNeverLost, OutcomeIsExact,
         LaterImpliesEarlier, CleanOutcomeNoDebris, HasBackup, Original, Restored, Acceptable
<1> QED
  BY <1>1, <1>2, <1>3, <1>4, <1>5, <1>6, <1>7

LEMMA CleanStageStep == IInv /\ CleanStage => IInv'
<1> SUFFICES ASSUME IInv, CleanStage PROVE IInv'
  OBVIOUS
<1> USE SizeAssumption, FaultAssumption DEF IInv, TypeOK, Slots, Steps, BodySteps, HandlerSteps, CleanSteps, Outcomes, BackupSteps,
             CleanStage, Fault, NoFault, Loop
<1>1. TypeOK'
  <2>1. /\ dest' \in [Slots -> {"absent", "orig", "copy", "new", "empty", "partial"}]
       /\ stage' \in [Slots -> {"absent", "empty", "partial", "new"}]
       /\ backup' \in [Slots -> {"absent", "empty", "orig", "partial", "copy"}]
    BY DEF Progress, Original
  <2>2. existed' \subseteq Slots /\ stages' \subseteq Slots /\ backups' \subseteq Slots
       /\ unverified' \subseteq Slots
    OBVIOUS
  <2>3. pc' \in Steps /\ k' \in Slots /\ attempted' \in 0 .. N
       /\ faults' \in 0 .. MaxFaults /\ outcome' \in Outcomes
    OBVIOUS
  <2>4. failed' \in BOOLEAN /\ errors' \in BOOLEAN
    OBVIOUS
  <2> QED
    BY <2>1, <2>2, <2>3, <2>4
<1>2. Control'
  BY DEF Control
<1>3. Staged'
  BY DEF Control, Staged
<1>4. Kept'
  BY DEF Control, Staged, Kept, Progress, HasBackup, Original
<1>5. Progress'
  BY DEF Control, Staged, Kept, Progress, Original, Restored, Acceptable, HasBackup
<1>6. Cleaned'
  BY DEF Control, Cleaned
<1>7. Safety'
  BY DEF Control, Staged, Kept, Progress, Cleaned, Safety, NeverTorn, OldContentNeverLost, OutcomeIsExact,
         LaterImpliesEarlier, CleanOutcomeNoDebris, HasBackup, Original, Restored, Acceptable
<1> QED
  BY <1>1, <1>2, <1>3, <1>4, <1>5, <1>6, <1>7

LEMMA CleanBackupStep == IInv /\ CleanBackup => IInv'
<1> SUFFICES ASSUME IInv, CleanBackup PROVE IInv'
  OBVIOUS
<1> USE SizeAssumption, FaultAssumption DEF IInv, TypeOK, Slots, Steps, BodySteps, HandlerSteps, CleanSteps, Outcomes, BackupSteps,
             CleanBackup, Preserved, Fault, NoFault, Loop
<1>1. TypeOK'
  <2>1. /\ dest' \in [Slots -> {"absent", "orig", "copy", "new", "empty", "partial"}]
       /\ stage' \in [Slots -> {"absent", "empty", "partial", "new"}]
       /\ backup' \in [Slots -> {"absent", "empty", "orig", "partial", "copy"}]
    BY DEF Progress, Original
  <2>2. existed' \subseteq Slots /\ stages' \subseteq Slots /\ backups' \subseteq Slots
       /\ unverified' \subseteq Slots
    OBVIOUS
  <2>3. pc' \in Steps /\ k' \in Slots /\ attempted' \in 0 .. N
       /\ faults' \in 0 .. MaxFaults /\ outcome' \in Outcomes
    OBVIOUS
  <2>4. failed' \in BOOLEAN /\ errors' \in BOOLEAN
    OBVIOUS
  <2> QED
    BY <2>1, <2>2, <2>3, <2>4
<1>2. Control'
  BY DEF Control
<1>3. Staged'
  BY DEF Control, Staged
<1>4. Kept'
  BY DEF Control, Staged, Kept, Progress, HasBackup, Original
<1>5. Progress'
  BY DEF Control, Staged, Kept, Progress, Original, Restored, Acceptable, HasBackup
<1>6. Cleaned'
  BY DEF Control, Cleaned
<1>7. Safety'
  BY DEF Control, Staged, Kept, Progress, Cleaned, Safety, NeverTorn, OldContentNeverLost, OutcomeIsExact,
         LaterImpliesEarlier, CleanOutcomeNoDebris, HasBackup, Original, Restored, Acceptable
<1> QED
  BY <1>1, <1>2, <1>3, <1>4, <1>5, <1>6, <1>7

LEMMA FinishStep == IInv /\ Finish => IInv'
<1> SUFFICES ASSUME IInv, Finish PROVE IInv'
  OBVIOUS
<1> USE SizeAssumption, FaultAssumption DEF IInv, TypeOK, Slots, Steps, BodySteps, HandlerSteps, CleanSteps, Outcomes, BackupSteps,
             Finish, files, Verdict, Fault, NoFault, Go
<1>1. TypeOK'
  <2>1. /\ dest' \in [Slots -> {"absent", "orig", "copy", "new", "empty", "partial"}]
       /\ stage' \in [Slots -> {"absent", "empty", "partial", "new"}]
       /\ backup' \in [Slots -> {"absent", "empty", "orig", "partial", "copy"}]
    BY DEF Progress, Original
  <2>2. existed' \subseteq Slots /\ stages' \subseteq Slots /\ backups' \subseteq Slots
       /\ unverified' \subseteq Slots
    OBVIOUS
  <2>3. pc' \in Steps /\ k' \in Slots /\ attempted' \in 0 .. N
       /\ faults' \in 0 .. MaxFaults /\ outcome' \in Outcomes
    OBVIOUS
  <2>4. failed' \in BOOLEAN /\ errors' \in BOOLEAN
    OBVIOUS
  <2> QED
    BY <2>1, <2>2, <2>3, <2>4
<1>2. Control'
  BY DEF Control
<1>3. Staged'
  BY DEF Control, Staged
<1>4. Kept'
  BY DEF Control, Staged, Kept, Progress, HasBackup, Original
<1>5. Progress'
  BY DEF Control, Staged, Kept, Progress, Original, Restored, Acceptable, HasBackup
<1>6. Cleaned'
  BY DEF Control, Cleaned
<1>7. Safety'
  BY DEF Control, Staged, Kept, Progress, Cleaned, Safety, NeverTorn, OldContentNeverLost, OutcomeIsExact,
         LaterImpliesEarlier, CleanOutcomeNoDebris, HasBackup, Original, Restored, Acceptable
<1> QED
  BY <1>1, <1>2, <1>3, <1>4, <1>5, <1>6, <1>7

LEMMA InterruptStep == IInv /\ Interrupt => IInv'
<1> SUFFICES ASSUME IInv, Interrupt PROVE IInv'
  OBVIOUS
<1> USE SizeAssumption, FaultAssumption DEF IInv, TypeOK, Slots, Steps, BodySteps, HandlerSteps, CleanSteps, Outcomes, BackupSteps,
             Interrupt, files, memory, Fault, Go
<1>1. TypeOK'
  <2>1. /\ dest' \in [Slots -> {"absent", "orig", "copy", "new", "empty", "partial"}]
       /\ stage' \in [Slots -> {"absent", "empty", "partial", "new"}]
       /\ backup' \in [Slots -> {"absent", "empty", "orig", "partial", "copy"}]
    BY DEF Progress, Original
  <2>2. existed' \subseteq Slots /\ stages' \subseteq Slots /\ backups' \subseteq Slots
       /\ unverified' \subseteq Slots
    OBVIOUS
  <2>3. pc' \in Steps /\ k' \in Slots /\ attempted' \in 0 .. N
       /\ faults' \in 0 .. MaxFaults /\ outcome' \in Outcomes
    OBVIOUS
  <2>4. failed' \in BOOLEAN /\ errors' \in BOOLEAN
    OBVIOUS
  <2> QED
    BY <2>1, <2>2, <2>3, <2>4
<1>2. Control'
  BY DEF Control
<1>3. Staged'
  BY DEF Control, Staged
<1>4. Kept'
  BY DEF Control, Staged, Kept, Progress, HasBackup, Original
<1>5. Progress'
  BY DEF Control, Staged, Kept, Progress, Original, Restored, Acceptable, HasBackup
<1>6. Cleaned'
  BY DEF Control, Cleaned
<1>7. Safety'
  BY DEF Control, Staged, Kept, Progress, Cleaned, Safety, NeverTorn, OldContentNeverLost, OutcomeIsExact,
         LaterImpliesEarlier, CleanOutcomeNoDebris, HasBackup, Original, Restored, Acceptable
<1> QED
  BY <1>1, <1>2, <1>3, <1>4, <1>5, <1>6, <1>7

LEMMA CrashStep == IInv /\ Crash => IInv'
<1> SUFFICES ASSUME IInv, Crash PROVE IInv'
  OBVIOUS
<1> USE SizeAssumption, FaultAssumption DEF IInv, TypeOK, Slots, Steps, BodySteps, HandlerSteps, CleanSteps, Outcomes, BackupSteps,
             Crash, files, memory, Fault, Go
<1>1. TypeOK'
  <2>1. /\ dest' \in [Slots -> {"absent", "orig", "copy", "new", "empty", "partial"}]
       /\ stage' \in [Slots -> {"absent", "empty", "partial", "new"}]
       /\ backup' \in [Slots -> {"absent", "empty", "orig", "partial", "copy"}]
    BY DEF Progress, Original
  <2>2. existed' \subseteq Slots /\ stages' \subseteq Slots /\ backups' \subseteq Slots
       /\ unverified' \subseteq Slots
    OBVIOUS
  <2>3. pc' \in Steps /\ k' \in Slots /\ attempted' \in 0 .. N
       /\ faults' \in 0 .. MaxFaults /\ outcome' \in Outcomes
    OBVIOUS
  <2>4. failed' \in BOOLEAN /\ errors' \in BOOLEAN
    OBVIOUS
  <2> QED
    BY <2>1, <2>2, <2>3, <2>4
<1>2. Control'
  BY DEF Control
<1>3. Staged'
  BY DEF Control, Staged
<1>4. Kept'
  BY DEF Control, Staged, Kept, Progress, HasBackup, Original
<1>5. Progress'
  BY DEF Control, Staged, Kept, Progress, Original, Restored, Acceptable, HasBackup
<1>6. Cleaned'
  BY DEF Control, Cleaned
<1>7. Safety'
  BY DEF Control, Staged, Kept, Progress, Cleaned, Safety, NeverTorn, OldContentNeverLost, OutcomeIsExact,
         LaterImpliesEarlier, CleanOutcomeNoDebris, HasBackup, Original, Restored, Acceptable
<1> QED
  BY <1>1, <1>2, <1>3, <1>4, <1>5, <1>6, <1>7

LEMMA InitIsSafe == Init => IInv
<1> SUFFICES ASSUME Init PROVE IInv
  OBVIOUS
<1> USE SizeAssumption, FaultAssumption DEF Init, Slots, BodySteps, HandlerSteps, CleanSteps, BackupSteps
<1>1. TypeOK
  <2>1. dest \in [Slots -> {"absent", "orig", "copy", "new", "empty", "partial"}]
    OBVIOUS
  <2>2. /\ stage \in [Slots -> {"absent", "empty", "partial", "new"}]
        /\ backup \in [Slots -> {"absent", "empty", "orig", "partial", "copy"}]
    OBVIOUS
  <2>3. existed \subseteq Slots /\ k \in Slots /\ attempted \in 0 .. N /\ faults \in 0 .. MaxFaults
    OBVIOUS
  <2> QED
    BY <2>1, <2>2, <2>3 DEF TypeOK, Steps, Outcomes
<1>2. Control /\ Staged /\ Kept /\ Progress /\ Cleaned
  BY DEF Control, Staged, Kept, Progress, Cleaned, Original
<1>3. Safety
  BY DEF Safety, NeverTorn, OldContentNeverLost, OutcomeIsExact, LaterImpliesEarlier,
         CleanOutcomeNoDebris, Restored, Acceptable
<1> QED
  BY <1>1, <1>2, <1>3 DEF IInv

LEMMA StutterIsSafe == IInv /\ UNCHANGED vars => IInv'
  BY DEF vars, files, memory, IInv, TypeOK, Control, Staged, Kept, Progress, Cleaned, Safety,
         Original, HasBackup, NeverTorn, OldContentNeverLost, OutcomeIsExact, LaterImpliesEarlier,
         CleanOutcomeNoDebris, Restored, Acceptable

LEMMA NextIsSafe == IInv /\ [Next]_vars => IInv'
  BY ReserveStageStep, WriteStageStep, ReserveBackupStep, UnlinkReservedStep, LinkBackupStep,
     CopyBackupStep, CommitStep, SyncReplacedStep, VerifyStep, RollbackStep, RollbackFailsStep,
     SyncRollbackStep, CleanStageStep, CleanBackupStep, FinishStep, InterruptStep, CrashStep,
     StutterIsSafe
  DEF Next, Call, Stage, Backup, Undo, Clean, Terminated

\* The inductive invariant holds in every reachable state of a bundle of any
\* size under any number of faults.
THEOREM Inductive == Spec => []IInv
  BY InitIsSafe, NextIsSafe, PTL DEF Spec

\* Every variable keeps its type.
THEOREM TypeCorrect == Spec => []TypeOK
<1>1. IInv => TypeOK
  BY DEF IInv
<1> QED
  BY <1>1, Inductive, PTL

\* No destination ever shows a half-written file.
THEOREM Untorn == Spec => []NeverTorn
<1>1. IInv => NeverTorn
  BY DEF IInv, Safety
<1> QED
  BY <1>1, Inductive, PTL

\* The original of every destination survives every fault, interrupt and crash
\* until the whole bundle is in place.
THEOREM OriginalsSurvive == Spec => []OldContentNeverLost
<1>1. IInv => OldContentNeverLost
  BY DEF IInv, Safety
<1> QED
  BY <1>1, Inductive, PTL

\* What the call reports is what the destinations show.
THEOREM ReportsAreExact == Spec => []OutcomeIsExact
<1>1. IInv => OutcomeIsExact
  BY DEF IInv, Safety
<1> QED
  BY <1>1, Inductive, PTL

\* A policy is never visible without the predictor written before it, unless a
\* restoration was given up.
THEOREM PolicyLast == Spec => []LaterImpliesEarlier
<1>1. IInv => LaterImpliesEarlier
  BY DEF IInv, Safety
<1> QED
  BY <1>1, Inductive, PTL

\* A report without error leaves no registered temporary file.
THEOREM NoDebris == Spec => []CleanOutcomeNoDebris
<1>1. IInv => CleanOutcomeNoDebris
  BY DEF IInv, Safety
<1> QED
  BY <1>1, Inductive, PTL

-----------------------------------------------------------------------------
(* The refinement: which contract step each step of the code takes.        *)

\* A step that moves no inode onto or off a destination and gives nothing up is
\* invisible, or the exception that turns publishing into restoring.
LEMMA QuietStep ==
    ASSUME IInv,
           UNCHANGED <<dest, unverified, outcome>>,
           failed' = failed \/ (~failed /\ failed' = TRUE /\ outcome = "none")
    PROVE  [Contract!Next]_Contract!vars
<1>1. CASE failed' = failed
  BY <1>1 DEF Contract!vars
<1>2. CASE ~failed /\ failed' = TRUE /\ outcome = "none"
  <2>1. Contract!Abort
    BY <1>2 DEF Contract!Abort
  <2> QED
    BY <2>1 DEF Contract!Next
<1> QED
  BY <1>1, <1>2

\* A rename publishes the next document, whether or not it raises.
LEMMA CommitPublishes == IInv /\ Commit => [Contract!Next]_Contract!vars
<1> SUFFICES ASSUME IInv, Commit PROVE [Contract!Next]_Contract!vars
  OBVIOUS
<1> USE SizeAssumption DEF IInv, TypeOK, Slots
<1>1. /\ k \in Slots /\ ~failed /\ outcome = "none"
      /\ \A i \in Slots : dest[i] = IF i < k THEN "new" ELSE Original(i)
      /\ stage[k] = "new"
      /\ UNCHANGED <<unverified, outcome>>
  BY DEF Commit, Control, Staged, Progress, BodySteps, HandlerSteps
<1>2. failed' = failed \/ (~failed /\ failed' = TRUE /\ outcome = "none")
  BY <1>1 DEF Commit, RaiseAfter
<1>3. CASE RenameStage(k)
  <2>1. [i \in Slots |-> Shown(dest'[i])] = [[i \in Slots |-> Shown(dest[i])] EXCEPT ![k] = "new"]
    BY <1>1, <1>3 DEF RenameStage, Shown
  <2>2. \A i \in Slots : Shown(dest[i]) = IF i < k THEN "new" ELSE "old"
    BY <1>1 DEF Shown, Original
  <2>3. Contract!Publish(k)
    BY <1>1, <1>2, <2>1, <2>2 DEF Contract!Publish, Contract!Documents
  <2> QED
    BY <1>1, <2>3 DEF Contract!Next, Contract!Documents
<1>4. CASE UNCHANGED <<dest, stage>>
  BY <1>1, <1>2, <1>4, QuietStep DEF IInv
<1> QED
  BY <1>3, <1>4 DEF Commit, Slot

\* One undo iteration takes back one document once all later ones are settled.
LEMMA UndoRestores == IInv /\ (Rollback \/ RollbackFails) => [Contract!Next]_Contract!vars
<1> SUFFICES ASSUME IInv, Rollback \/ RollbackFails PROVE [Contract!Next]_Contract!vars
  OBVIOUS
<1> USE SizeAssumption DEF IInv, TypeOK, Slots
<1>1. /\ k \in Slots /\ failed /\ outcome = "none" /\ pc = "rollback"
      /\ failed' = failed
      /\ UNCHANGED <<existed, outcome>>
      /\ unverified' \in {unverified, unverified \cup {k}}
      /\ Restore(k) \/ UNCHANGED <<dest, backup>>
  BY DEF Rollback, RollbackFails, Control, BodySteps, HandlerSteps, Slot
<1>2. \A i \in Slots : i > k => Shown(dest[i]) = "old" \/ i \in unverified
  BY <1>1 DEF Progress, Restored, Acceptable, Shown
<1>3. [i \in Slots |-> Shown(dest'[i])] \in
        {[i \in Slots |-> Shown(dest[i])],
         [[i \in Slots |-> Shown(dest[i])] EXCEPT ![k] = "old"]}
  <2>1. CASE UNCHANGED dest
    BY <2>1
  <2>2. CASE dest' = [dest EXCEPT ![k] = "absent"]
    BY <1>1, <2>2 DEF Shown
  <2>3. CASE k \in existed /\ dest' = [dest EXCEPT ![k] = backup[k]]
    <3>1. backup[k] # "new"
      BY <1>1, <2>3
    <3> QED
      BY <1>1, <2>3, <3>1 DEF Shown
  <2> QED
    BY <1>1, <2>1, <2>2, <2>3 DEF Restore
<1>4. Contract!Restore(k)
  BY <1>1, <1>2, <1>3 DEF Contract!Restore, Contract!Documents
<1> QED
  BY <1>1, <1>4 DEF Contract!Next, Contract!Documents

\* The last directory sync answers, and the answer is true.
LEMMA FinishReturns == IInv /\ Finish => [Contract!Next]_Contract!vars
<1> SUFFICES ASSUME IInv, Finish PROVE [Contract!Next]_Contract!vars
  OBVIOUS
<1> USE DEF IInv
<1>1. /\ outcome = "none" /\ pc = "syncCleanup"
      /\ UNCHANGED <<dest, unverified, failed>>
      /\ outcome' = Verdict(failed, errors')
  BY DEF Finish, Control, files, CleanSteps
<1>2. CASE ~failed
  <2>1. outcome' \in {"ok", "committed"}
    BY <1>1, <1>2 DEF Verdict, TypeOK, Finish
  <2>2. \A i \in Slots : Shown(dest[i]) = "new"
    BY <1>1, <1>2 DEF Progress, CleanSteps, Shown
  <2>3. Contract!Return
    BY <1>1, <1>2, <2>1, <2>2 DEF Contract!Return, Contract!Answers, Contract!AllNew, Contract!Documents, Slots
  <2> QED
    BY <2>3 DEF Contract!Next
<1>3. CASE failed
  <2>1. outcome' \in {"failed", "incomplete"} /\ (outcome' = "failed" => ~errors)
    BY <1>1, <1>3 DEF Verdict, TypeOK, Finish
  <2>2. \A i \in Slots : Shown(dest[i]) = "old" \/ i \in unverified
    BY <1>1, <1>3 DEF Progress, CleanSteps, Shown, Restored, Acceptable
  <2>3. outcome' = "failed" => unverified = {}
    BY <2>1 DEF Control
  <2>4. Contract!Return
    BY <1>1, <1>3, <2>1, <2>2, <2>3
    DEF Contract!Return, Contract!Answers, Contract!AllOld, Contract!Documents, Slots
  <2> QED
    BY <2>4 DEF Contract!Next
<1> QED
  BY <1>2, <1>3

\* An exception nobody catches and the end of the process promise nothing more.
LEMMA AbruptReturns == IInv /\ (Interrupt \/ Crash) => [Contract!Next]_Contract!vars
<1> SUFFICES ASSUME IInv, Interrupt \/ Crash PROVE [Contract!Next]_Contract!vars
  OBVIOUS
<1>1. /\ outcome = "none" /\ outcome' \in {"interrupted", "crashed"}
      /\ UNCHANGED <<dest, failed, unverified>>
  BY DEF IInv, Control, Interrupt, Crash, files, memory, HandlerSteps, CleanSteps
<1>2. Contract!Return
  BY <1>1 DEF Contract!Return, Contract!Answers
<1> QED
  BY <1>2 DEF Contract!Next

\* Every other step is quiet.
LEMMA OthersAreQuiet ==
    IInv /\ (Stage \/ Backup \/ SyncReplaced \/ Verify \/ SyncRollback \/ CleanStage \/ CleanBackup)
      => [Contract!Next]_Contract!vars
<1> SUFFICES ASSUME IInv, Stage \/ Backup \/ SyncReplaced \/ Verify \/ SyncRollback
                          \/ CleanStage \/ CleanBackup
             PROVE  [Contract!Next]_Contract!vars
  OBVIOUS
<1> USE DEF Fault, Raise, RaiseAfter, Control, BodySteps
<1>1. CASE Stage
  BY <1>1, QuietStep DEF Stage, ReserveStage, WriteStage, IInv
<1>2. CASE Backup
  BY <1>2, QuietStep DEF Backup, ReserveBackup, UnlinkReserved, LinkBackup, CopyBackup, IInv
<1>3. CASE SyncReplaced \/ Verify
  BY <1>3, QuietStep DEF SyncReplaced, Verify, files, IInv
<1>4. CASE SyncRollback \/ CleanStage \/ CleanBackup
  BY <1>4, QuietStep DEF SyncRollback, CleanStage, CleanBackup, files
<1> QED
  BY <1>1, <1>2, <1>3, <1>4

\* Every behaviour of the replacement is one the contract allows, for bundles of
\* any size: documents appear in order, disappear in reverse order, and the
\* answer describes what is visible.
THEOREM Refines == Spec => ContractSafety
<1>1. Init => Contract!Init
  BY DEF Init, Contract!Init, Contract!Documents, Slots, Shown
<1>2. IInv /\ [Next]_vars => [Contract!Next]_Contract!vars
  <2> SUFFICES ASSUME IInv, [Next]_vars PROVE [Contract!Next]_Contract!vars
    OBVIOUS
  <2>1. CASE UNCHANGED vars
    BY <2>1 DEF vars, files, memory, Contract!vars
  <2>2. CASE Next
    BY <2>1, <2>2, CommitPublishes, UndoRestores, FinishReturns, AbruptReturns, OthersAreQuiet
    DEF Next, Call, Undo, Clean, Terminated
  <2> QED
    BY <2>1, <2>2
<1> QED
  BY <1>1, <1>2, Inductive, PTL DEF Spec, ContractSafety

-----------------------------------------------------------------------------
(* The reader: what it loaded, against what was on disk beside it. *)

\* While a command reads, the set of pairs it could have met is kept up to date.
\* An old predictor was read before the first rename, or after it was put back;
\* a new one before its own restoration, and no policy appears after that.
ReaderInv ==
    /\ rpc \in {"idle", "predictor", "policy", "accepted", "rejected"}
    /\ rpc # "idle" => OnDisk \in coexisted
    /\ rpc = "policy" => predictor \in {"old", "new"}
    /\ rpc = "policy" /\ predictor = "old" =>
          /\ Predictor \in existed
          /\ Policy \in existed => dest[Predictor] # "new" \/ <<"old", "old">> \in coexisted
    /\ rpc = "policy" /\ predictor = "new" =>
          \/ dest[Predictor] = "new"
          \/ <<"new", "new">> \in coexisted
          \/ failed /\ dest[Policy] # "new"
    /\ AcceptedPairCoexisted
    /\ calm => WholePair /\ (rpc = "policy" => predictor = Visible[Predictor])
    /\ SettledPairLoads

\* The versions a whole document has.
LEMMA Versions ==
    ASSUME IInv
    PROVE  /\ Predictor \in Slots /\ Policy \in Slots /\ Predictor < Policy
           /\ OnDisk = <<Version(dest[Predictor]), Version(dest[Policy])>>
           /\ \A i \in Slots : /\ Visible[i] = Version(dest[i])
                               /\ Version(dest[i]) \in {"none", "old", "new"}
                               /\ Version(dest[i]) = "new" <=> dest[i] = "new"
                               /\ Version(dest[i]) = "old" <=> dest[i] # "new" /\ i \in existed
BY SizeAssumption, PairAssumption
   DEF IInv, Safety, NeverTorn, Acceptable, Version, Visible, OnDisk, Slots, Predictor, Policy

\* A clean answer left one whole pair, and nothing happens after an answer.
LEMMA WholePairLoads ==
    ASSUME IInv, WholePair
    PROVE  /\ Version(dest[Predictor]) = Version(dest[Policy])
           /\ Version(dest[Predictor]) # "none"
           /\ Next => UNCHANGED <<dest, outcome, existed>>
<1>1. outcome # "none" /\ pc = "done"
  BY DEF WholePair, IInv, Control
<1>2. Next => UNCHANGED <<dest, outcome, existed>>
  BY <1>1 DEF Next, Call, Stage, Backup, Undo, Clean, ReserveStage, WriteStage, ReserveBackup,
         UnlinkReserved, LinkBackup, CopyBackup, Commit, SyncReplaced, Verify, Rollback,
         RollbackFails, SyncRollback, CleanStage, CleanBackup, Finish, Interrupt, Crash,
         Terminated, vars, files, HandlerSteps, CleanSteps
<1>3. CASE outcome \in {"ok", "committed"}
  BY <1>2, <1>3, Versions DEF IInv, Safety, OutcomeIsExact, Version
<1>4. CASE outcome = "failed" /\ existed = Slots
  BY <1>2, <1>4, Versions DEF IInv, Safety, OutcomeIsExact, Restored, Acceptable, Version
<1>5. QED
  BY <1>3, <1>4 DEF WholePair

\* Once the handler runs no document becomes visible, and the first rename finds
\* every other destination as it was.
LEMMA DestinationsMove ==
    ASSUME IInv, Next, NEW i \in Slots
    PROVE  /\ existed' = existed /\ (failed => failed')
           /\ failed /\ dest[i] # "new" => dest'[i] # "new"
           /\ dest[i] # "new" /\ dest'[i] = "new" =>
                 \A j \in Slots : j > i => dest[j] = Original(j)
           /\ dest[i] = "new" /\ dest'[i] # "new" => failed
<1> USE DEF IInv, TypeOK
<1>1. CASE Commit
  <2>1. /\ k \in Slots /\ ~failed /\ existed' = existed
        /\ dest' = dest \/ (dest' = [dest EXCEPT ![k] = stage[k]] /\ stage[k] = "new")
        /\ \A j \in Slots : dest[j] = IF j < k THEN "new" ELSE Original(j)
    BY <1>1, SizeAssumption
       DEF Commit, RenameStage, Slot, Control, Staged, Progress, BodySteps, Slots
  <2>2. QED
    BY <2>1, SizeAssumption DEF Slots, Original
<1>2. CASE Rollback \/ RollbackFails
  <2>1. failed /\ failed' = failed /\ existed' = existed /\ k \in Slots
    BY <1>2 DEF Rollback, RollbackFails, Control, HandlerSteps
  <2>2. \/ UNCHANGED dest
        \/ dest' = [dest EXCEPT ![k] = "absent"]
        \/ dest' = [dest EXCEPT ![k] = backup[k]]
    BY <1>2 DEF Rollback, RollbackFails, Restore, Slot
  <2>3. backup[k] # "new"
    BY <2>1
  <2>4. QED
    BY <2>1, <2>2, <2>3
<1>3. CASE UNCHANGED <<dest, existed>> /\ (failed => failed')
  BY <1>3
<1>4. CASE Stage \/ Backup \/ SyncReplaced \/ Verify
  <2>1. UNCHANGED <<dest, existed>>
    BY <1>4 DEF Stage, Backup, ReserveStage, WriteStage, ReserveBackup, UnlinkReserved,
           LinkBackup, CopyBackup, SyncReplaced, Verify, files
  <2>2. ~failed
    BY <1>4 DEF Stage, Backup, ReserveStage, WriteStage, ReserveBackup, UnlinkReserved,
           LinkBackup, CopyBackup, SyncReplaced, Verify, Control, BodySteps
  <2>3. QED
    BY <2>1, <2>2
<1>5. CASE SyncRollback \/ Clean \/ Interrupt \/ Crash \/ Terminated
  BY <1>3, <1>5 DEF SyncRollback, Clean, CleanStage, CleanBackup, Finish, Interrupt, Crash,
         Terminated, files, memory, vars
<1>6. QED
  BY <1>1, <1>2, <1>4, <1>5 DEF Next, Call, Undo

LEMMA ReadKeeps ==
    ASSUME IInv, ReaderInv, Read
    PROVE  ReaderInv'
<1> USE Versions DEF ReaderInv
<1>1. UNCHANGED vars /\ UNCHANGED <<dest, existed, failed, outcome>>
  BY DEF Read, StartRead, LoadPredictor, LoadPolicy, vars, files, memory
<1>2. Visible' = Visible /\ OnDisk' = OnDisk /\ WholePair' = WholePair
  BY <1>1 DEF Visible, OnDisk, WholePair, Version
<1>3. CASE StartRead
  BY <1>1, <1>2, <1>3 DEF StartRead, AcceptedPairCoexisted, SettledPairLoads
<1>4. CASE LoadPredictor
  BY <1>1, <1>2, <1>4, WholePairLoads DEF LoadPredictor, AcceptedPairCoexisted, SettledPairLoads
<1>5. CASE LoadPolicy
  <2>1. /\ rpc = "policy" /\ policy' = Version(dest[Policy])
        /\ UNCHANGED <<predictor, coexisted, calm>>
        /\ rpc' = IF policy' # "none" /\ policy' = predictor THEN "accepted" ELSE "rejected"
    BY <1>5 DEF LoadPolicy, Bound
  <2>2. AcceptedPairCoexisted'
    <3>1. SUFFICES ASSUME rpc' = "accepted" PROVE <<predictor, predictor>> \in coexisted
      BY <2>1 DEF AcceptedPairCoexisted
    <3>2. predictor = Version(dest[Policy])
      BY <2>1, <3>1
    <3>3. CASE predictor = "new"
      BY <2>1, <3>2, <3>3
    <3>4. CASE predictor = "old"
      BY <2>1, <3>2, <3>4
    <3>5. QED
      BY <2>1, <3>3, <3>4
  <2>3. SettledPairLoads'
    BY <2>1, WholePairLoads DEF SettledPairLoads
  <2>4. QED
    BY <1>1, <1>2, <2>1, <2>2, <2>3
<1>6. QED
  BY <1>3, <1>4, <1>5 DEF Read

LEMMA WriteKeeps ==
    ASSUME IInv, IInv', ReaderInv, Write
    PROVE  ReaderInv'
<1>1. /\ Next
      /\ coexisted' = coexisted \cup {<<Version(dest[Predictor]), Version(dest[Policy])>>'}
      /\ UNCHANGED <<rpc, predictor, policy, calm>>
  BY DEF Write, Predictor, Policy, Version
<1>2. (OnDisk \in coexisted)'
  BY <1>1, Versions DEF OnDisk, Visible, Version, Predictor, Policy
<1>3. existed' = existed /\ (failed => failed')
  BY <1>1, Versions, DestinationsMove
<1>4. (rpc = "policy" /\ predictor = "old" =>
          /\ Predictor \in existed
          /\ Policy \in existed => dest[Predictor] # "new" \/ <<"old", "old">> \in coexisted)'
  <2>1. SUFFICES ASSUME rpc = "policy", predictor = "old", Policy \in existed,
                        dest'[Predictor] = "new"
                 PROVE  <<"old", "old">> \in coexisted'
    BY <1>1, <1>3 DEF ReaderInv, Predictor, Policy
  <2>2. CASE dest[Predictor] = "new"
    BY <1>1, <2>1, <2>2 DEF ReaderInv
  <2>3. CASE dest[Predictor] # "new"
    <3>1. dest[Policy] = Original(Policy)
      BY <1>1, <2>1, <2>3, Versions, DestinationsMove
    <3>2. OnDisk = <<"old", "old">>
      BY <2>1, <2>3, <3>1, Versions DEF ReaderInv, Original
    <3>3. QED
      BY <1>1, <2>1, <3>2 DEF ReaderInv
  <2>4. QED
    BY <2>2, <2>3
<1>5. (rpc = "policy" /\ predictor = "new" =>
          \/ dest[Predictor] = "new"
          \/ <<"new", "new">> \in coexisted
          \/ failed /\ dest[Policy] # "new")'
  <2>1. SUFFICES ASSUME rpc = "policy", predictor = "new", dest'[Predictor] # "new",
                        <<"new", "new">> \notin coexisted'
                 PROVE  failed' /\ dest'[Policy] # "new"
    BY <1>1 DEF Predictor, Policy
  <2>2. failed /\ dest[Policy] # "new"
    <3>1. CASE dest[Predictor] = "new"
      BY <1>1, <2>1, <3>1, Versions, DestinationsMove DEF ReaderInv
    <3>2. CASE dest[Predictor] # "new"
      BY <1>1, <2>1, <3>2 DEF ReaderInv
    <3>3. QED
      BY <3>1, <3>2
  <2>3. QED
    BY <1>1, <1>3, <2>2, Versions, DestinationsMove
<1>6. AcceptedPairCoexisted' /\ SettledPairLoads'
  BY <1>1 DEF ReaderInv, AcceptedPairCoexisted, SettledPairLoads
<1>7. (calm => WholePair /\ (rpc = "policy" => predictor = Visible[Predictor]))'
  BY <1>1, WholePairLoads DEF ReaderInv, WholePair, Visible, Version, Predictor
<1>8. QED
  BY <1>1, <1>2, <1>4, <1>5, <1>6, <1>7 DEF ReaderInv

\* What a single call promises, it promises beside its readers.
THEOREM ReadersOnlyRead == ReaderSpec => Spec
<1>1. ReaderInit => Init
  BY DEF ReaderInit
<1>2. [ReaderNext]_<<vars, readerVars>> => [Next]_vars
  BY DEF ReaderNext, Read, StartRead, LoadPredictor, LoadPolicy, Write
<1>3. QED
  BY <1>1, <1>2, PTL DEF ReaderSpec, Spec

\* The inductive invariant of a reader beside a replacement.
THEOREM ReaderInductive == ReaderSpec => []ReaderInv
<1>1. ReaderInit => ReaderInv
  BY DEF ReaderInit, ReaderInv, AcceptedPairCoexisted, SettledPairLoads
<1>2. IInv /\ IInv' /\ ReaderInv /\ [ReaderNext]_<<vars, readerVars>> => ReaderInv'
  <2> SUFFICES ASSUME IInv, IInv', ReaderInv, [ReaderNext]_<<vars, readerVars>> PROVE ReaderInv'
    OBVIOUS
  <2>1. CASE Read
    BY <2>1, ReadKeeps
  <2>2. CASE Write
    BY <2>2, WriteKeeps
  <2>3. CASE UNCHANGED <<vars, readerVars>>
    BY <2>3 DEF ReaderInv, vars, files, memory, readerVars, OnDisk, Visible, Version, WholePair,
           AcceptedPairCoexisted, SettledPairLoads, Predictor, Policy
  <2>4. QED
    BY <2>1, <2>2, <2>3 DEF ReaderNext
<1>3. QED
  BY <1>1, <1>2, ReadersOnlyRead, Inductive, PTL DEF ReaderSpec

\* A command that accepts a predictor and a policy accepts a pair that was on disk
\* together at some moment of its two loads, for bundles of any size and any
\* faults in the replacement: validate_predictor suffices.
THEOREM PairsCoexisted == ReaderSpec => []AcceptedPairCoexisted
<1>1. ReaderInv => AcceptedPairCoexisted
  BY DEF ReaderInv
<1>2. QED
  BY <1>1, ReaderInductive, PTL

\* After a clean answer no command is refused.
THEOREM PairsLoad == ReaderSpec => []SettledPairLoads
<1>1. ReaderInv => SettledPairLoads
  BY DEF ReaderInv
<1>2. QED
  BY <1>1, ReaderInductive, PTL
=============================================================================
