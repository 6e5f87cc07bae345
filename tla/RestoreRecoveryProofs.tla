----------------------- MODULE RestoreRecoveryProofs -----------------------
(* Proofs about RestoreRecovery, for every bound on failures and crashes and *)
(* both values of its switches; what is served is proved for a startup that  *)
(* calls the recovery.                                                       *)
EXTENDS RestoreRecovery, TLAPS

Mutating == {"copy", "migrate", "reconcile", "invalidate", "attach", "validate", "ledger",
             "undo_db", "undo_files"}
Preparing == {"begin", "snapshot", "journal", "bind", "prepare"}

(* Before a restore starts, nothing is on disk.                              *)
NotStarted ==
    archive = "none" => /\ pc \in {"serving", "down", "discover"}
                        /\ ~ledger /\ Untouched /\ returnErr = "none"
                        /\ told = "none" /\ marker = "none" /\ durable = "none"

(* What each step of the engine may rely on.                                 *)
EngineReady ==
    /\ pc \in EngineLabel => ~recovering
    /\ pc \in RecoveryLabel => recovering
    /\ pc \in {"serving", "latched", "down"} => ~recovering
    /\ pc \in Preparing => ~ledger /\ Untouched /\ returnErr = "none"
    /\ pc \in {"snapshot", "journal", "bind"} => marker = "preparing" /\ durable = "preparing"
    /\ pc = "begin" => marker \in {"none", "preparing"} /\ durable = "none"
    /\ pc \in {"journal", "bind"} => safety = "complete"
    /\ pc = "bind" => journal = "complete"
    /\ pc = "prepare" => Reversible /\ marker \in {"preparing", "prepared"} /\ durable = "preparing"
    /\ pc \in Mutating \cup {"owners"} =>
           ~ledger /\ Reversible /\ marker = "prepared" /\ durable = "prepared"
    /\ pc = "owners" => Untouched
    /\ pc \in {"owners", "copy", "migrate", "reconcile", "invalidate", "attach", "validate",
        "ledger",
               "sync_db", "commit"} => returnErr = "none"
    /\ pc \in {"copy", "migrate", "reconcile", "invalidate"} => files = "old"
    /\ pc = "attach" => db = "usable" /\ HasFiles
    /\ pc \in {"validate", "ledger"} => Restored
    /\ pc \in {"sync_db", "commit"} => ledger
    /\ pc \in {"undo_db", "undo_files"} => returnErr # "none" /\ (undoFiles \/ files = "old")
    /\ pc = "undo_files" => returnErr = "rollback" \/ db = "old"

(* Nothing is cleaned up before the restore is decided and its world whole.  *)
CleanIsSettled ==
    /\ pc \in CleanLabel => ledger \/ Untouched
    /\ pc \in CleanLabel /\ ~recovering => (ledger <=> returnErr = "none")
    /\ pc = "resolve" => marker = "prepared" \/ marker = IF ledger THEN "committed" ELSE
        "rolled_back"
    /\ ~HasFiles => files = "old"
    /\ pc \in {"swap", "replay"} => ~ledger /\ Reversible /\ marker = "prepared"
    /\ pc = "replay" => db = "old"

(* What the phases found on disk say of the live data.                       *)
MarkerTellsTruth ==
    /\ marker = "committed" \/ durable = "committed" => ledger
    /\ {marker, durable} \cap {"preparing", "rolled_back"} # {} => ~ledger

(* A final answer is given when the marker is gone for good.                 *)
AnswerIsLast ==
    told \in {"restored", "undone"} =>
        /\ pc \in {"serving", "down", "discover"} /\ archive # "none"
        /\ marker = "none" /\ durable = "none"
        /\ ledger <=> told = "restored"

ServingIsSettled == RecoverOnStart /\ pc = "serving" => marker = "none"

Sound ==
    /\ NotStarted /\ EngineReady /\ CleanIsSettled /\ MarkerTellsTruth
    /\ AnswerIsLast /\ ServingIsSettled /\ MutationIsReversible /\ CommittedStateIsWhole

IInv == TypeOK /\ Sound

----------------------------------------------------------------------------
(* Every action keeps the variables in their types.                          *)

USE DEF world, copies, phase, request, Goto, Fault

Located == pc \in EngineLabel \cup CleanLabel \cup RecoveryLabel \cup {"serving", "latched", "down"}
Counted == faults \in 0 .. MaxFaults /\ crashes \in 0 .. MaxCrashes
Switched == recovering \in BOOLEAN /\ undoFiles \in BOOLEAN /\ ledger \in BOOLEAN
Recorded ==
    /\ returnErr \in {"none", "plain", "rollback"}
    /\ told \in {"none", "restored", "undone", "manual"}
    /\ archive \in {"none", "database", "files"}
    /\ db \in {"old", "copied", "migrated", "reconciled", "usable", "torn"}
    /\ files \in {"old", "mixed", "new"}
    /\ safety \in Artifact /\ journal \in Artifact
    /\ marker \in Phase /\ durable \in Phase

LEMMA LocatedKept == Located /\ [Next]_vars => Located'
  <1> SUFFICES ASSUME Located, [Next]_vars PROVE Located' OBVIOUS
  <1> USE BoundsAreNaturals, SwitchesAreBoolean DEF Located, EngineLabel, CleanLabel, RecoveryLabel
  <1>1. CASE StartRestore BY <1>1 DEF StartRestore
  <1>2. CASE Snapshot BY <1>2 DEF Snapshot, Abort
  <1>3. CASE SnapshotFiles BY <1>3 DEF SnapshotFiles, Abort
  <1>4. CASE BindJournal BY <1>4 DEF BindJournal, Abort
  <1>5. CASE ReadOwners BY <1>5 DEF ReadOwners, Abort
  <1>6. CASE Copy BY <1>6 DEF Copy, Step, Undo
  <1>7. CASE Migrate BY <1>7 DEF Migrate, Step, Undo
  <1>8. CASE Reconcile BY <1>8 DEF Reconcile, Step, Undo
  <1>9. CASE InvalidateCredentials BY <1>9 DEF InvalidateCredentials, Step, Undo
  <1>10. CASE RestoreFiles BY <1>10 DEF RestoreFiles, Undo
  <1>11. CASE Validate BY <1>11 DEF Validate, Undo
  <1>12. CASE Panic BY <1>12 DEF Panic, Undo
  <1>13. CASE RecordCommit BY <1>13 DEF RecordCommit, Latch
  <1>14. CASE EnsureDurable BY <1>14 DEF EnsureDurable, Latch
  <1>15. CASE RollbackDatabase BY <1>15 DEF RollbackDatabase, Undone
  <1>16. CASE RollbackFiles BY <1>16 DEF RollbackFiles, Undone, PartlyUndone
  <1>17. CASE Start BY <1>17 DEF Start
  <1>18. CASE Decide BY <1>18 DEF Decide, GiveUp
  <1>19. CASE SwapDatabase BY <1>19 DEF SwapDatabase
  <1>20. CASE ReplayJournal BY <1>20 DEF ReplayJournal, GiveUp, PartlyUndone
  <1>21. CASE RecoveryFails BY <1>21 DEF RecoveryFails, GiveUp
  <1>22. CASE RenameMarker BY <1>22 DEF RenameMarker, Target, MarkerLabel
  <1>23. CASE SyncMarker BY <1>23 DEF SyncMarker, Target, After, MarkerLabel, Answer
  <1>24. CASE MarkerFails BY <1>24 DEF MarkerFails, Target, MarkerLabel, MarkerFailure, Abort,
      Latch, GiveUp
  <1>25. CASE CleanJournal BY <1>25 DEF CleanJournal
  <1>26. CASE CleanSafety BY <1>26 DEF CleanSafety
  <1>27. CASE CleanupFails BY <1>27 DEF CleanupFails, GiveUp, Latch
  <1>28. CASE Crash BY <1>28 DEF Crash, Stop
  <1>29. CASE Restart BY <1>29 DEF Restart, Stop
  <1>30. CASE UNCHANGED vars BY <1>30 DEF vars
  <1> QED BY <1>1, <1>2, <1>3, <1>4, <1>5, <1>6, <1>7, <1>8, <1>9, <1>10, <1>11, <1>12, <1>13,
      <1>14, <1>15, <1>16, <1>17, <1>18, <1>19, <1>20, <1>21, <1>22, <1>23, <1>24, <1>25, <1>26,
      <1>27, <1>28, <1>29, <1>30
         DEF Next, Engine, Recovery, Common

LEMMA CountedKept == Counted /\ [Next]_vars => Counted'
  <1> SUFFICES ASSUME Counted, [Next]_vars PROVE Counted' OBVIOUS
  <1> USE BoundsAreNaturals, SwitchesAreBoolean DEF Counted
  <1>1. CASE StartRestore BY <1>1 DEF StartRestore
  <1>2. CASE Snapshot BY <1>2 DEF Snapshot, Abort
  <1>3. CASE SnapshotFiles BY <1>3 DEF SnapshotFiles, Abort
  <1>4. CASE BindJournal BY <1>4 DEF BindJournal, Abort
  <1>5. CASE ReadOwners BY <1>5 DEF ReadOwners, Abort
  <1>6. CASE Copy BY <1>6 DEF Copy, Step, Undo
  <1>7. CASE Migrate BY <1>7 DEF Migrate, Step, Undo
  <1>8. CASE Reconcile BY <1>8 DEF Reconcile, Step, Undo
  <1>9. CASE InvalidateCredentials BY <1>9 DEF InvalidateCredentials, Step, Undo
  <1>10. CASE RestoreFiles BY <1>10 DEF RestoreFiles, Undo
  <1>11. CASE Validate BY <1>11 DEF Validate, Undo
  <1>12. CASE Panic BY <1>12 DEF Panic, Undo
  <1>13. CASE RecordCommit BY <1>13 DEF RecordCommit, Latch
  <1>14. CASE EnsureDurable BY <1>14 DEF EnsureDurable, Latch
  <1>15. CASE RollbackDatabase BY <1>15 DEF RollbackDatabase, Undone
  <1>16. CASE RollbackFiles BY <1>16 DEF RollbackFiles, Undone, PartlyUndone
  <1>17. CASE Start BY <1>17 DEF Start
  <1>18. CASE Decide BY <1>18 DEF Decide, GiveUp
  <1>19. CASE SwapDatabase BY <1>19 DEF SwapDatabase
  <1>20. CASE ReplayJournal BY <1>20 DEF ReplayJournal, GiveUp, PartlyUndone
  <1>21. CASE RecoveryFails BY <1>21 DEF RecoveryFails, GiveUp
  <1>22. CASE RenameMarker BY <1>22 DEF RenameMarker, Target, MarkerLabel
  <1>23. CASE SyncMarker BY <1>23 DEF SyncMarker, Target, After, MarkerLabel, Answer
  <1>24. CASE MarkerFails BY <1>24 DEF MarkerFails, Target, MarkerLabel, MarkerFailure, Abort,
      Latch, GiveUp
  <1>25. CASE CleanJournal BY <1>25 DEF CleanJournal
  <1>26. CASE CleanSafety BY <1>26 DEF CleanSafety
  <1>27. CASE CleanupFails BY <1>27 DEF CleanupFails, GiveUp, Latch
  <1>28. CASE Crash BY <1>28 DEF Crash, Stop
  <1>29. CASE Restart BY <1>29 DEF Restart, Stop
  <1>30. CASE UNCHANGED vars BY <1>30 DEF vars
  <1> QED BY <1>1, <1>2, <1>3, <1>4, <1>5, <1>6, <1>7, <1>8, <1>9, <1>10, <1>11, <1>12, <1>13,
      <1>14, <1>15, <1>16, <1>17, <1>18, <1>19, <1>20, <1>21, <1>22, <1>23, <1>24, <1>25, <1>26,
      <1>27, <1>28, <1>29, <1>30
         DEF Next, Engine, Recovery, Common

LEMMA SwitchedKept == Switched /\ [Next]_vars => Switched'
  <1> SUFFICES ASSUME Switched, [Next]_vars PROVE Switched' OBVIOUS
  <1> USE BoundsAreNaturals, SwitchesAreBoolean DEF Switched, HasFiles
  <1>1. CASE StartRestore BY <1>1 DEF StartRestore
  <1>2. CASE Snapshot BY <1>2 DEF Snapshot, Abort
  <1>3. CASE SnapshotFiles BY <1>3 DEF SnapshotFiles, Abort
  <1>4. CASE BindJournal BY <1>4 DEF BindJournal, Abort
  <1>5. CASE ReadOwners BY <1>5 DEF ReadOwners, Abort
  <1>6. CASE Copy BY <1>6 DEF Copy, Step, Undo
  <1>7. CASE Migrate BY <1>7 DEF Migrate, Step, Undo
  <1>8. CASE Reconcile BY <1>8 DEF Reconcile, Step, Undo
  <1>9. CASE InvalidateCredentials BY <1>9 DEF InvalidateCredentials, Step, Undo
  <1>10. CASE RestoreFiles BY <1>10 DEF RestoreFiles, Undo
  <1>11. CASE Validate BY <1>11 DEF Validate, Undo
  <1>12. CASE Panic BY <1>12 DEF Panic, Undo
  <1>13. CASE RecordCommit BY <1>13 DEF RecordCommit, Latch
  <1>14. CASE EnsureDurable BY <1>14 DEF EnsureDurable, Latch
  <1>15. CASE RollbackDatabase BY <1>15 DEF RollbackDatabase, Undone
  <1>16. CASE RollbackFiles BY <1>16 DEF RollbackFiles, Undone, PartlyUndone
  <1>17. CASE Start BY <1>17 DEF Start
  <1>18. CASE Decide BY <1>18 DEF Decide, GiveUp
  <1>19. CASE SwapDatabase BY <1>19 DEF SwapDatabase
  <1>20. CASE ReplayJournal BY <1>20 DEF ReplayJournal, GiveUp, PartlyUndone
  <1>21. CASE RecoveryFails BY <1>21 DEF RecoveryFails, GiveUp
  <1>22. CASE RenameMarker BY <1>22 DEF RenameMarker, Target, MarkerLabel
  <1>23. CASE SyncMarker BY <1>23 DEF SyncMarker, Target, After, MarkerLabel, Answer
  <1>24. CASE MarkerFails BY <1>24 DEF MarkerFails, Target, MarkerLabel, MarkerFailure, Abort,
      Latch, GiveUp
  <1>25. CASE CleanJournal BY <1>25 DEF CleanJournal
  <1>26. CASE CleanSafety BY <1>26 DEF CleanSafety
  <1>27. CASE CleanupFails BY <1>27 DEF CleanupFails, GiveUp, Latch
  <1>28. CASE Crash BY <1>28 DEF Crash, Stop
  <1>29. CASE Restart BY <1>29 DEF Restart, Stop
  <1>30. CASE UNCHANGED vars BY <1>30 DEF vars
  <1> QED BY <1>1, <1>2, <1>3, <1>4, <1>5, <1>6, <1>7, <1>8, <1>9, <1>10, <1>11, <1>12, <1>13,
      <1>14, <1>15, <1>16, <1>17, <1>18, <1>19, <1>20, <1>21, <1>22, <1>23, <1>24, <1>25, <1>26,
      <1>27, <1>28, <1>29, <1>30
         DEF Next, Engine, Recovery, Common

LEMMA RecordedKept == Recorded /\ [Next]_vars => Recorded'
  <1> SUFFICES ASSUME Recorded, [Next]_vars PROVE Recorded' OBVIOUS
  <1> USE BoundsAreNaturals, SwitchesAreBoolean DEF Recorded, Artifact, Phase
  <1>1. CASE StartRestore BY <1>1 DEF StartRestore
  <1>2. CASE Snapshot BY <1>2 DEF Snapshot, Abort
  <1>3. CASE SnapshotFiles BY <1>3 DEF SnapshotFiles, Abort
  <1>4. CASE BindJournal BY <1>4 DEF BindJournal, Abort
  <1>5. CASE ReadOwners BY <1>5 DEF ReadOwners, Abort
  <1>6. CASE Copy BY <1>6 DEF Copy, Step, Undo
  <1>7. CASE Migrate BY <1>7 DEF Migrate, Step, Undo
  <1>8. CASE Reconcile BY <1>8 DEF Reconcile, Step, Undo
  <1>9. CASE InvalidateCredentials BY <1>9 DEF InvalidateCredentials, Step, Undo
  <1>10. CASE RestoreFiles BY <1>10 DEF RestoreFiles, Undo
  <1>11. CASE Validate BY <1>11 DEF Validate, Undo
  <1>12. CASE Panic BY <1>12 DEF Panic, Undo
  <1>13. CASE RecordCommit BY <1>13 DEF RecordCommit, Latch
  <1>14. CASE EnsureDurable BY <1>14 DEF EnsureDurable, Latch
  <1>15. CASE RollbackDatabase BY <1>15 DEF RollbackDatabase, Undone
  <1>16. CASE RollbackFiles BY <1>16 DEF RollbackFiles, Undone, PartlyUndone
  <1>17. CASE Start BY <1>17 DEF Start
  <1>18. CASE Decide BY <1>18 DEF Decide, GiveUp
  <1>19. CASE SwapDatabase BY <1>19 DEF SwapDatabase
  <1>20. CASE ReplayJournal BY <1>20 DEF ReplayJournal, GiveUp, PartlyUndone
  <1>21. CASE RecoveryFails BY <1>21 DEF RecoveryFails, GiveUp
  <1>22. CASE RenameMarker BY <1>22 DEF RenameMarker, Target, MarkerLabel
  <1>23. CASE SyncMarker BY <1>23 DEF SyncMarker, Target, After, MarkerLabel, Answer
  <1>24. CASE MarkerFails BY <1>24 DEF MarkerFails, Target, MarkerLabel, MarkerFailure, Abort,
      Latch, GiveUp
  <1>25. CASE CleanJournal BY <1>25 DEF CleanJournal
  <1>26. CASE CleanSafety BY <1>26 DEF CleanSafety
  <1>27. CASE CleanupFails BY <1>27 DEF CleanupFails, GiveUp, Latch
  <1>28. CASE Crash BY <1>28 DEF Crash, Stop
  <1>29. CASE Restart BY <1>29 DEF Restart, Stop
  <1>30. CASE UNCHANGED vars BY <1>30 DEF vars
  <1> QED BY <1>1, <1>2, <1>3, <1>4, <1>5, <1>6, <1>7, <1>8, <1>9, <1>10, <1>11, <1>12, <1>13,
      <1>14, <1>15, <1>16, <1>17, <1>18, <1>19, <1>20, <1>21, <1>22, <1>23, <1>24, <1>25, <1>26,
      <1>27, <1>28, <1>29, <1>30
         DEF Next, Engine, Recovery, Common

LEMMA TypeKept == TypeOK /\ [Next]_vars => TypeOK'
  BY LocatedKept, CountedKept, SwitchedKept, RecordedKept DEF TypeOK, Located, Counted,
     Switched, Recorded

----------------------------------------------------------------------------
(* Every action keeps the rest of the invariant.                             *)

USE BoundsAreNaturals, SwitchesAreBoolean
    DEF Sound, TypeOK, NotStarted, EngineReady, CleanIsSettled, MarkerTellsTruth, AnswerIsLast,
        ServingIsSettled, MutationIsReversible, CommittedStateIsWhole, Reversible, Restored,
        Untouched, HasFiles, Mutating, Preparing, EngineLabel, CleanLabel, RecoveryLabel, Artifact,
        Phase

LEMMA StartRestoreKeeps == TypeOK /\ Sound /\ StartRestore => Sound'
  BY DEF StartRestore

LEMMA SnapshotKeeps == TypeOK /\ Sound /\ Snapshot => Sound'
  BY DEF Snapshot, Abort

LEMMA SnapshotFilesKeeps == TypeOK /\ Sound /\ SnapshotFiles => Sound'
  BY DEF SnapshotFiles, Abort

LEMMA BindJournalKeeps == TypeOK /\ Sound /\ BindJournal => Sound'
  BY DEF BindJournal, Abort

LEMMA ReadOwnersKeeps == TypeOK /\ Sound /\ ReadOwners => Sound'
  BY DEF ReadOwners, Abort

LEMMA CopyKeeps == TypeOK /\ Sound /\ Copy => Sound'
  BY DEF Copy, Step, Undo

LEMMA MigrateKeeps == TypeOK /\ Sound /\ Migrate => Sound'
  BY DEF Migrate, Step, Undo

LEMMA ReconcileKeeps == TypeOK /\ Sound /\ Reconcile => Sound'
  BY DEF Reconcile, Step, Undo

LEMMA InvalidateCredentialsKeeps == TypeOK /\ Sound /\ InvalidateCredentials => Sound'
  BY DEF InvalidateCredentials, Step, Undo

LEMMA RestoreFilesKeeps == TypeOK /\ Sound /\ RestoreFiles => Sound'
  <1> SUFFICES ASSUME TypeOK, Sound, RestoreFiles PROVE Sound' OBVIOUS
  <1>1. CASE archive = "files" BY <1>1 DEF RestoreFiles, Undo
  <1>2. CASE archive # "files" BY <1>2 DEF RestoreFiles, Undo
  <1> QED BY <1>1, <1>2

LEMMA ValidateKeeps == TypeOK /\ Sound /\ Validate => Sound'
  <1> SUFFICES ASSUME TypeOK, Sound, Validate PROVE Sound' OBVIOUS
  <1>1. CASE archive = "files" BY <1>1 DEF Validate, Undo
  <1>2. CASE archive # "files" BY <1>2 DEF Validate, Undo
  <1> QED BY <1>1, <1>2

LEMMA PanicKeeps == TypeOK /\ Sound /\ Panic => Sound'
  <1> SUFFICES ASSUME TypeOK, Sound, Panic PROVE Sound' OBVIOUS
  <1>1. CASE archive = "files" BY <1>1 DEF Panic, Undo
  <1>2. CASE archive # "files" BY <1>2 DEF Panic, Undo
  <1> QED BY <1>1, <1>2

LEMMA RecordCommitKeeps == TypeOK /\ Sound /\ RecordCommit => Sound'
  BY DEF RecordCommit, Latch

LEMMA EnsureDurableKeeps == TypeOK /\ Sound /\ EnsureDurable => Sound'
  BY DEF EnsureDurable, Latch

LEMMA RollbackDatabaseKeeps == TypeOK /\ Sound /\ RollbackDatabase => Sound'
  BY DEF RollbackDatabase, Undone

LEMMA RollbackFilesKeeps == TypeOK /\ Sound /\ RollbackFiles => Sound'
  BY DEF RollbackFiles, Undone, PartlyUndone

LEMMA StartKeeps == TypeOK /\ Sound /\ Start => Sound'
  BY DEF Start

LEMMA DecideKeeps == TypeOK /\ Sound /\ Decide => Sound'
  <1> SUFFICES ASSUME TypeOK, Sound, Decide PROVE Sound' OBVIOUS
  <1>1. CASE marker = "none" BY <1>1 DEF Decide, GiveUp
  <1>2. CASE marker = "prepared" BY <1>2 DEF Decide, GiveUp
  <1>3. CASE marker \notin {"none", "prepared"} BY <1>3 DEF Decide, GiveUp
  <1> QED BY <1>1, <1>2, <1>3

LEMMA SwapDatabaseKeeps == TypeOK /\ Sound /\ SwapDatabase => Sound'
  BY DEF SwapDatabase

LEMMA ReplayJournalKeeps == TypeOK /\ Sound /\ ReplayJournal => Sound'
  <1> SUFFICES ASSUME TypeOK, Sound, ReplayJournal PROVE Sound' OBVIOUS
  <1>1. CASE files' = "old" BY <1>1 DEF ReplayJournal, GiveUp, PartlyUndone
  <1>2. CASE files' # "old" BY <1>2 DEF ReplayJournal, GiveUp, PartlyUndone
  <1> QED BY <1>1, <1>2

LEMMA RecoveryFailsKeeps == TypeOK /\ Sound /\ RecoveryFails => Sound'
  BY DEF RecoveryFails, GiveUp

LEMMA RenameMarkerKeeps == TypeOK /\ Sound /\ RenameMarker => Sound'
  BY DEF RenameMarker, Target, MarkerLabel

LEMMA SyncMarkerKeeps == TypeOK /\ Sound /\ SyncMarker => Sound'
  <1> SUFFICES ASSUME TypeOK, Sound, SyncMarker PROVE Sound' OBVIOUS
  <1>1. CASE pc = "begin" BY <1>1 DEF SyncMarker, Target, After, Answer
  <1>2. CASE pc = "prepare" BY <1>2 DEF SyncMarker, Target, After, Answer
  <1>3. CASE pc = "commit" BY <1>3 DEF SyncMarker, Target, After, Answer
  <1>4. CASE pc = "resolve" BY <1>4 DEF SyncMarker, Target, After, Answer
  <1>5. CASE pc = "clean_marker" BY <1>5 DEF SyncMarker, Target, After, Answer
  <1> QED BY <1>1, <1>2, <1>3, <1>4, <1>5 DEF SyncMarker, MarkerLabel

LEMMA MarkerFailsKeeps == TypeOK /\ Sound /\ MarkerFails => Sound'
  BY DEF MarkerFails, Target, MarkerLabel, MarkerFailure, Abort, Latch, GiveUp

LEMMA CleanJournalKeeps == TypeOK /\ Sound /\ CleanJournal => Sound'
  BY DEF CleanJournal

LEMMA CleanSafetyKeeps == TypeOK /\ Sound /\ CleanSafety => Sound'
  BY DEF CleanSafety

LEMMA CleanupFailsKeeps == TypeOK /\ Sound /\ CleanupFails => Sound'
  BY DEF CleanupFails, GiveUp, Latch

LEMMA CrashKeeps == TypeOK /\ Sound /\ Crash => Sound'
  BY DEF Crash, Stop

LEMMA RestartKeeps == TypeOK /\ Sound /\ Restart => Sound'
  BY DEF Restart, Stop

----------------------------------------------------------------------------
(* Theorems *)

HIDE DEF Sound, TypeOK, NotStarted, EngineReady, CleanIsSettled, MarkerTellsTruth, AnswerIsLast,
        ServingIsSettled, MutationIsReversible, CommittedStateIsWhole, Reversible, Restored,
        Untouched, HasFiles, Mutating, Preparing, EngineLabel, CleanLabel, RecoveryLabel, Artifact,
        Phase, world, copies, phase, request, Goto, Fault

LEMMA InvariantKept == IInv /\ [Next]_vars => IInv'
  <1> SUFFICES ASSUME TypeOK, Sound, [Next]_vars PROVE TypeOK' /\ Sound' BY DEF IInv
  <1>1. TypeOK' BY TypeKept
  <1>2. CASE UNCHANGED vars
    BY <1>1, <1>2 DEF vars, world, copies, phase, request, Sound, NotStarted, EngineReady,
       CleanIsSettled,
       MarkerTellsTruth, AnswerIsLast, ServingIsSettled, MutationIsReversible,
           CommittedStateIsWhole,
       Reversible, Restored, Untouched, HasFiles
  <1>3. CASE Engine
    BY <1>1, <1>3, SnapshotKeeps, SnapshotFilesKeeps, BindJournalKeeps, ReadOwnersKeeps,
       CopyKeeps, MigrateKeeps, ReconcileKeeps, InvalidateCredentialsKeeps, RestoreFilesKeeps,
       ValidateKeeps, PanicKeeps, RecordCommitKeeps, EnsureDurableKeeps, RollbackDatabaseKeeps,
       RollbackFilesKeeps
    DEF Engine
  <1>4. CASE Recovery BY <1>1, <1>4, StartKeeps, DecideKeeps, SwapDatabaseKeeps,
      ReplayJournalKeeps, RecoveryFailsKeeps DEF Recovery
  <1>5. CASE Common
    BY <1>1, <1>5, RenameMarkerKeeps, SyncMarkerKeeps, MarkerFailsKeeps, CleanJournalKeeps,
       CleanSafetyKeeps, CleanupFailsKeeps
    DEF Common
  <1>6. CASE StartRestore \/ Crash \/ Restart BY <1>1, <1>6, StartRestoreKeeps, CrashKeeps,
      RestartKeeps
  <1> QED BY <1>1, <1>2, <1>3, <1>4, <1>5, <1>6 DEF Next

(* The inductive invariant: at each step, what the engine or the recovery    *)
(* relies on is what the steps and the crashes before it left behind.        *)
THEOREM InductiveInvariant == Spec => []IInv
  <1>1. Init => TypeOK
    <2>1. Init => Located BY DEF Init, Located
    <2>2. Init => Counted BY BoundsAreNaturals DEF Init, Counted
    <2>3. Init => Switched /\ Recorded BY DEF Init, Switched, Recorded, Artifact, Phase
    <2> QED BY <2>1, <2>2, <2>3 DEF TypeOK, Located, Counted, Switched, Recorded
  <1>2. Init => Sound
    BY DEF Init, Sound, NotStarted, EngineReady, CleanIsSettled, MarkerTellsTruth, AnswerIsLast,
           ServingIsSettled, MutationIsReversible, CommittedStateIsWhole, Untouched, HasFiles,
           Mutating, Preparing, EngineLabel, CleanLabel, RecoveryLabel
  <1> QED BY <1>1, <1>2, InvariantKept, PTL DEF Spec, IInv

(* Every variable keeps its type.                                            *)
THEOREM TypeCorrect == Spec => []TypeOK
  <1>1. IInv => TypeOK BY DEF IInv
  <1> QED BY <1>1, InductiveInvariant, PTL

(* Whatever fails or crashes, an undecided change of live data can be undone *)
(* from what is on disk, with startup recovery or without it.                *)
THEOREM Reversibility == Spec => []MutationIsReversible
  <1>1. IInv => MutationIsReversible BY DEF IInv, Sound
  <1> QED BY <1>1, InductiveInvariant, PTL

(* The ledger row is only ever found in a whole, credential-free restored    *)
(* world.                                                                    *)
THEOREM CommitIsWhole == Spec => []CommittedStateIsWhole
  <1>1. IInv => CommittedStateIsWhole BY DEF IInv, Sound
  <1> QED BY <1>1, InductiveInvariant, PTL

(* No later crash or recovery contradicts the answer given.                  *)
THEOREM AnswersHold == Spec => []PromiseKept
  <1>1. IInv => PromiseKept
    BY DEF IInv, Sound, TypeOK, AnswerIsLast, MutationIsReversible, CommittedStateIsWhole,
       PromiseKept
  <1> QED BY <1>1, InductiveInvariant, PTL

LEMMA SettledWhenServing == RecoverOnStart /\ IInv => ServedStateIsWhole
  BY DEF IInv, Sound, ServingIsSettled, MutationIsReversible, CommittedStateIsWhole,
     ServedStateIsWhole

(* With the recovery called at startup, writers never meet a mixture.        *)
THEOREM ServedWhole == ASSUME RecoverOnStart PROVE Spec => []ServedStateIsWhole
  <1>1. IInv => ServedStateIsWhole BY SettledWhenServing
  <1> QED BY <1>1, InductiveInvariant, PTL

----------------------------------------------------------------------------
(* What is left on disk.                                                     *)

(* The copies go before the marker that leads to them does, and no marker    *)
(* that asks for them can come back after that.                              *)
Tidy ==
    /\ archive = "none" => safety = "none"
    /\ archive = "none" \/ pc \in {"begin", "snapshot"} => journal = "none"
    /\ pc \in {"clean_journal", "clean_safety"} =>
           marker \in {"preparing", "rolled_back", "committed"}
    /\ pc = "clean_safety" => journal = "none"
    /\ pc = "clean_marker" => /\ journal = "none" /\ safety # "complete"
                              /\ marker # "prepared" /\ durable # "prepared"
    /\ marker = "none" \/ durable = "none" => journal = "none" /\ safety # "complete"
    /\ marker = "none" => durable # "prepared"

(* Every step keeps what is on disk in that order, if the last sync of a     *)
(* prepared marker does not fail.                                            *)
LEMMA TidyKept ==
    ASSUME RecoverOnStart, ~PrepareSyncFails, IInv, Tidy, [Next]_vars
    PROVE  Tidy'
  <1> USE DEF IInv, TypeOK, Sound, NotStarted, EngineReady, CleanIsSettled, ServingIsSettled,
              Mutating, Artifact, Phase, Tidy, Fault, Goto, world, copies, phase, request
  <1>1. CASE StartRestore BY <1>1 DEF StartRestore
  <1>2. CASE Snapshot BY <1>2 DEF Snapshot, Abort
  <1>3. CASE SnapshotFiles BY <1>3 DEF SnapshotFiles, Abort
  <1>4. CASE BindJournal BY <1>4 DEF BindJournal, Abort
  <1>5. CASE ReadOwners BY <1>5 DEF ReadOwners, Abort
  <1>6. CASE Copy BY <1>6 DEF Copy, Step, Undo
  <1>7. CASE Migrate BY <1>7 DEF Migrate, Step, Undo
  <1>8. CASE Reconcile BY <1>8 DEF Reconcile, Step, Undo
  <1>9. CASE InvalidateCredentials BY <1>9 DEF InvalidateCredentials, Step, Undo
  <1>10. CASE RestoreFiles BY <1>10 DEF RestoreFiles, Undo
  <1>11. CASE Validate BY <1>11 DEF Validate, Undo
  <1>12. CASE Panic BY <1>12 DEF Panic, Undo
  <1>13. CASE RecordCommit BY <1>13 DEF RecordCommit, Latch
  <1>14. CASE EnsureDurable BY <1>14 DEF EnsureDurable, Latch
  <1>15. CASE RollbackDatabase BY <1>15 DEF RollbackDatabase, Undone
  <1>16. CASE RollbackFiles BY <1>16 DEF RollbackFiles, Undone, PartlyUndone
  <1>17. CASE Start BY <1>17 DEF Start
  <1>18. CASE Decide BY <1>18 DEF Decide, GiveUp
  <1>19. CASE SwapDatabase BY <1>19 DEF SwapDatabase
  <1>20. CASE ReplayJournal BY <1>20 DEF ReplayJournal, GiveUp, PartlyUndone
  <1>21. CASE RecoveryFails BY <1>21 DEF RecoveryFails, GiveUp
  <1>22. CASE RenameMarker BY <1>22 DEF RenameMarker, Target, MarkerLabel
  <1>23. CASE SyncMarker BY <1>23 DEF SyncMarker, Target, After, MarkerLabel, Answer
  <1>24. CASE MarkerFails BY <1>24 DEF MarkerFails, Target, MarkerLabel, MarkerFailure, Abort,
      Latch, GiveUp
  <1>25. CASE CleanJournal BY <1>25 DEF CleanJournal
  <1>26. CASE CleanSafety BY <1>26 DEF CleanSafety
  <1>27. CASE CleanupFails BY <1>27 DEF CleanupFails, GiveUp, Latch
  <1>28. CASE Crash BY <1>28 DEF Crash, Stop
  <1>29. CASE Restart BY <1>29 DEF Restart, Stop
  <1>30. CASE UNCHANGED vars BY <1>30 DEF vars
  <1> QED BY <1>1, <1>2, <1>3, <1>4, <1>5, <1>6, <1>7, <1>8, <1>9, <1>10, <1>11, <1>12, <1>13,
      <1>14, <1>15, <1>16, <1>17, <1>18, <1>19, <1>20, <1>21, <1>22, <1>23, <1>24, <1>25, <1>26,
      <1>27, <1>28, <1>29, <1>30
         DEF Next, Engine, Recovery, Common

(* With the recovery called at startup, no artifact of a restore is left when *)
(* writers are admitted, nor can a power loss bring one back that would undo  *)
(* what has been written since.  A sync of the prepared marker that fails     *)
(* after its rename would break it: the clean-up then runs under that marker. *)
THEOREM NothingIsLeft ==
    ASSUME RecoverOnStart, ~PrepareSyncFails
    PROVE  Spec => []NothingLeftBehind
  <1>1. Init => Tidy BY DEF Init, Tidy
  <1>2. IInv /\ Tidy /\ [Next]_vars => Tidy' BY TidyKept
  <1>3. IInv /\ Tidy => NothingLeftBehind
    BY DEF IInv, Sound, ServingIsSettled, Tidy, NothingLeftBehind
  <1> QED BY <1>1, <1>2, <1>3, InductiveInvariant, PTL DEF Spec

----------------------------------------------------------------------------
(* The promise of AtomicRestore.                                             *)

(* The commit decision is taken once, while nobody writes, and the world does *)
(* not move while it is served.                                              *)
LEMMA DecidedWhileHidden ==
    ASSUME IInv, [Next]_vars
    PROVE  /\ ledger' # ledger => ~ledger /\ ledger' /\ pc # "serving" /\ pc' # "serving"
           /\ pc = "serving" /\ pc' = "serving" => UNCHANGED <<world, archive>>
  <1> USE DEF Fault, Goto, world, request, phase, copies, IInv, Sound, TypeOK, EngineReady
  <1>1. CASE StartRestore BY <1>1 DEF StartRestore
  <1>2. CASE Snapshot BY <1>2 DEF Snapshot, Abort
  <1>3. CASE SnapshotFiles BY <1>3 DEF SnapshotFiles, Abort
  <1>4. CASE BindJournal BY <1>4 DEF BindJournal, Abort
  <1>5. CASE ReadOwners BY <1>5 DEF ReadOwners, Abort
  <1>6. CASE Copy BY <1>6 DEF Copy, Step, Undo
  <1>7. CASE Migrate BY <1>7 DEF Migrate, Step, Undo
  <1>8. CASE Reconcile BY <1>8 DEF Reconcile, Step, Undo
  <1>9. CASE InvalidateCredentials BY <1>9 DEF InvalidateCredentials, Step, Undo
  <1>10. CASE RestoreFiles BY <1>10 DEF RestoreFiles, Undo
  <1>11. CASE Validate BY <1>11 DEF Validate, Undo
  <1>12. CASE Panic BY <1>12 DEF Panic, Undo
  <1>13. CASE RecordCommit BY <1>13 DEF RecordCommit, Latch, Mutating
  <1>14. CASE EnsureDurable BY <1>14 DEF EnsureDurable, Latch
  <1>15. CASE RollbackDatabase BY <1>15 DEF RollbackDatabase, Undone
  <1>16. CASE RollbackFiles BY <1>16 DEF RollbackFiles, Undone, PartlyUndone
  <1>17. CASE Start BY <1>17 DEF Start
  <1>18. CASE Decide BY <1>18 DEF Decide, GiveUp
  <1>19. CASE SwapDatabase BY <1>19 DEF SwapDatabase
  <1>20. CASE ReplayJournal BY <1>20 DEF ReplayJournal, GiveUp, PartlyUndone
  <1>21. CASE RecoveryFails BY <1>21 DEF RecoveryFails, GiveUp
  <1>22. CASE RenameMarker BY <1>22 DEF RenameMarker, Target, MarkerLabel
  <1>23. CASE SyncMarker BY <1>23 DEF SyncMarker, Target, After, MarkerLabel, Answer
  <1>24. CASE MarkerFails BY <1>24 DEF MarkerFails, Target, MarkerLabel, MarkerFailure, Abort,
      Latch, GiveUp
  <1>25. CASE CleanJournal BY <1>25 DEF CleanJournal
  <1>26. CASE CleanSafety BY <1>26 DEF CleanSafety
  <1>27. CASE CleanupFails BY <1>27 DEF CleanupFails, GiveUp, Latch
  <1>28. CASE Crash BY <1>28 DEF Crash, Stop
  <1>29. CASE Restart BY <1>29 DEF Restart, Stop
  <1>30. CASE UNCHANGED vars BY <1>30 DEF vars
  <1> QED BY <1>1, <1>2, <1>3, <1>4, <1>5, <1>6, <1>7, <1>8, <1>9, <1>10, <1>11, <1>12, <1>13,
      <1>14, <1>15, <1>16, <1>17, <1>18, <1>19, <1>20, <1>21, <1>22, <1>23, <1>24, <1>25, <1>26,
      <1>27, <1>28, <1>29, <1>30
         DEF Next, Engine, Recovery, Common

LEMMA ServedIsDecided ==
    ASSUME RecoverOnStart, IInv, pc = "serving"
    PROVE  View = IF ledger THEN "new" ELSE "old"
  BY DEF IInv, Sound, ServingIsSettled, MutationIsReversible, CommittedStateIsWhole, View,
         Restored, Untouched

LEMMA StepRefines ==
    ASSUME RecoverOnStart, IInv, IInv', [Next]_vars
    PROVE  [Promise!Next]_<<View, ledger>>
  <1> USE DEF Promise!Next, Promise!Hide, Promise!Commit, Promise!Show
  <1>1. pc # "serving" => View = "hidden" BY DEF View
  <1>2. pc' # "serving" => View' = "hidden" BY DEF View
  <1>3. pc = "serving" => View = IF ledger THEN "new" ELSE "old" BY ServedIsDecided
  <1>4. pc' = "serving" => View' = IF ledger' THEN "new" ELSE "old"
    BY DEF IInv, Sound, ServingIsSettled, MutationIsReversible, CommittedStateIsWhole, View,
           Restored, Untouched, HasFiles
  <1>5. ledger \in BOOLEAN /\ ledger' \in BOOLEAN BY DEF IInv, TypeOK
  <1> QED BY <1>1, <1>2, <1>3, <1>4, <1>5, DecidedWhileHidden

(* The engine with its startup recovery implements the abstract restore.     *)
THEOREM RestoreIsAtomic == ASSUME RecoverOnStart PROVE Spec => ImplementsAtomicRestore
  <1>1. Init => Promise!Init BY DEF Init, Promise!Init, View, Restored, Untouched
  <1>2. IInv /\ IInv' /\ [Next]_vars => [Promise!Next]_<<View, ledger>> BY StepRefines
  <1> QED BY <1>1, <1>2, InductiveInvariant, PTL DEF Spec, ImplementsAtomicRestore, Promise!Spec

=============================================================================
