-------------------------- MODULE RestoreRecovery --------------------------
(* One replacement restore (executeRestoreEngine in server.go), the durable  *)
(* artifacts it keeps beside the database, crashes between any two of its    *)
(* steps, and the startup recovery that reads those artifacts                *)
(* (RecoverPendingRestoresBeforeOpen in restore_recovery.go).                *)
(*                                                                           *)
(* A marker file carries the phase of the operation. It is published by a    *)
(* rename and a sync of its directory: between the two, `marker` is what the *)
(* process sees and `durable` what a power loss may fall back to. The file   *)
(* system is assumed to journal metadata in order: when a later rename or    *)
(* removal has reached the disk, so has the rename of the marker before it.  *)
EXTENDS Naturals

CONSTANTS
    RecoverOnStart,      \* startup calls the recovery (main.go does not)
    PrepareSyncFails,    \* the directory sync in markPrepared may fail
    MaxFaults,           \* bound: steps that fail
    MaxCrashes           \* bound: crashes

ASSUME BoundsAreNaturals == MaxFaults \in Nat /\ MaxCrashes \in Nat
ASSUME SwitchesAreBoolean == RecoverOnStart \in BOOLEAN /\ PrepareSyncFails \in BOOLEAN

VARIABLES
    pc,         \* the step about to run, or "serving", "latched", "down"
    recovering, \* the clean-up steps run on behalf of the startup recovery
    returnErr,  \* the engine's error: "none", "plain" or "rollback" (restoreRollbackFailure)
    undoFiles,  \* failRestoreAndRollback was handed the attachment journal
    told,       \* the answer to the administrator
    archive,    \* what the archive holds; "none" until a restore starts
    db,         \* the live database
    ledger,     \* its restore_operations row, the commit decision
    files,      \* the attachment objects in live storage
    safety,     \* the safety backup of the database
    journal,    \* the attachment rollback journal
    marker,     \* the phase in the marker file, "none" when there is no file
    durable,    \* the phase a crash may fall back to
    faults,     \* failures so far
    crashes     \* crashes so far

world == <<db, ledger, files>>
copies == <<safety, journal>>
phase == <<marker, durable>>
request == <<returnErr, undoFiles, told, archive>>
vars == <<pc, recovering, request, world, copies, phase, faults, crashes>>

Artifact == {"none", "partial", "complete"}
Phase == {"none", "preparing", "prepared", "committed", "rolled_back"}
EngineLabel == {"begin", "snapshot", "journal", "bind", "prepare", "owners", "copy", "migrate",
                "reconcile", "invalidate", "attach", "validate", "ledger", "sync_db", "commit",
                "undo_db", "undo_files"}
CleanLabel == {"resolve", "clean_journal", "clean_safety", "clean_marker"}
RecoveryLabel == {"discover", "swap", "replay"}

Init ==
    /\ pc = "serving" /\ recovering = FALSE /\ returnErr = "none" /\ undoFiles = FALSE
    /\ told = "none" /\ archive = "none"
    /\ db = "old" /\ ledger = FALSE /\ files = "old"
    /\ safety = "none" /\ journal = "none" /\ marker = "none" /\ durable = "none"
    /\ faults = 0 /\ crashes = 0

HasFiles == archive = "files"
Restored == db = "usable" /\ files = IF HasFiles THEN "new" ELSE "old"
Untouched == db = "old" /\ files = "old"

Goto(label) == pc' = label
Fault == faults < MaxFaults /\ faults' = faults + 1

(* A restoreRollbackFailure: every artifact is retained and the gate stays shut. *)
Latch ==
    Goto("latched") /\ returnErr' = "rollback" /\ told' = "manual" /\ UNCHANGED <<undoFiles, archive>>
(* A plain error: the deferred clean-up registered so far runs. *)
Abort(label) == Goto(label) /\ returnErr' = "plain" /\ UNCHANGED <<undoFiles, told, archive>>
Undo(withFiles) ==
    /\ Goto("undo_db") /\ returnErr' = "plain"
    /\ undoFiles' = withFiles /\ UNCHANGED <<told, archive>>
(* The recovery returns its error and the process does not come up. *)
GiveUp == Goto("down") /\ recovering' = FALSE /\ UNCHANGED request

----------------------------------------------------------------------------
(* The marker file *)

(* A mistake: the outcome of an undone restore is not written down.          *)
TargetUnresolved ==
    CASE pc = "begin" -> "preparing"
      [] pc \in {"prepare", "resolve"} -> "prepared"
      [] pc = "commit" -> "committed"
      [] OTHER -> "none"

Target ==
    CASE pc = "begin" -> "preparing"
      [] pc = "prepare" -> "prepared"
      [] pc = "commit" -> "committed"
      [] pc = "resolve" -> IF ledger THEN "committed" ELSE "rolled_back"
      [] OTHER -> "none"
After ==
    CASE pc = "begin" -> "snapshot"
      [] pc = "prepare" -> "owners"
      [] pc = "commit" -> "clean_journal"
      [] pc = "resolve" -> "clean_journal"
      [] OTHER -> "serving"
MarkerLabel == {"begin", "prepare", "commit", "resolve", "clean_marker"}

RenameMarker ==
    /\ pc \in MarkerLabel /\ marker # Target
    /\ marker' = Target
    /\ UNCHANGED <<pc, recovering, request, world, copies, durable, faults, crashes>>

Answer ==
    IF pc = "clean_marker" /\ ~recovering
    THEN told' = (IF returnErr = "none" THEN "restored" ELSE "undone")
    ELSE UNCHANGED told

SyncMarker ==
    /\ pc \in MarkerLabel /\ marker = Target
    /\ durable' = marker
    /\ Goto(After) /\ Answer
    /\ recovering' = (recovering /\ pc # "clean_marker")
    /\ UNCHANGED <<returnErr, undoFiles, archive, world, copies, marker, faults, crashes>>

(* How each caller answers a marker write that failed, before or after the rename. *)
MarkerFailure ==
    \/ recovering /\ GiveUp
    \/ ~recovering /\ pc = "begin" /\ marker # Target /\ Abort("clean_marker") /\ UNCHANGED recovering
    \/ ~recovering /\ pc = "begin" /\ marker = Target /\ Latch /\ UNCHANGED recovering
    \/ pc = "prepare" /\ Abort("clean_journal") /\ UNCHANGED recovering
    \/ ~recovering /\ pc \in {"commit", "resolve", "clean_marker"} /\ Latch /\ UNCHANGED recovering

MarkerFails ==
    /\ pc \in MarkerLabel /\ Fault
    /\ pc = "prepare" /\ marker = Target => PrepareSyncFails
    /\ MarkerFailure
    /\ UNCHANGED <<world, copies, phase, crashes>>

----------------------------------------------------------------------------
(* The restore engine, up to the first change of live data *)

StartRestore ==
    /\ pc = "serving" /\ archive = "none"
    /\ archive' \in {"database", "files"}
    /\ Goto("begin")
    /\ UNCHANGED <<recovering, returnErr, undoFiles, told, world, copies, phase, faults, crashes>>

(* A mistake: going on as soon as the file of the safety backup exists.      *)
SnapshotUnfinished ==
    /\ pc = "snapshot" /\ safety = "none" /\ safety' = "partial"
    /\ Goto(IF HasFiles THEN "journal" ELSE "prepare")
    /\ UNCHANGED <<recovering, request, world, journal, phase, faults, crashes>>

(* prepareSafetyBackup: the file exists, half written, before it is complete. *)
(* On failure it removes the file, ignores an error of that removal, and     *)
(* hands back an empty path, so the deferred clean-up only drops the marker. *)
Snapshot ==
    /\ pc = "snapshot"
    /\ \/ safety = "none" /\ safety' = "partial" /\ UNCHANGED <<pc, request, faults>>
       \/ safety = "partial" /\ safety' = "complete"
          /\ Goto(IF HasFiles THEN "journal" ELSE "prepare") /\ UNCHANGED <<request, faults>>
       \/ Fault /\ Abort("clean_marker") /\ safety' = "none"
       \/ safety = "partial" /\ faults + 1 < MaxFaults /\ faults' = faults + 2
          /\ Abort("clean_marker") /\ UNCHANGED safety
    /\ UNCHANGED <<recovering, world, journal, phase, crashes>>

(* prepareAttachmentRollbackJournal *)
SnapshotFiles ==
    /\ pc = "journal"
    /\ \/ journal = "none" /\ journal' = "partial" /\ UNCHANGED <<pc, request, faults>>
       \/ journal = "partial" /\ journal' = "complete" /\ Goto("bind") /\ UNCHANGED <<request, faults>>
       \/ Fault /\ Abort("clean_journal") /\ UNCHANGED journal
    /\ UNCHANGED <<recovering, world, safety, phase, crashes>>

(* attachJournal rewrites the preparing marker and moves it into the journal. *)
BindJournal ==
    /\ pc = "bind"
    /\ \/ Goto("prepare") /\ UNCHANGED <<request, faults>>
       \/ Fault /\ Abort("clean_journal")
    /\ UNCHANGED <<recovering, world, copies, phase, crashes>>

----------------------------------------------------------------------------
(* The restore engine, while live data changes *)

ReadOwners ==
    /\ pc = "owners"
    /\ \/ Goto("copy") /\ UNCHANGED <<request, faults>>
       \/ Fault /\ Abort("resolve")
    /\ UNCHANGED <<recovering, world, copies, phase, crashes>>

(* One step on the live database: it takes effect, or fails and is undone.   *)
(* A failed copy may or may not have replaced the image.                     *)
Step(label, from, to, next) ==
    /\ pc = label /\ db = from
    /\ \/ db' = to /\ Goto(next) /\ UNCHANGED <<request, faults>>
       \/ Fault /\ db' \in {from, to} /\ Undo(FALSE)
    /\ UNCHANGED <<recovering, ledger, files, copies, phase, crashes>>

Copy == Step("copy", "old", "copied", "migrate")
Migrate == Step("migrate", "copied", "migrated", "reconcile")
Reconcile == Step("reconcile", "migrated", "reconciled", "invalidate")
InvalidateCredentials ==
    Step("invalidate", "reconciled", "usable", IF HasFiles THEN "attach" ELSE "validate")

(* restoreAttachmentFiles overwrites live objects one by one. *)
RestoreFiles ==
    /\ pc = "attach"
    /\ \/ files = "old" /\ files' = "mixed" /\ UNCHANGED <<pc, request, faults>>
       \/ files = "mixed" /\ files' = "new" /\ Goto("validate") /\ UNCHANGED <<request, faults>>
       \/ Fault /\ Undo(HasFiles) /\ UNCHANGED files
    /\ UNCHANGED <<recovering, db, ledger, copies, phase, crashes>>

Validate ==
    /\ pc = "validate"
    /\ \/ Goto("ledger") /\ UNCHANGED <<request, faults>>
       \/ Fault /\ Undo(HasFiles)
    /\ UNCHANGED <<recovering, world, copies, phase, crashes>>

(* A panic before the commit decision, caught by the engine's own recover(). *)
Panic ==
    /\ pc \in {"owners", "copy", "migrate", "reconcile", "invalidate", "attach", "validate", "ledger"}
    /\ Fault /\ Undo(HasFiles)
    /\ UNCHANGED <<recovering, world, copies, phase, crashes>>

(* A mistake: rolling back after an INSERT whose outcome is unknown.         *)
RecordCommitUndone ==
    /\ pc = "ledger"
    /\ \/ ledger' = TRUE /\ Goto("sync_db") /\ UNCHANGED <<request, faults>>
       \/ Fault /\ ledger' \in BOOLEAN /\ Undo(HasFiles)
    /\ UNCHANGED <<recovering, db, files, copies, phase, crashes>>

(* An INSERT that reports an error may still have committed. *)
RecordCommit ==
    /\ pc = "ledger"
    /\ \/ ledger' = TRUE /\ Goto("sync_db") /\ UNCHANGED <<request, faults>>
       \/ Fault /\ ledger' \in BOOLEAN /\ Latch
    /\ UNCHANGED <<recovering, db, files, copies, phase, crashes>>

EnsureDurable ==
    /\ pc = "sync_db"
    /\ \/ Goto("commit") /\ UNCHANGED <<request, faults>>
       \/ Fault /\ Latch
    /\ UNCHANGED <<recovering, world, copies, phase, crashes>>

----------------------------------------------------------------------------
(* Compensation, in the running process *)

(* failRestoreAndRollback goes on to the attachments when the database part  *)
(* failed, and reports both.                                                 *)
Undone(next) ==
    IF returnErr' = "rollback"
    THEN Goto("latched") /\ told' = "manual"
    ELSE Goto(next) /\ UNCHANGED told

(* A mistake: the error of the database rollback is only logged.             *)
RollbackDatabaseLenient ==
    /\ pc = "undo_db"
    /\ \/ db' = "old" /\ UNCHANGED faults
       \/ Fault /\ UNCHANGED db
    /\ Goto(IF undoFiles THEN "undo_files" ELSE "resolve")
    /\ UNCHANGED <<recovering, request, ledger, files, copies, phase, crashes>>

RollbackDatabase ==
    /\ pc = "undo_db"
    /\ \/ db' = "old" /\ UNCHANGED <<returnErr, faults>>
       \/ Fault /\ db' \in {db, "old"} /\ returnErr' = "rollback"
    /\ IF undoFiles THEN Goto("undo_files") /\ UNCHANGED told ELSE Undone("resolve")
    /\ UNCHANGED <<recovering, undoFiles, archive, ledger, files, copies, phase, crashes>>

PartlyUndone == IF files = "old" THEN {"old"} ELSE {files, "mixed", "old"}

RollbackFiles ==
    /\ pc = "undo_files"
    /\ \/ files' = "old" /\ UNCHANGED <<returnErr, faults>>
       \/ Fault /\ files' \in PartlyUndone /\ returnErr' = "rollback"
    /\ Undone("resolve")
    /\ UNCHANGED <<recovering, undoFiles, archive, db, ledger, copies, phase, crashes>>

----------------------------------------------------------------------------
(* Clean-up: the engine's deferred functions, and finishRecoveredOperation *)

CleanupFails ==
    /\ pc \in {"clean_journal", "clean_safety"} /\ Fault
    /\ \/ recovering /\ GiveUp
       \/ ~recovering /\ Latch /\ UNCHANGED recovering
    /\ UNCHANGED <<world, copies, phase, crashes>>

CleanJournal ==
    /\ pc = "clean_journal"
    /\ \/ journal = "complete" /\ journal' = "partial" /\ durable' = marker /\ UNCHANGED pc
       \/ journal = "partial" /\ journal' = "none" /\ durable' = marker /\ Goto("clean_safety")
       \/ journal = "none" /\ Goto("clean_safety") /\ UNCHANGED <<journal, durable>>
    /\ UNCHANGED <<recovering, request, world, safety, marker, faults, crashes>>

(* A mistake: the database copy is not removed.                              *)
CleanSafetyKeeping ==
    /\ pc = "clean_safety" /\ durable' = marker /\ Goto("clean_marker")
    /\ UNCHANGED <<recovering, request, world, copies, marker, faults, crashes>>

CleanSafety ==
    /\ pc = "clean_safety"
    /\ \/ safety # "none" /\ safety' = "none" /\ UNCHANGED pc
       \/ safety = "none" /\ Goto("clean_marker") /\ UNCHANGED safety
    /\ durable' = marker
    /\ UNCHANGED <<recovering, request, world, journal, marker, faults, crashes>>

----------------------------------------------------------------------------
(* Crash, restart and startup recovery *)

Stop ==
    /\ Goto("down")
    /\ recovering' = FALSE /\ returnErr' = "none" /\ undoFiles' = FALSE
    /\ UNCHANGED <<told, archive, world, copies, faults>>

(* The process dies, or the machine does: then the marker may fall back.     *)
Crash ==
    /\ pc # "down" /\ crashes < MaxCrashes
    /\ marker' \in {marker, durable} /\ durable' \in {marker', durable}
    /\ crashes' = crashes + 1 /\ Stop
Restart == pc = "latched" /\ Stop /\ UNCHANGED <<phase, crashes>>

(* Without the recovery, startup opens the database, migrates it and serves. *)
Start ==
    /\ pc = "down"
    /\ IF RecoverOnStart
       THEN Goto("discover") /\ recovering' = TRUE /\ UNCHANGED db
       ELSE /\ Goto("serving") /\ UNCHANGED recovering
            /\ db' = IF db = "copied" THEN "migrated" ELSE db
    /\ UNCHANGED <<request, ledger, files, copies, phase, faults, crashes>>

Reversible == safety = "complete" /\ (HasFiles => journal = "complete")

Decide ==
    /\ pc = "discover"
    /\ \/ marker = "none" /\ Goto("serving") /\ recovering' = FALSE /\ UNCHANGED request
       \/ marker \in {"preparing", "committed", "rolled_back"} /\ Goto("clean_journal")
          /\ UNCHANGED <<recovering, request>>
       \/ marker = "prepared" /\ ledger /\ Goto("resolve") /\ UNCHANGED <<recovering, request>>
       \/ marker = "prepared" /\ ~ledger /\ Reversible /\ Goto("swap") /\ UNCHANGED <<recovering, request>>
       \/ marker = "prepared" /\ ~ledger /\ ~Reversible /\ GiveUp
    /\ UNCHANGED <<world, copies, phase, faults, crashes>>

(* A mistake: startup puts the database back and forgets the attachments.    *)
SwapDatabaseOnly ==
    /\ pc = "swap"
    /\ \/ db # "torn" /\ db' = "torn" /\ UNCHANGED pc
       \/ db = "torn" /\ db' = "old" /\ Goto("resolve")
    /\ durable' = marker
    /\ UNCHANGED <<recovering, request, ledger, files, copies, marker, faults, crashes>>

(* restoreDatabaseFileFromSafety removes the WAL, then renames the image in. *)
SwapDatabase ==
    /\ pc = "swap"
    /\ \/ db # "torn" /\ db' = "torn" /\ UNCHANGED pc
       \/ db = "torn" /\ db' = "old" /\ Goto(IF HasFiles THEN "replay" ELSE "resolve")
    /\ durable' = marker
    /\ UNCHANGED <<recovering, request, ledger, files, copies, marker, faults, crashes>>

ReplayJournal ==
    /\ pc = "replay"
    /\ \/ files' = "old" /\ Goto("resolve") /\ UNCHANGED <<recovering, request, faults>>
       \/ Fault /\ files' \in PartlyUndone /\ GiveUp
    /\ UNCHANGED <<db, ledger, copies, phase, crashes>>

RecoveryFails ==
    /\ pc \in {"discover", "swap"} /\ Fault /\ GiveUp
    /\ UNCHANGED <<world, copies, phase, crashes>>

----------------------------------------------------------------------------
Engine ==
    \/ Snapshot \/ SnapshotFiles \/ BindJournal \/ ReadOwners
    \/ Copy \/ Migrate \/ Reconcile \/ InvalidateCredentials
    \/ RestoreFiles \/ Validate \/ Panic \/ RecordCommit \/ EnsureDurable
    \/ RollbackDatabase \/ RollbackFiles
Recovery == Start \/ Decide \/ SwapDatabase \/ ReplayJournal \/ RecoveryFails
Common == RenameMarker \/ SyncMarker \/ MarkerFails \/ CleanJournal \/ CleanSafety \/ CleanupFails

Next == StartRestore \/ Engine \/ Recovery \/ Common \/ Crash \/ Restart

(* A running process keeps running, and a supervisor starts a stopped one.   *)
Spec == Init /\ [][Next]_vars /\ WF_vars(Engine \/ Recovery \/ Common)

----------------------------------------------------------------------------
(* Properties *)

(* Types of the control state, of the artifacts and of the two bounds.       *)
TypeOK ==
    /\ pc \in EngineLabel \cup CleanLabel \cup RecoveryLabel \cup {"serving", "latched", "down"}
    /\ recovering \in BOOLEAN /\ undoFiles \in BOOLEAN /\ ledger \in BOOLEAN
    /\ returnErr \in {"none", "plain", "rollback"}
    /\ told \in {"none", "restored", "undone", "manual"}
    /\ archive \in {"none", "database", "files"}
    /\ db \in {"old", "copied", "migrated", "reconciled", "usable", "torn"}
    /\ files \in {"old", "mixed", "new"}
    /\ safety \in Artifact /\ journal \in Artifact
    /\ marker \in Phase /\ durable \in Phase
    /\ faults \in 0 .. MaxFaults /\ crashes \in 0 .. MaxCrashes

(* As long as no commit decision is recorded, every change of live data can  *)
(* be taken back after a crash at any point: both copies are complete and    *)
(* the marker that leads to them is durably "prepared". This is what the     *)
(* order of the engine's steps and of its deferred clean-up is for.          *)
MutationIsReversible ==
    ~ledger /\ ~Untouched => Reversible /\ marker = "prepared" /\ durable = "prepared"

(* A commit decision is recorded only over a database that is migrated, has  *)
(* its restored sessions and links invalidated, and has its attachments.     *)
CommittedStateIsWhole == ledger => Restored

(* Writers get the world from before the restore or the restored one, never  *)
(* a mixture, whatever step failed or crashed ("RecoverPendingRestoresBefore *)
(* Open resolves replacement restores before SQLite is opened or migrated.   *)
(* This is essential because the live database may contain only a partial    *)
(* replacement image after a process crash").                                *)
ServedStateIsWhole == pc = "serving" => Restored \/ Untouched

(* What the administrator was told stays true across every later crash.      *)
PromiseKept ==
    /\ told = "restored" => Restored
    /\ told = "undone" => Untouched

(* When the server accepts writes again, no marker is left, nor can one come *)
(* back, that would undo anything at a later start; no copy of the users'    *)
(* attachments remains, and no complete copy of their database does.         *)
NothingLeftBehind ==
    pc = "serving" => marker = "none" /\ durable # "prepared" /\ journal = "none" /\ safety # "complete"

View ==
    CASE pc # "serving" -> "hidden"
      [] pc = "serving" /\ Restored -> "new"
      [] pc = "serving" /\ Untouched -> "old"
      [] OTHER -> "mixture"

Promise == INSTANCE AtomicRestore WITH view <- View, committed <- ledger

(* The engine and the recovery together keep the promise of AtomicRestore:   *)
(* the ledger row alone decides what is served, and it is never taken back.  *)
ImplementsAtomicRestore == Promise!Spec

(* "A crash anywhere in cleanup can therefore be retried on startup"         *)
(* (server.go, executeRestoreEngine): a stopped server gets to serve again.  *)
CleanupIsRetried == pc = "down" ~> pc = "serving"
=============================================================================
