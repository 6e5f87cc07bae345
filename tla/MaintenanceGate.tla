-------------------------- MODULE MaintenanceGate --------------------------
(***************************************************************************)
(* The process-wide write gate: db.ConcurrencyGuard, the HTTP middleware   *)
(* writeGateMiddleware and the workers' withWriteLease.                    *)
(*                                                                         *)
(* A Writer is an ordinary mutating request or one run of a background     *)
(* worker; a Maintainer is a request whose path executes maintenance       *)
(* (backup download, the restores).  Every access to a mutex or to the     *)
(* atomic state is a step of its own.  Go's RWMutex is the counter of its  *)
(* readers and the writer that has announced itself: TryRLock fails from   *)
(* the announcement on, and Lock returns when the readers are gone.        *)
(* Requests that only read (GET) pass no gate and are not modelled.        *)
(* Init is the process after Migrate, before it serves.                    *)
(***************************************************************************)
EXTENDS Integers, FiniteSets

CONSTANTS Writer, Maintainer, Nobody

ASSUME ThreadsFinite == IsFiniteSet(Writer) /\ IsFiniteSet(Maintainer)
ASSUME ThreadsApart == Writer \cap Maintainer = {} /\ Nobody \notin Writer \cup Maintainer

Thread == Writer \cup Maintainer

VARIABLES
  state,     \* ConcurrencyGuard.state
  readers,   \* writeBarrier: number of read locks
  barrier,   \* writeBarrier: the thread that has called Lock
  mmu,       \* maintenanceMu
  dr,        \* Server.disasterRecoveryMu
  pc,        \* where each thread is
  lease,     \* is the release function of its lease still to be called?
  previous,  \* local variable of a maintenance request
  kind,      \* the state a maintenance request publishes
  rollbackFailed \* some restore ended in a restoreRollbackFailure

vars == <<state, readers, barrier, mmu, dr, pc, lease, previous, kind, rollbackFailed>>

States == {"normal", "restore", "backup"}
Labels == {"idle", "queued", "serialized", "probing", "admitted", "upgrading", "locked",
           "published", "draining", "exclusive", "ended", "unlocking", "leaving"}

Init ==
  /\ state = "normal"
  /\ readers = 0
  /\ barrier = Nobody /\ mmu = Nobody /\ dr = Nobody
  /\ pc = [t \in Thread |-> "idle"]
  /\ lease = [t \in Thread |-> FALSE]
  /\ previous = [m \in Maintainer |-> "normal"]
  /\ kind = [m \in Maintainer |-> "restore"]
  /\ rollbackFailed = FALSE

At(t, label) == pc[t] = label
Goto(t, label) == pc' = [pc EXCEPT ![t] = label]

\* A rejected or finished request: the deferred unlock of disasterRecoveryMu.
Leave(t) ==
  /\ Goto(t, "idle")
  /\ dr' = IF dr = t THEN Nobody ELSE dr

\* The release function: only its first call unlocks.
Release(t) ==
  /\ readers' = IF lease[t] THEN readers - 1 ELSE readers
  /\ lease' = [lease EXCEPT ![t] = FALSE]

-----------------------------------------------------------------------------
(* TryBeginWrite, by a writer or by a maintenance request holding dr.      *)

AboutToTry(t) == IF t \in Writer THEN At(t, "idle") ELSE At(t, "serialized")

TryRLock(t) ==
  /\ AboutToTry(t)
  /\ barrier = Nobody
  /\ readers' = readers + 1
  /\ lease' = [lease EXCEPT ![t] = TRUE]
  /\ Goto(t, "probing")
  /\ UNCHANGED <<state, barrier, mmu, dr, previous, kind, rollbackFailed>>

TryRLockFails(t) ==
  /\ AboutToTry(t)
  /\ barrier # Nobody
  /\ Leave(t)
  /\ UNCHANGED <<state, readers, barrier, mmu, lease, previous, kind, rollbackFailed>>

\* Mutant: holding the read lock is taken for an admission.
Writable == state \in States
IsWritable == state = "normal"

Admitted(t) ==
  /\ At(t, "probing")
  /\ IsWritable
  /\ Goto(t, "admitted")
  /\ UNCHANGED <<state, readers, barrier, mmu, dr, lease, previous, kind, rollbackFailed>>

Refused(t) ==
  /\ At(t, "probing")
  /\ ~IsWritable
  /\ Release(t)
  /\ Leave(t)
  /\ UNCHANGED <<state, barrier, mmu, previous, kind, rollbackFailed>>

\* The end of the handler, whatever it did: the deferred calls run in LIFO order.
Finish(t) ==
  /\ At(t, IF t \in Writer THEN "admitted" ELSE "leaving")
  /\ Release(t)
  /\ Leave(t)
  /\ UNCHANGED <<state, barrier, mmu, previous, kind, rollbackFailed>>

-----------------------------------------------------------------------------
(* A maintenance request.                                                  *)

Arrive(m) ==
  /\ At(m, "idle")
  /\ \E k \in {"restore", "backup"} : kind' = [kind EXCEPT ![m] = k]
  /\ Goto(m, "queued")
  /\ UNCHANGED <<state, readers, barrier, mmu, dr, lease, previous, rollbackFailed>>

Serialize(m) ==
  /\ At(m, "queued")
  /\ dr = Nobody
  /\ dr' = m
  /\ Goto(m, "serialized")
  /\ UNCHANGED <<state, readers, barrier, mmu, lease, previous, kind, rollbackFailed>>

\* Authentication, the token or the uploaded file is refused.
GiveUp(m) ==
  /\ At(m, "admitted")
  /\ Goto(m, "leaving")
  /\ UNCHANGED <<state, readers, barrier, mmu, dr, lease, previous, kind, rollbackFailed>>

\* Mutant: the lease is kept while waiting for the readers to leave.
UpgradeKeepingLease(m) ==
  /\ At(m, "admitted")
  /\ Goto(m, "upgrading")
  /\ UNCHANGED <<state, readers, barrier, mmu, dr, lease, previous, kind, rollbackFailed>>

\* releaseRequestWriteLease
Upgrade(m) ==
  /\ At(m, "admitted")
  /\ Release(m)
  /\ Goto(m, "upgrading")
  /\ UNCHANGED <<state, barrier, mmu, dr, previous, kind, rollbackFailed>>

\* BeginMaintenance.  Only the holder of maintenanceMu stores the state, so
\* loading it is one step with the lock.
LockMaintenance(m) ==
  /\ At(m, "upgrading")
  /\ mmu = Nobody
  /\ mmu' = m
  /\ previous' = [previous EXCEPT ![m] = state]
  /\ Goto(m, "locked")
  /\ UNCHANGED <<state, readers, barrier, dr, lease, kind, rollbackFailed>>

Publish(m) ==
  /\ At(m, "locked")
  /\ state' = kind[m]
  /\ Goto(m, "published")
  /\ UNCHANGED <<readers, barrier, mmu, dr, lease, previous, kind, rollbackFailed>>

Announce(m) ==
  /\ At(m, "published")
  /\ barrier = Nobody
  /\ barrier' = m
  /\ Goto(m, "draining")
  /\ UNCHANGED <<state, readers, mmu, dr, lease, previous, kind, rollbackFailed>>

\* Mutant: the admitted writes are not waited for.
EnterUndrained(m) ==
  /\ At(m, "draining")
  /\ Goto(m, "exclusive")
  /\ UNCHANGED <<state, readers, barrier, mmu, dr, lease, previous, kind, rollbackFailed>>

Enter(m) ==
  /\ At(m, "draining")
  /\ readers = 0
  /\ Goto(m, "exclusive")
  /\ UNCHANGED <<state, readers, barrier, mmu, dr, lease, previous, kind, rollbackFailed>>

\* EndMaintenance(StateRestore) after a failed rollback.
FinalState(m, failed) == IF failed THEN "restore" ELSE previous[m]

EndMaintenance(m) ==
  /\ At(m, "exclusive")
  /\ \E failed \in IF kind[m] = "restore" THEN BOOLEAN ELSE {FALSE} :
       /\ state' = FinalState(m, failed)
       /\ rollbackFailed' = (rollbackFailed \/ failed)
  /\ Goto(m, "ended")
  /\ UNCHANGED <<readers, barrier, mmu, dr, lease, previous, kind>>

UnlockBarrier(m) ==
  /\ At(m, "ended")
  /\ barrier' = Nobody
  /\ Goto(m, "unlocking")
  /\ UNCHANGED <<state, readers, mmu, dr, lease, previous, kind, rollbackFailed>>

\* A download streams its snapshot between this step and Finish.
UnlockMaintenance(m) ==
  /\ At(m, "unlocking")
  /\ mmu' = Nobody
  /\ Goto(m, "leaving")
  /\ UNCHANGED <<state, readers, barrier, dr, lease, previous, kind, rollbackFailed>>

Proceed(m) ==
  \/ Upgrade(m) \/ LockMaintenance(m) \/ Publish(m) \/ Announce(m) \/ Enter(m)
  \/ EndMaintenance(m) \/ UnlockBarrier(m) \/ UnlockMaintenance(m)

Admission(t) ==
  \/ TryRLock(t) \/ TryRLockFails(t) \/ Admitted(t) \/ Refused(t) \/ Finish(t)

Next ==
  \/ \E t \in Thread : Admission(t)
  \/ \E m \in Maintainer : Arrive(m) \/ Serialize(m) \/ GiveUp(m) \/ Proceed(m)

\* A thread that runs keeps running, and every handler returns; a new request
\* need not arrive.  Serialize is strongly fair: a sync.Mutex hands itself to
\* a goroutine that has waited for long.
Fairness ==
  /\ \A w \in Writer : WF_vars(Admitted(w) \/ Refused(w) \/ Finish(w))
  /\ \A m \in Maintainer : /\ WF_vars(Admission(m) \/ GiveUp(m) \/ Proceed(m))
                           /\ SF_vars(Serialize(m))

Spec == Init /\ [][Next]_vars /\ Fairness
-----------------------------------------------------------------------------
\* Types of the locks and of the threads' locals; readers is never negative.
TypeOK ==
  /\ state \in States
  /\ readers \in Nat
  /\ barrier \in Maintainer \cup {Nobody}
  /\ mmu \in Maintainer \cup {Nobody}
  /\ dr \in Maintainer \cup {Nobody}
  /\ pc \in [Thread -> Labels]
  /\ lease \in [Thread -> BOOLEAN]
  /\ previous \in [Maintainer -> States]
  /\ kind \in [Maintainer -> {"restore", "backup"}]
  /\ rollbackFailed \in BOOLEAN

\* A snapshot or a replacement of the database never runs beside an admitted
\* write or beside another maintenance operation.
MaintenanceExcludesWrites ==
  \A m \in Maintainer : At(m, "exclusive") =>
    \A t \in Thread \ {m} : ~At(t, "admitted") /\ ~At(t, "exclusive")

\* After a rollback failed, nobody writes and nobody restores over the
\* evidence: every request in flight was or will be refused.
FailedRollbackLatches ==
  rollbackFailed =>
    /\ state = "restore"
    /\ \A t \in Thread : ~At(t, "admitted") /\ ~At(t, "upgrading") /\ ~At(t, "exclusive")

\* The system is read-only only while somebody maintains it or after a failed
\* rollback: no schedule of locks leaves the gate shut by mistake.
ReadOnlyHasAReason ==
  state # "normal" => mmu # Nobody \/ rollbackFailed

\* Admitted writes drain: a maintenance request that has closed the gate gets
\* to work, and one that waits in the queue is answered.
MaintenanceGetsItsTurn ==
  \A m \in Maintainer : /\ At(m, "locked") ~> At(m, "exclusive")
                        /\ At(m, "queued") ~> At(m, "idle")

\* The gate implements WriteAdmission.
Writing == {t \in Thread : At(t, "admitted")}
Mode ==
  IF rollbackFailed THEN "closed"
  ELSE IF state = "normal" THEN "open"
  ELSE IF \E m \in Maintainer : At(m, "exclusive") THEN "exclusive"
  ELSE "closing"

Promise == INSTANCE WriteAdmission WITH mode <- Mode, writers <- Writing

ImplementsWriteAdmission == Promise!Spec
=============================================================================
