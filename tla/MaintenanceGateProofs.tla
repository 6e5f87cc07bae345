----------------------- MODULE MaintenanceGateProofs -----------------------
(***************************************************************************)
(* Proofs about MaintenanceGate for any number of writers and maintainers: *)
(* exclusion, the latch after a failed rollback, and that the gate         *)
(* implements WriteAdmission.  The inductive invariant ties every lock to  *)
(* the places in the code where a thread holds it, and the reader count of *)
(* the RWMutex to the leases that are outstanding.                         *)
(***************************************************************************)
EXTENDS MaintenanceGate, FiniteSetTheorems, TLAPS

Holders == {t \in Thread : lease[t]}
ReadersCounted == readers = Cardinality(Holders)

Barring == {"draining", "exclusive", "ended"}
Owning == {"locked", "published", "unlocking"} \cup Barring
Closing == {"published", "draining", "exclusive"}

LeasesPlaced ==
  \A t \in Thread : /\ pc[t] \in {"probing", "admitted"} => lease[t]
                    /\ lease[t] => pc[t] \in {"probing", "admitted", "leaving"}
                    /\ t \in Writer => pc[t] \in {"idle", "probing", "admitted"}

LocksPlaced ==
  \A m \in Maintainer : /\ barrier = m <=> pc[m] \in Barring
                        /\ mmu = m <=> pc[m] \in Owning
                        /\ dr = m <=> pc[m] \notin {"idle", "queued"}
                        /\ pc[m] = "exclusive" => readers = 0

StatePlaced ==
  /\ state = "normal" <=> ~rollbackFailed /\ \A m \in Maintainer : pc[m] \notin Closing
  /\ rollbackFailed =>
       /\ state = "restore"
       /\ \A t \in Thread : pc[t] \notin {"admitted", "upgrading", "locked"} \cup Closing
  /\ \A m \in Maintainer : pc[m] \in {"locked"} \cup Closing => previous[m] = "normal"

IInv == TypeOK /\ ReadersCounted /\ LeasesPlaced /\ LocksPlaced /\ StatePlaced

-----------------------------------------------------------------------------
LEMMA HoldersFinite == IsFiniteSet(Holders) /\ IsFiniteSet(Thread)
<1>1. IsFiniteSet(Thread)
  BY ThreadsFinite, FS_Union DEF Thread
<1> QED
  BY <1>1, FS_Subset DEF Holders

\* Taking and giving back a lease keep the count right.
LEMMA LeaseTaken ==
  ASSUME TypeOK, ReadersCounted, NEW t \in Thread, ~lease[t],
         readers' = readers + 1, lease' = [lease EXCEPT ![t] = TRUE]
  PROVE  ReadersCounted' /\ readers' \in Nat
<1>1. Holders' = Holders \cup {t} /\ t \notin Holders
  BY DEF Holders, TypeOK
<1>2. Cardinality(Holders') = Cardinality(Holders) + 1
  BY <1>1, HoldersFinite, FS_AddElement
<1> QED
  BY <1>2 DEF ReadersCounted, TypeOK

LEMMA LeaseReleased ==
  ASSUME TypeOK, ReadersCounted, NEW t \in Thread, Release(t)
  PROVE  ReadersCounted' /\ readers' \in Nat /\ lease' = [lease EXCEPT ![t] = FALSE]
<1>1. Holders' = Holders \ {t} /\ (lease[t] <=> t \in Holders)
  BY DEF Holders, TypeOK, Release
<1>2. Cardinality(Holders') = IF t \in Holders THEN Cardinality(Holders) - 1
                              ELSE Cardinality(Holders)
  BY <1>1, HoldersFinite, FS_RemoveElement
<1>3. IsFiniteSet(Holders')
  BY <1>1, HoldersFinite, FS_RemoveElement
<1>4. Cardinality(Holders') \in Nat
  BY <1>3, FS_CardinalityType
<1> QED
  BY <1>1, <1>2, <1>4 DEF ReadersCounted, TypeOK, Release

LEMMA LeaseUntouched ==
  ASSUME TypeOK, ReadersCounted, UNCHANGED <<readers, lease>>
  PROVE  ReadersCounted' /\ readers' \in Nat
BY DEF ReadersCounted, Holders, TypeOK

LEMMA NoLeaseNoReader == ASSUME TypeOK, ReadersCounted, readers = 0 PROVE \A t \in Thread : ~lease[t]
BY HoldersFinite, FS_EmptySet DEF ReadersCounted, Holders

LEMMA InitEstablishes == Init => IInv
<1> SUFFICES ASSUME Init PROVE IInv
  OBVIOUS
<1>1. TypeOK
  BY DEF Init, TypeOK, States, Labels, Thread
<1>2. ReadersCounted
  BY FS_EmptySet DEF Init, ReadersCounted, Holders
<1>3. LeasesPlaced /\ LocksPlaced /\ StatePlaced
  BY ThreadsApart DEF Init, LeasesPlaced, LocksPlaced, StatePlaced, Barring, Owning, Closing, Thread
<1> QED
  BY <1>1, <1>2, <1>3 DEF IInv

-----------------------------------------------------------------------------
(* One lemma per action: first what happens to the leases, then the rest.  *)

LEMMA TryRLockPreserves == ASSUME IInv, NEW t \in Thread, TryRLock(t) PROVE IInv'
<1>1. ~lease[t] /\ pc[t] \in {"idle", "serialized"}
  BY DEF TryRLock, AboutToTry, At, IInv, LeasesPlaced, Thread
<1>2. ReadersCounted' /\ readers' \in Nat
  BY <1>1, LeaseTaken DEF TryRLock, IInv
<1>3. TypeOK'
  BY <1>2 DEF TryRLock, Goto, IInv, TypeOK, Labels
<1>4. LeasesPlaced'
  BY ThreadsApart DEF TryRLock, AboutToTry, At, Goto, IInv, TypeOK, LeasesPlaced, Thread
<1>5. LocksPlaced'
  BY ThreadsApart DEF TryRLock, AboutToTry, At, Goto, IInv, TypeOK, LocksPlaced, Thread, Barring, Owning
<1>6. StatePlaced'
  BY ThreadsApart DEF TryRLock, AboutToTry, At, Goto, IInv, TypeOK, StatePlaced, Thread, Closing
<1> QED BY <1>2, <1>3, <1>4, <1>5, <1>6 DEF IInv

LEMMA TryRLockFailsPreserves == ASSUME IInv, NEW t \in Thread, TryRLockFails(t) PROVE IInv'
<1>1. ReadersCounted' /\ readers' \in Nat
  BY LeaseUntouched DEF TryRLockFails, IInv
<1>2. TypeOK'
  BY <1>1 DEF TryRLockFails, Leave, Goto, IInv, TypeOK, Labels
<1>3. LeasesPlaced'
  BY ThreadsApart DEF TryRLockFails, AboutToTry, At, Leave, Goto, IInv, TypeOK, LeasesPlaced, Thread
<1>4. LocksPlaced'
  BY ThreadsApart DEF TryRLockFails, AboutToTry, At, Leave, Goto, IInv, TypeOK, LocksPlaced, Thread,
                      Barring, Owning
<1>5. StatePlaced'
  BY DEF TryRLockFails, AboutToTry, At, Leave, Goto, IInv, TypeOK, StatePlaced, Thread, Closing
<1> QED BY <1>1, <1>2, <1>3, <1>4, <1>5 DEF IInv

LEMMA AdmittedPreserves == ASSUME IInv, NEW t \in Thread, Admitted(t) PROVE IInv'
<1>1. ReadersCounted' /\ readers' \in Nat
  BY LeaseUntouched DEF Admitted, IInv
<1>2. TypeOK'
  BY <1>1 DEF Admitted, Goto, IInv, TypeOK, Labels
<1>3. LeasesPlaced'
  BY DEF Admitted, At, Goto, IInv, TypeOK, LeasesPlaced
<1>4. LocksPlaced'
  BY DEF Admitted, At, Goto, IInv, TypeOK, LocksPlaced, Thread, Barring, Owning
<1>5. StatePlaced'
  BY DEF Admitted, IsWritable, At, Goto, IInv, TypeOK, StatePlaced, Thread, Closing
<1> QED BY <1>1, <1>2, <1>3, <1>4, <1>5 DEF IInv

\* Refused and Finish: the lease is given back and the thread leaves.
LEMMA ReturnPreserves ==
  ASSUME IInv, NEW t \in Thread, pc[t] \in {"probing", "leaving"} \/ t \in Writer,
         Release(t), Leave(t),
         UNCHANGED <<state, barrier, mmu, previous, kind, rollbackFailed>>
  PROVE  IInv'
<1>1. ReadersCounted' /\ readers' \in Nat /\ lease' = [lease EXCEPT ![t] = FALSE]
  BY LeaseReleased DEF IInv
<1>2. TypeOK'
  BY <1>1 DEF Leave, Goto, IInv, TypeOK, Labels
<1>3. LeasesPlaced'
  BY <1>1 DEF Leave, Goto, IInv, TypeOK, LeasesPlaced
<1>4. LocksPlaced'
  <2>1. \A m \in Maintainer : pc[m] = "exclusive" => readers' = 0
    BY NoLeaseNoReader DEF Release, IInv, LocksPlaced
  <2>2. \A m \in Maintainer : m = t => pc[m] \in {"probing", "leaving"}
    BY ThreadsApart
  <2>3. pc' = [pc EXCEPT ![t] = "idle"] /\ dr' = (IF dr = t THEN Nobody ELSE dr)
        /\ barrier' = barrier /\ mmu' = mmu /\ pc \in [Thread -> Labels]
    BY DEF Leave, Goto, IInv, TypeOK
  <2>4. ASSUME NEW m \in Maintainer
        PROVE  /\ barrier' = m <=> pc'[m] \in Barring
               /\ mmu' = m <=> pc'[m] \in Owning
               /\ dr' = m <=> pc'[m] \notin {"idle", "queued"}
               /\ pc'[m] = "exclusive" => readers' = 0
    <3>1. m \in Thread /\ m # Nobody
      BY ThreadsApart DEF Thread
    <3>2. CASE m = t
      BY <2>2, <2>3, <3>1, <3>2 DEF IInv, LocksPlaced, Barring, Owning
    <3>3. CASE m # t
      BY <2>1, <2>3, <3>1, <3>3 DEF IInv, LocksPlaced
    <3> QED BY <3>2, <3>3
  <2> QED BY <2>4 DEF LocksPlaced
<1>5. StatePlaced'
  BY ThreadsApart DEF Leave, Goto, IInv, TypeOK, StatePlaced, LeasesPlaced, Thread, Closing
<1> QED BY <1>1, <1>2, <1>3, <1>4, <1>5 DEF IInv

LEMMA RefusedPreserves == ASSUME IInv, NEW t \in Thread, Refused(t) PROVE IInv'
BY ReturnPreserves DEF Refused, At

LEMMA FinishPreserves == ASSUME IInv, NEW t \in Thread, Finish(t) PROVE IInv'
BY ReturnPreserves DEF Finish, At

LEMMA UpgradePreserves == ASSUME IInv, NEW m \in Maintainer, Upgrade(m) PROVE IInv'
<1>1. ReadersCounted' /\ readers' \in Nat /\ lease' = [lease EXCEPT ![m] = FALSE] /\ m \in Thread
  BY LeaseReleased DEF Upgrade, IInv, Thread
<1>2. TypeOK'
  BY <1>1 DEF Upgrade, Goto, IInv, TypeOK, Labels
<1>3. LeasesPlaced'
  BY <1>1, ThreadsApart DEF Upgrade, At, Goto, IInv, TypeOK, LeasesPlaced
<1>4. LocksPlaced'
  <2>1. \A x \in Maintainer : pc[x] = "exclusive" => readers' = 0
    BY <1>1, NoLeaseNoReader DEF Upgrade, Release, IInv, LocksPlaced
  <2> QED BY <1>1, <2>1 DEF Upgrade, At, Goto, IInv, TypeOK, LocksPlaced, Barring, Owning, Thread
<1>5. StatePlaced'
  <2>1. ~rollbackFailed
    BY <1>1 DEF Upgrade, At, IInv, StatePlaced
  <2> QED BY <1>1, <2>1 DEF Upgrade, At, Goto, IInv, TypeOK, StatePlaced, Closing, Thread
<1> QED BY <1>1, <1>2, <1>3, <1>4, <1>5 DEF IInv

LEMMA ArrivePreserves == ASSUME IInv, NEW m \in Maintainer, Arrive(m) PROVE IInv'
<1>1. ReadersCounted' /\ readers' \in Nat /\ m \in Thread /\ m # Nobody
  BY LeaseUntouched, ThreadsApart DEF Arrive, IInv, Thread
<1>2. TypeOK'
  BY <1>1 DEF Arrive, Goto, IInv, TypeOK, Labels, States
<1>3. LeasesPlaced'
  BY <1>1, ThreadsApart DEF Arrive, At, Goto, IInv, TypeOK, LeasesPlaced
<1>4. LocksPlaced'
  BY <1>1 DEF Arrive, At, Goto, IInv, TypeOK, LocksPlaced, Barring, Owning, Thread
<1>5. StatePlaced'
  BY <1>1 DEF Arrive, At, Goto, IInv, TypeOK, StatePlaced, LocksPlaced, Closing, Thread,
     States, Owning
<1> QED BY <1>1, <1>2, <1>3, <1>4, <1>5 DEF IInv

LEMMA SerializePreserves == ASSUME IInv, NEW m \in Maintainer, Serialize(m) PROVE IInv'
<1>1. ReadersCounted' /\ readers' \in Nat /\ m \in Thread /\ m # Nobody
  BY LeaseUntouched, ThreadsApart DEF Serialize, IInv, Thread
<1>2. TypeOK'
  BY <1>1 DEF Serialize, Goto, IInv, TypeOK, Labels, States
<1>3. LeasesPlaced'
  BY <1>1, ThreadsApart DEF Serialize, At, Goto, IInv, TypeOK, LeasesPlaced
<1>4. LocksPlaced'
  BY <1>1, ThreadsApart DEF Serialize, At, Goto, IInv, TypeOK, LocksPlaced, Barring, Owning, Thread
<1>5. StatePlaced'
  BY <1>1 DEF Serialize, At, Goto, IInv, TypeOK, StatePlaced, LocksPlaced, Closing, Thread,
     States, Owning
<1> QED BY <1>1, <1>2, <1>3, <1>4, <1>5 DEF IInv

LEMMA GiveUpPreserves == ASSUME IInv, NEW m \in Maintainer, GiveUp(m) PROVE IInv'
<1>1. ReadersCounted' /\ readers' \in Nat /\ m \in Thread /\ m # Nobody
  BY LeaseUntouched, ThreadsApart DEF GiveUp, IInv, Thread
<1>2. TypeOK'
  BY <1>1 DEF GiveUp, Goto, IInv, TypeOK, Labels, States
<1>3. LeasesPlaced'
  BY <1>1, ThreadsApart DEF GiveUp, At, Goto, IInv, TypeOK, LeasesPlaced
<1>4. LocksPlaced'
  BY <1>1 DEF GiveUp, At, Goto, IInv, TypeOK, LocksPlaced, Barring, Owning, Thread
<1>5. StatePlaced'
  BY <1>1 DEF GiveUp, At, Goto, IInv, TypeOK, StatePlaced, LocksPlaced, Closing, Thread,
     States, Owning
<1> QED BY <1>1, <1>2, <1>3, <1>4, <1>5 DEF IInv

LEMMA LockMaintenancePreserves == ASSUME IInv, NEW m \in Maintainer, LockMaintenance(m) PROVE IInv'
<1>1. ReadersCounted' /\ readers' \in Nat /\ m \in Thread /\ m # Nobody
  BY LeaseUntouched, ThreadsApart DEF LockMaintenance, IInv, Thread
<1>2. TypeOK'
  BY <1>1 DEF LockMaintenance, Goto, IInv, TypeOK, Labels, States
<1>3. LeasesPlaced'
  BY <1>1, ThreadsApart DEF LockMaintenance, At, Goto, IInv, TypeOK, LeasesPlaced
<1>4. LocksPlaced'
  BY <1>1 DEF LockMaintenance, At, Goto, IInv, TypeOK, LocksPlaced, Barring, Owning, Thread
<1>5. StatePlaced'
  BY <1>1 DEF LockMaintenance, At, Goto, IInv, TypeOK, StatePlaced, LocksPlaced, Closing, Thread,
     States, Owning
<1> QED BY <1>1, <1>2, <1>3, <1>4, <1>5 DEF IInv

LEMMA PublishPreserves == ASSUME IInv, NEW m \in Maintainer, Publish(m) PROVE IInv'
<1>1. ReadersCounted' /\ readers' \in Nat /\ m \in Thread /\ m # Nobody
  BY LeaseUntouched, ThreadsApart DEF Publish, IInv, Thread
<1>2. TypeOK'
  BY <1>1 DEF Publish, Goto, IInv, TypeOK, Labels, States
<1>3. LeasesPlaced'
  BY <1>1, ThreadsApart DEF Publish, At, Goto, IInv, TypeOK, LeasesPlaced
<1>4. LocksPlaced'
  BY <1>1 DEF Publish, At, Goto, IInv, TypeOK, LocksPlaced, Barring, Owning, Thread
<1>5. StatePlaced'
  BY <1>1 DEF Publish, At, Goto, IInv, TypeOK, StatePlaced, LocksPlaced, Closing, Thread,
     States, Owning
<1> QED BY <1>1, <1>2, <1>3, <1>4, <1>5 DEF IInv

LEMMA AnnouncePreserves == ASSUME IInv, NEW m \in Maintainer, Announce(m) PROVE IInv'
<1>1. ReadersCounted' /\ readers' \in Nat /\ m \in Thread /\ m # Nobody
  BY LeaseUntouched, ThreadsApart DEF Announce, IInv, Thread
<1>2. TypeOK'
  BY <1>1 DEF Announce, Goto, IInv, TypeOK, Labels, States
<1>3. LeasesPlaced'
  BY <1>1, ThreadsApart DEF Announce, At, Goto, IInv, TypeOK, LeasesPlaced
<1>4. LocksPlaced'
  BY <1>1 DEF Announce, At, Goto, IInv, TypeOK, LocksPlaced, Barring, Owning, Thread
<1>5. StatePlaced'
  BY <1>1 DEF Announce, At, Goto, IInv, TypeOK, StatePlaced, LocksPlaced, Closing, Thread,
     States, Owning
<1> QED BY <1>1, <1>2, <1>3, <1>4, <1>5 DEF IInv

LEMMA EnterPreserves == ASSUME IInv, NEW m \in Maintainer, Enter(m) PROVE IInv'
<1>1. ReadersCounted' /\ readers' \in Nat /\ m \in Thread /\ m # Nobody
  BY LeaseUntouched, ThreadsApart DEF Enter, IInv, Thread
<1>2. TypeOK'
  BY <1>1 DEF Enter, Goto, IInv, TypeOK, Labels, States
<1>3. LeasesPlaced'
  BY <1>1, ThreadsApart DEF Enter, At, Goto, IInv, TypeOK, LeasesPlaced
<1>4. LocksPlaced'
  BY <1>1 DEF Enter, At, Goto, IInv, TypeOK, LocksPlaced, Barring, Owning, Thread
<1>5. StatePlaced'
  BY <1>1 DEF Enter, At, Goto, IInv, TypeOK, StatePlaced, LocksPlaced, Closing, Thread,
     States, Owning
<1> QED BY <1>1, <1>2, <1>3, <1>4, <1>5 DEF IInv

LEMMA UnlockBarrierPreserves == ASSUME IInv, NEW m \in Maintainer, UnlockBarrier(m) PROVE IInv'
<1>1. ReadersCounted' /\ readers' \in Nat /\ m \in Thread /\ m # Nobody
  BY LeaseUntouched, ThreadsApart DEF UnlockBarrier, IInv, Thread
<1>2. TypeOK'
  BY <1>1 DEF UnlockBarrier, Goto, IInv, TypeOK, Labels, States
<1>3. LeasesPlaced'
  BY <1>1, ThreadsApart DEF UnlockBarrier, At, Goto, IInv, TypeOK, LeasesPlaced
<1>4. LocksPlaced'
  BY <1>1, ThreadsApart DEF UnlockBarrier, At, Goto, IInv, TypeOK, LocksPlaced, Barring, Owning, Thread
<1>5. StatePlaced'
  BY <1>1 DEF UnlockBarrier, At, Goto, IInv, TypeOK, StatePlaced, LocksPlaced, Closing, Thread,
     States, Owning
<1> QED BY <1>1, <1>2, <1>3, <1>4, <1>5 DEF IInv

LEMMA UnlockMaintenancePreserves == ASSUME IInv, NEW m \in Maintainer, UnlockMaintenance(m) PROVE IInv'
<1>1. ReadersCounted' /\ readers' \in Nat /\ m \in Thread /\ m # Nobody
  BY LeaseUntouched, ThreadsApart DEF UnlockMaintenance, IInv, Thread
<1>2. TypeOK'
  BY <1>1 DEF UnlockMaintenance, Goto, IInv, TypeOK, Labels, States
<1>3. LeasesPlaced'
  BY <1>1, ThreadsApart DEF UnlockMaintenance, At, Goto, IInv, TypeOK, LeasesPlaced
<1>4. LocksPlaced'
  BY <1>1 DEF UnlockMaintenance, At, Goto, IInv, TypeOK, LocksPlaced, Barring, Owning, Thread
<1>5. StatePlaced'
  BY <1>1 DEF UnlockMaintenance, At, Goto, IInv, TypeOK, StatePlaced, LocksPlaced, Closing, Thread,
     States, Owning
<1> QED BY <1>1, <1>2, <1>3, <1>4, <1>5 DEF IInv

LEMMA EndMaintenancePreserves == ASSUME IInv, NEW m \in Maintainer, EndMaintenance(m) PROVE IInv'
<1>1. ReadersCounted' /\ readers' \in Nat /\ m \in Thread /\ m # Nobody
  BY LeaseUntouched, ThreadsApart DEF EndMaintenance, IInv, Thread
<1>2. TypeOK'
  BY <1>1 DEF EndMaintenance, FinalState, Goto, IInv, TypeOK, Labels, States
<1>3. LeasesPlaced'
  BY <1>1, ThreadsApart DEF EndMaintenance, At, Goto, IInv, TypeOK, LeasesPlaced
<1>4. LocksPlaced'
  BY <1>1 DEF EndMaintenance, At, Goto, IInv, TypeOK, LocksPlaced, Barring, Owning, Thread
<1>5. StatePlaced'
  <2>1. pc[m] = "exclusive" /\ readers = 0 /\ dr = m /\ previous[m] = "normal" /\ ~rollbackFailed
    BY <1>1 DEF EndMaintenance, At, IInv, LocksPlaced, StatePlaced, Closing
  <2>2. \A x \in Maintainer : x # m => pc[x] \in {"idle", "queued"}
    BY <2>1 DEF IInv, LocksPlaced
  <2>3. \A t \in Thread : pc[t] # "admitted"
    BY <2>1, NoLeaseNoReader DEF IInv, LeasesPlaced
  <2>4. \A w \in Writer : pc[w] \in {"idle", "probing", "admitted"}
    BY DEF IInv, LeasesPlaced, Thread
  <2>5. pc' = [pc EXCEPT ![m] = "ended"] /\ pc \in [Thread -> Labels] /\ previous' = previous
    BY DEF EndMaintenance, Goto, IInv, TypeOK
  <2>6. \A t \in Thread : pc'[t] \notin {"admitted", "upgrading", "locked"} \cup Closing
    BY <2>2, <2>3, <2>4, <2>5 DEF Closing, Thread
  <2>7. state' = (IF rollbackFailed' THEN "restore" ELSE "normal")
    BY <2>1 DEF EndMaintenance, FinalState
  <2> QED BY <2>6, <2>7 DEF StatePlaced, Thread
<1> QED BY <1>1, <1>2, <1>3, <1>4, <1>5 DEF IInv

-----------------------------------------------------------------------------
LEMMA StutterPreserves == ASSUME IInv, UNCHANGED vars PROVE IInv'
BY DEF vars, IInv, TypeOK, ReadersCounted, Holders, LeasesPlaced, LocksPlaced, StatePlaced

LEMMA NextPreserves == IInv /\ [Next]_vars => IInv'
<1> SUFFICES ASSUME IInv, [Next]_vars PROVE IInv'
  OBVIOUS
<1>1. CASE UNCHANGED vars
  BY <1>1, StutterPreserves
<1>2. ASSUME NEW t \in Thread, Admission(t) PROVE IInv'
  BY <1>2, TryRLockPreserves, TryRLockFailsPreserves, AdmittedPreserves, RefusedPreserves,
     FinishPreserves DEF Admission
<1>3. ASSUME NEW m \in Maintainer, Arrive(m) \/ Serialize(m) \/ GiveUp(m) PROVE IInv'
  BY <1>3, ArrivePreserves, SerializePreserves, GiveUpPreserves
<1>4. ASSUME NEW m \in Maintainer, Proceed(m) PROVE IInv'
  BY <1>4, UpgradePreserves, LockMaintenancePreserves, PublishPreserves, AnnouncePreserves,
     EnterPreserves, EndMaintenancePreserves, UnlockBarrierPreserves, UnlockMaintenancePreserves
  DEF Proceed
<1> QED
  BY <1>1, <1>2, <1>3, <1>4 DEF Next

\* The strengthened invariant holds in every reachable state.
THEOREM InductiveInvariant == Spec => []IInv
BY InitEstablishes, NextPreserves, PTL DEF Spec

\* Locks and locals keep their types; no lease is given back twice, so the
\* reader count of the RWMutex never becomes negative (a fatal error in Go).
THEOREM TypeCorrect == Spec => []TypeOK
<1>1. IInv => TypeOK
  BY DEF IInv
<1> QED BY <1>1, InductiveInvariant, PTL

\* Whoever works behind the gate works alone.
LEMMA ExclusiveIsAlone ==
  ASSUME IInv, NEW m \in Maintainer, pc[m] = "exclusive"
  PROVE  \A t \in Thread \ {m} : pc[t] # "admitted" /\ pc[t] # "exclusive"
<1>1. readers = 0 /\ mmu = m
  BY DEF IInv, LocksPlaced, Owning, Barring
<1>2. \A t \in Thread : pc[t] # "admitted"
  BY <1>1, NoLeaseNoReader DEF IInv, LeasesPlaced
<1>3. \A x \in Maintainer : pc[x] = "exclusive" => x = m
  BY <1>1 DEF IInv, LocksPlaced, Owning, Barring
<1>4. \A w \in Writer : pc[w] # "exclusive"
  BY DEF IInv, LeasesPlaced, Thread
<1> QED BY <1>2, <1>3, <1>4 DEF Thread

\* Restores and backups never overlap an admitted write or one another.
THEOREM Exclusion == Spec => []MaintenanceExcludesWrites
<1>1. IInv => MaintenanceExcludesWrites
  BY ExclusiveIsAlone DEF MaintenanceExcludesWrites, At
<1> QED BY <1>1, InductiveInvariant, PTL

\* After restoreRollbackFailure nothing is admitted until the process restarts.
THEOREM Latched == Spec => []FailedRollbackLatches
<1>1. IInv => FailedRollbackLatches
  BY DEF IInv, StatePlaced, FailedRollbackLatches, At, Closing
<1> QED BY <1>1, InductiveInvariant, PTL

\* The gate is never left shut by the order in which locks were taken.
THEOREM NeverShutByMistake == Spec => []ReadOnlyHasAReason
<1>1. IInv => ReadOnlyHasAReason
  <2> SUFFICES ASSUME IInv, state # "normal", ~rollbackFailed PROVE mmu # Nobody
    BY DEF ReadOnlyHasAReason
  <2>1. PICK m \in Maintainer : pc[m] \in Closing
    BY DEF IInv, StatePlaced
  <2>2. mmu = m
    BY <2>1 DEF IInv, LocksPlaced, Closing, Owning, Barring
  <2> QED BY <2>2, ThreadsApart
<1> QED BY <1>1, InductiveInvariant, PTL

-----------------------------------------------------------------------------
(* The gate implements WriteAdmission.                                     *)

LEMMA MappedInit == Init => Promise!Init
BY DEF Init, Promise!Init, Mode, Writing, At

\* A step that moves no thread into or out of "admitted" and "exclusive" and
\* stores no state is invisible to WriteAdmission.
LEMMA Invisible ==
  ASSUME UNCHANGED <<state, rollbackFailed>>,
         \A t \in Thread : /\ pc[t] = "admitted" <=> pc'[t] = "admitted"
                           /\ pc[t] = "exclusive" <=> pc'[t] = "exclusive"
  PROVE  UNCHANGED <<Mode, Writing>>
BY DEF Mode, Writing, At, Thread

LEMMA MappedAdmission ==
  ASSUME IInv, NEW t \in Thread, Admission(t)
  PROVE  [Promise!Next]_<<Mode, Writing>>
<1>1. CASE TryRLock(t)
  BY <1>1, Invisible DEF TryRLock, AboutToTry, At, Goto, IInv, TypeOK
<1>2. CASE TryRLockFails(t)
  BY <1>2, Invisible DEF TryRLockFails, AboutToTry, At, Leave, Goto, IInv, TypeOK
<1>3. CASE Refused(t)
  BY <1>3, Invisible DEF Refused, At, Leave, Goto, IInv, TypeOK
<1>4. CASE Admitted(t)
  <2>1. Mode = "open" /\ Mode' = "open"
    BY <1>4 DEF Admitted, IsWritable, IInv, StatePlaced, Mode
  <2>2. Writing' = Writing \cup {t}
    BY <1>4 DEF Admitted, Goto, Writing, At, IInv, TypeOK
  <2>3. Promise!Admit(t)
    BY <2>1, <2>2 DEF Promise!Admit
  <2> QED BY <2>3 DEF Promise!Next
<1>5. CASE Finish(t)
  <2>1. CASE t \in Writer
    <3>1. pc[t] = "admitted" /\ pc' = [pc EXCEPT ![t] = "idle"]
      BY <1>5, <2>1 DEF Finish, Leave, Goto, At
    <3>2. t \in Writing /\ Writing' = Writing \ {t}
      BY <3>1 DEF Writing, At, IInv, TypeOK
    <3>3. Mode' = Mode
      BY <1>5, <3>1, <2>1, ThreadsApart DEF Finish, Mode, At, IInv, TypeOK
    <3>4. Promise!Retire(t)
      BY <3>2, <3>3 DEF Promise!Retire
    <3> QED BY <3>4 DEF Promise!Next
  <2>2. CASE t \notin Writer
    BY <1>5, <2>2, Invisible DEF Finish, Leave, Goto, At, IInv, TypeOK
  <2> QED BY <2>1, <2>2
<1> QED
  BY <1>1, <1>2, <1>3, <1>4, <1>5 DEF Admission

\* GiveUp and Upgrade end the ordinary write of a maintenance request.
LEMMA MappedRetire ==
  ASSUME IInv, NEW m \in Maintainer, GiveUp(m) \/ Upgrade(m)
  PROVE  [Promise!Next]_<<Mode, Writing>>
<1>1. PICK l \in {"leaving", "upgrading"} : pc[m] = "admitted" /\ pc' = [pc EXCEPT ![m] = l]
                                           /\ UNCHANGED <<state, rollbackFailed>>
  BY DEF GiveUp, Upgrade, At, Goto
<1>2. m \in Writing /\ Writing' = Writing \ {m}
  BY <1>1 DEF Writing, At, IInv, TypeOK, Thread
<1>3. Mode' = Mode
  BY <1>1 DEF Mode, At, IInv, TypeOK, Thread
<1>4. m \in Thread /\ Promise!Retire(m)
  BY <1>2, <1>3 DEF Promise!Retire, Thread
<1> QED BY <1>4 DEF Promise!Next

LEMMA MappedMaintenance ==
  ASSUME IInv, IInv', NEW m \in Maintainer, Arrive(m) \/ Serialize(m) \/ GiveUp(m) \/ Proceed(m)
  PROVE  [Promise!Next]_<<Mode, Writing>>
<1>0. m \in Thread /\ pc \in [Thread -> Labels] /\ state \in States
  BY DEF Thread, IInv, TypeOK
<1>1. CASE Arrive(m) \/ Serialize(m)
  BY <1>0, <1>1, Invisible DEF Arrive, Serialize, At, Goto
<1>2. CASE GiveUp(m) \/ Upgrade(m)
  BY <1>2, MappedRetire
<1>3. CASE LockMaintenance(m) \/ Announce(m) \/ UnlockBarrier(m) \/ UnlockMaintenance(m)
  BY <1>0, <1>3, Invisible DEF LockMaintenance, Announce, UnlockBarrier, UnlockMaintenance, At, Goto
<1>4. CASE Publish(m)
  <2>1. pc[m] = "locked" /\ pc' = [pc EXCEPT ![m] = "published"] /\ state' = kind[m]
        /\ rollbackFailed' = rollbackFailed /\ mmu = m /\ state' # "normal"
    BY <1>4 DEF Publish, At, Goto, IInv, TypeOK, LocksPlaced, Owning
  <2>2. \A x \in Maintainer : pc[x] \in Owning => x = m
    BY <2>1 DEF IInv, LocksPlaced
  <2>3. ~rollbackFailed /\ state = "normal"
    BY <1>0, <2>1, <2>2 DEF IInv, StatePlaced, Closing, Owning, Barring
  <2>4. \A x \in Maintainer : pc'[x] # "exclusive"
    BY <1>0, <2>1, <2>2 DEF Owning, Barring, Thread
  <2>5. Mode = "open" /\ Mode' = "closing"
    BY <2>1, <2>3, <2>4 DEF Mode, At
  <2>6. Writing' = Writing
    BY <1>0, <2>1 DEF Writing, At
  <2>7. Promise!Close
    BY <2>5, <2>6 DEF Promise!Close
  <2> QED BY <2>7 DEF Promise!Next
<1>5. CASE Enter(m)
  <2>1. pc[m] = "draining" /\ pc' = [pc EXCEPT ![m] = "exclusive"] /\ readers = 0
        /\ UNCHANGED <<state, rollbackFailed>> /\ mmu = m
    BY <1>5 DEF Enter, At, Goto, IInv, LocksPlaced, Owning, Barring
  <2>2. ~rollbackFailed /\ state # "normal"
    BY <1>0, <2>1 DEF IInv, StatePlaced, Closing
  <2>3. \A x \in Maintainer : pc[x] # "exclusive"
    BY <2>1 DEF IInv, LocksPlaced, Owning, Barring
  <2>4. pc'[m] = "exclusive"
    BY <1>0, <2>1
  <2>5. Mode = "closing" /\ Mode' = "exclusive"
    BY <2>1, <2>2, <2>3, <2>4 DEF Mode, At
  <2>6. Writing = {} /\ Writing' = {}
    BY <1>0, <2>1, NoLeaseNoReader DEF IInv, LeasesPlaced, Writing, At
  <2>7. Promise!Enter
    BY <2>5, <2>6 DEF Promise!Enter
  <2> QED BY <2>7 DEF Promise!Next
<1>6. CASE EndMaintenance(m)
  <2>1. pc[m] = "exclusive" /\ pc' = [pc EXCEPT ![m] = "ended"]
    BY <1>6 DEF EndMaintenance, At, Goto
  <2>2. ~rollbackFailed /\ state # "normal" /\ previous[m] = "normal"
    BY <1>0, <2>1 DEF IInv, StatePlaced, Closing
  <2>3. Mode = "exclusive"
    BY <2>1, <2>2 DEF Mode, At
  <2>4. Mode' \in {"open", "closed"}
    BY <1>6, <2>2 DEF EndMaintenance, FinalState, Mode
  <2>5. Writing' = Writing
    BY <1>0, <2>1 DEF Writing, At
  <2>6. Promise!Reopen
    BY <2>3, <2>4, <2>5 DEF Promise!Reopen
  <2> QED BY <2>6 DEF Promise!Next
<1> QED
  BY <1>1, <1>2, <1>3, <1>4, <1>5, <1>6 DEF Proceed

\* ConcurrencyGuard, writeGateMiddleware and withWriteLease together keep
\* the promise of WriteAdmission, whatever the number of threads.
THEOREM GateImplementsAdmission == Spec => ImplementsWriteAdmission
<1>1. IInv /\ IInv' /\ [Next]_vars => [Promise!Next]_<<Mode, Writing>>
  <2> SUFFICES ASSUME IInv, IInv', [Next]_vars PROVE [Promise!Next]_<<Mode, Writing>>
    OBVIOUS
  <2>1. CASE UNCHANGED vars
    BY <2>1 DEF vars, Mode, Writing, At
  <2>2. CASE Next
    BY <2>2, MappedAdmission, MappedMaintenance DEF Next
  <2> QED BY <2>1, <2>2
<1> QED
  BY <1>1, MappedInit, InductiveInvariant, PTL DEF Spec, ImplementsWriteAdmission, Promise!Spec
=============================================================================
