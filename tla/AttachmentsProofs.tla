-------------------------- MODULE AttachmentsProofs --------------------------
(***************************************************************************)
(* Proofs about Attachments, for any number of attachments and             *)
(* transactions, any quota, batch and set of stuck objects, and any number *)
(* of failures and losses of power.                                        *)
(***************************************************************************)
EXTENDS Attachments, FiniteSetTheorems, TLAPS

\* What a pass has read and may still work on was queued when it was read.
Doomed == queue \cup pass.rest \cup {pass.head}

\* An attachment with a row is past its upload, stored, and nobody's prey.
RowsAreSafe ==
  \A a \in rows : upload[a] = "over" /\ disk[a] = "stored" /\ a \notin Doomed
\* Nothing that is to be deleted can still get a row.
DoomedAreDead ==
  \A a \in Attachment : a \in Doomed => upload[a] \in {"note", "over"}
\* The directory holds nothing before Save, and the object after it.
UploadsPlaced ==
  \A a \in Attachment : /\ upload[a] \in {"new", "saving"} => disk[a] = "absent"
                        /\ upload[a] = "saved" => disk[a] = "stored"
\* An entry is taken out of the queue after the object is gone.
CompleteIsGone == pass.at = "complete" => pass.head \in Attachment /\ disk[pass.head] # "stored"
\* The quota counts, so there is something to count.
RowsCounted == IsFiniteSet(rows) /\ Cardinality(rows) <= MaxFiles

IInv ==
  /\ TypeOK /\ RowsAreSafe /\ DoomedAreDead /\ UploadsPlaced /\ CompleteIsGone
  /\ RowsCounted /\ PrimaryIsLinked /\ NothingElseIsForgotten

\* The definitions nearly every step has to look into.
USE NamesAreApart, NumbersAreNat

(* The initial state satisfies the invariant: no rows, no objects.           *)
LEMMA InitEstablishes == Init => IInv
<1> SUFFICES ASSUME Init PROVE IInv
  OBVIOUS
<1>1. TypeOK
  BY DEF Init, TypeOK, IdlePass, PassStates, UploadStates
<1>2. RowsCounted
  BY FS_EmptySet DEF Init, RowsCounted
<1>3. RowsAreSafe /\ DoomedAreDead /\ UploadsPlaced /\ CompleteIsGone
  BY DEF Init, RowsAreSafe, DoomedAreDead, UploadsPlaced, CompleteIsGone, Doomed, IdlePass
<1>4. PrimaryIsLinked /\ NothingElseIsForgotten
  BY DEF Init, PrimaryIsLinked, NothingElseIsForgotten
<1> QED
  BY <1>1, <1>2, <1>3, <1>4 DEF IInv

(* Every step of an upload keeps the types.                                  *)
LEMMA UploadKeepsTypes ==
  ASSUME TypeOK, NEW a \in Attachment, Upload(a) PROVE TypeOK'
<1> USE DEF TypeOK, UploadStates, data, queued, Fault, NoFault, At
<1>1. CASE \E t \in Tx \cup {NoTx} : StartUpload(a, t)
  BY <1>1 DEF StartUpload
<1>2. CASE SaveOk(a) \/ SaveFails(a)
  BY <1>2 DEF SaveOk, SaveFails
<1>3. CASE \E d \in {"stored", "removed"} : SaveLeaves(a, d)
  BY <1>3 DEF SaveLeaves
<1>4. CASE CommitUpload(a)
  BY <1>4 DEF CommitUpload, SetKey
<1>5. CASE RejectUpload(a)
  BY <1>5 DEF RejectUpload
<1>6. CASE UndoSave(a) \/ UndoSaveFails(a)
  BY <1>6 DEF UndoSave, UndoSaveFails, Deleted, DeleteFails, NotDeleted
<1>7. CASE QueueUndo(a)
  BY <1>7 DEF QueueUndo, Enqueue
<1>8. CASE QueueUndoFails(a) \/ NoteUndoFails(a)
  BY <1>8 DEF QueueUndoFails, NoteUndoFails
<1>9. CASE NoteUndo(a)
  BY <1>9 DEF NoteUndo, MoveToBack
<1> QED
  BY <1>1, <1>2, <1>3, <1>4, <1>5, <1>6, <1>7, <1>8, <1>9 DEF Upload

(* So does every step that links or removes rows.                            *)
LEMMA RowsKeepTypes == ASSUME TypeOK, Rows PROVE TypeOK'
<1> USE DEF TypeOK, UploadStates, data, queued
<1>1. ASSUME NEW a \in Attachment, Expire(a) PROVE TypeOK'
  BY <1>1 DEF Expire
<1>2. ASSUME NEW a \in Attachment, Delete(a) PROVE TypeOK'
  BY <1>2 DEF Delete, RemoveRows, Enqueue, WithoutKey
<1>3. ASSUME NEW a \in Attachment, NEW t \in Tx, Link(a, t) PROVE TypeOK'
  BY <1>3 DEF Link, MoveKey, WithoutKey
<1>4. CASE CleanupExpiredOrphans
  BY <1>4 DEF CleanupExpiredOrphans, FirstOf, Orphans, RemoveRows, Enqueue
<1>5. CASE DeleteUser
  <2>1. queue' = queue \cup rows /\ older' = older \cup (queue \X (rows \ queue))
    BY <1>5 DEF DeleteUser, RemoveRows, Enqueue
  <2>2. older' \subseteq queue' \X queue'
    BY <2>1
  <2>3. rows' = {} /\ owner' = FALSE /\ primary' = [t \in Tx |-> NoFile] /\ owing' = owing + 1
    BY <1>5 DEF DeleteUser, RemoveRows
  <2>4. UNCHANGED <<link, expired, disk, upload, pass, faults, crashes, forgotten>>
    BY <1>5 DEF DeleteUser
  <2>5. queue' \subseteq Attachment /\ owing' \in Nat /\ primary' \in [Tx -> Attachment \cup {NoFile}]
    BY <2>1, <2>3
  <2>6. owner' \in BOOLEAN /\ rows' \subseteq Attachment
    BY <2>3
  <2>7. /\ expired' \subseteq Attachment /\ forgotten' \subseteq Attachment
        /\ link' \in [Attachment -> Tx \cup {NoTx}]
        /\ disk' \in [Attachment -> {"absent", "stored", "removed"}]
        /\ upload' \in [Attachment -> UploadStates]
        /\ pass' \in PassStates
        /\ faults' \in 0..MaxFaults /\ crashes' \in 0..MaxCrashes
    BY <2>4
  <2> QED
    BY <2>2, <2>5, <2>6, <2>7
<1> QED
  BY <1>1, <1>2, <1>3, <1>4, <1>5 DEF Rows

(* So do the passes over the queue and a loss of power.                      *)
LEMMA OthersKeepTypes ==
  ASSUME TypeOK, WorkerPass \/ RequestPass \/ Drain \/ AbandonPass \/ Crash \/ UNCHANGED vars
  PROVE  TypeOK'
<1> USE DEF TypeOK, UploadStates, PassStates, data, queued, Fault, NoFault
<1>1. CASE WorkerPass \/ RequestPass
  BY <1>1 DEF WorkerPass, RequestPass, StartPass, FirstOf
<1>2. ASSUME NEW a \in Attachment, DeleteObject(a) PROVE TypeOK'
  BY <1>2 DEF DeleteObject, Step, Deleted, DeleteFails, NotDeleted
<1>3. CASE CompleteDeletion
  BY <1>3 DEF CompleteDeletion, Dequeue, Continue
<1>4. CASE MarkDeletionFailed
  BY <1>4 DEF MarkDeletionFailed, MoveToBack, Continue
<1>5. CASE RecordFails
  BY <1>5 DEF RecordFails, Continue
<1>6. CASE EndPass \/ AbandonPass
  BY <1>6 DEF EndPass, AbandonPass, IdlePass
<1>7. CASE Crash
  BY <1>7 DEF Crash, IdlePass
<1>8. CASE UNCHANGED vars
  BY <1>8 DEF vars
<1> QED
  BY <1>1, <1>2, <1>3, <1>4, <1>5, <1>6, <1>7, <1>8 DEF Drain

LEMMA TypesKept == TypeOK /\ [Next]_vars => TypeOK'
  BY UploadKeepsTypes, RowsKeepTypes, OthersKeepTypes DEF Next

------------------------------------------------------------------------------
(* Rows, objects and the queue.                                              *)

Structure == RowsAreSafe /\ DoomedAreDead /\ UploadsPlaced /\ CompleteIsGone

(* An upload touches its own attachment only, which has no row and, until it *)
(* is undone, is not to be deleted.                                          *)
LEMMA UploadKeepsStructure ==
  ASSUME TypeOK, Structure, NEW a \in Attachment, Upload(a) PROVE Structure'
<1> USE DEF TypeOK, Structure, RowsAreSafe, DoomedAreDead, UploadsPlaced, CompleteIsGone, Doomed,
            data, queued, Fault, NoFault, At
<1>1. CASE \E t \in Tx \cup {NoTx} : StartUpload(a, t)
  BY <1>1 DEF StartUpload
<1>2. CASE SaveOk(a) \/ SaveFails(a)
  BY <1>2 DEF SaveOk, SaveFails
<1>3. CASE \E d \in {"stored", "removed"} : SaveLeaves(a, d)
  BY <1>3 DEF SaveLeaves
<1>4. CASE CommitUpload(a)
  BY <1>4 DEF CommitUpload
<1>5. CASE RejectUpload(a)
  BY <1>5 DEF RejectUpload
<1>6. CASE UndoSave(a) \/ UndoSaveFails(a)
  BY <1>6 DEF UndoSave, UndoSaveFails, Deleted, DeleteFails, NotDeleted
<1>7. CASE QueueUndo(a)
  BY <1>7 DEF QueueUndo, Enqueue
<1>8. CASE QueueUndoFails(a) \/ NoteUndoFails(a)
  BY <1>8 DEF QueueUndoFails, NoteUndoFails
<1>9. CASE NoteUndo(a)
  BY <1>9 DEF NoteUndo, MoveToBack
<1> QED
  BY <1>1, <1>2, <1>3, <1>4, <1>5, <1>6, <1>7, <1>8, <1>9 DEF Upload

(* What leaves rows enters the queue, and its upload is over.                *)
LEMMA RowsKeepStructure == ASSUME TypeOK, Structure, Rows PROVE Structure'
<1> USE DEF TypeOK, Structure, RowsAreSafe, DoomedAreDead, UploadsPlaced, CompleteIsGone, Doomed,
            data, queued
<1>1. ASSUME NEW a \in Attachment, Expire(a) PROVE Structure'
  BY <1>1 DEF Expire
<1>2. ASSUME NEW a \in Attachment, Delete(a) PROVE Structure'
  BY <1>2 DEF Delete, RemoveRows, Enqueue
<1>3. ASSUME NEW a \in Attachment, NEW t \in Tx, Link(a, t) PROVE Structure'
  BY <1>3 DEF Link
<1>4. CASE CleanupExpiredOrphans
  BY <1>4 DEF CleanupExpiredOrphans, FirstOf, Orphans, RemoveRows, Enqueue
<1>5. CASE DeleteUser
  BY <1>5 DEF DeleteUser, RemoveRows, Enqueue
<1> QED
  BY <1>1, <1>2, <1>3, <1>4, <1>5 DEF Rows

(* A pass deletes only what is doomed, and a loss of power decides only about *)
(* objects without rows.                                                      *)
LEMMA OthersKeepStructure ==
  ASSUME TypeOK, Structure,
         WorkerPass \/ RequestPass \/ Drain \/ AbandonPass \/ Crash \/ UNCHANGED vars
  PROVE  Structure'
<1> USE DEF TypeOK, Structure, RowsAreSafe, DoomedAreDead, UploadsPlaced, CompleteIsGone, Doomed,
            data, queued, Fault, NoFault, PassStates, IdlePass
<1>1. CASE WorkerPass \/ RequestPass
  BY <1>1 DEF WorkerPass, RequestPass, StartPass, FirstOf
<1>2. ASSUME NEW a \in Attachment, DeleteObject(a) PROVE Structure'
  BY <1>2 DEF DeleteObject, Head, Step, Deleted, DeleteFails, NotDeleted
<1>3. CASE CompleteDeletion
  BY <1>3 DEF CompleteDeletion, Dequeue, Continue
<1>4. CASE MarkDeletionFailed
  BY <1>4 DEF MarkDeletionFailed, MoveToBack, Continue
<1>5. CASE RecordFails
  BY <1>5 DEF RecordFails, Continue
<1>6. CASE EndPass \/ AbandonPass
  BY <1>6 DEF EndPass, AbandonPass
<1>7. CASE Crash
  BY <1>7 DEF Crash
<1>8. CASE UNCHANGED vars
  BY <1>8 DEF vars
<1> QED
  BY <1>1, <1>2, <1>3, <1>4, <1>5, <1>6, <1>7, <1>8 DEF Drain

LEMMA StructureKept == TypeOK /\ Structure /\ [Next]_vars => Structure'
  BY UploadKeepsStructure, RowsKeepStructure, OthersKeepStructure DEF Next

------------------------------------------------------------------------------
(* The quota.                                                                *)

(* Rows come one at a time, and only while there is room.                    *)
LEMMA RowsGrowByOne ==
  ASSUME [Next]_vars
  PROVE  rows' \subseteq rows \/ \E a \in Attachment : rows' = rows \cup {a} /\ Cardinality(rows) < MaxFiles
<1> USE DEF data, queued
<1>1. ASSUME NEW a \in Attachment, Upload(a), ~CommitUpload(a) PROVE rows' = rows
  BY <1>1 DEF Upload, StartUpload, SaveOk, SaveFails, SaveLeaves, RejectUpload, UndoSave, UndoSaveFails,
              QueueUndo, QueueUndoFails, NoteUndo, NoteUndoFails
<1>2. ASSUME NEW a \in Attachment, CommitUpload(a) PROVE rows' = rows \cup {a} /\ Cardinality(rows) < MaxFiles
  BY <1>2 DEF CommitUpload, WithinQuota
<1>3. CASE Rows
  BY <1>3 DEF Rows, Expire, Delete, Link, CleanupExpiredOrphans, DeleteUser, RemoveRows
<1>4. CASE WorkerPass \/ RequestPass \/ Drain \/ AbandonPass \/ Crash \/ UNCHANGED vars
  BY <1>4 DEF WorkerPass, RequestPass, StartPass, Drain, DeleteObject, CompleteDeletion, MarkDeletionFailed,
              RecordFails, EndPass, AbandonPass, Crash, vars
<1> QED
  BY <1>1, <1>2, <1>3, <1>4 DEF Next

LEMMA CountKept == RowsCounted /\ [Next]_vars => RowsCounted'
<1> SUFFICES ASSUME RowsCounted, [Next]_vars PROVE RowsCounted'
  OBVIOUS
<1>1. CASE rows' \subseteq rows
  <2>1. IsFiniteSet(rows') /\ Cardinality(rows') <= Cardinality(rows)
    BY <1>1, FS_Subset DEF RowsCounted
  <2>2. Cardinality(rows) \in Nat /\ Cardinality(rows') \in Nat
    BY <2>1, FS_CardinalityType DEF RowsCounted
  <2> QED
    BY <2>1, <2>2 DEF RowsCounted
<1>2. ASSUME NEW a \in Attachment, rows' = rows \cup {a}, Cardinality(rows) < MaxFiles
      PROVE  RowsCounted'
  <2>1. Cardinality(rows) \in Nat
    BY FS_CardinalityType DEF RowsCounted
  <2>2. IsFiniteSet(rows') /\ Cardinality(rows') = IF a \in rows THEN Cardinality(rows) ELSE Cardinality(rows) + 1
    BY <1>2, FS_AddElement DEF RowsCounted
  <2> QED
    BY <1>2, <2>1, <2>2 DEF RowsCounted
<1> QED
  BY <1>1, <1>2, RowsGrowByOne

------------------------------------------------------------------------------
(* The key in the transaction.                                               *)

(* Whoever changes rows, links or keys keeps them together.  A new row cannot *)
(* take a key from another, and one that goes takes its own key along.        *)
LEMMA PrimaryKept == TypeOK /\ RowsAreSafe /\ PrimaryIsLinked /\ [Next]_vars => PrimaryIsLinked'
<1> SUFFICES ASSUME TypeOK, RowsAreSafe, PrimaryIsLinked, [Next]_vars PROVE PrimaryIsLinked'
  OBVIOUS
<1> USE DEF TypeOK, PrimaryIsLinked, data, queued
<1>1. ASSUME NEW a \in Attachment, NEW t \in Tx \cup {NoTx}, StartUpload(a, t) PROVE PrimaryIsLinked'
  BY <1>1 DEF StartUpload, RowsAreSafe, At
<1>2. ASSUME NEW a \in Attachment, CommitUpload(a) PROVE PrimaryIsLinked'
  BY <1>2 DEF CommitUpload, SetKey
<1>3. ASSUME NEW a \in Attachment, NEW t \in Tx, Link(a, t) PROVE PrimaryIsLinked'
  BY <1>3 DEF Link, MoveKey, WithoutKey
<1>4. ASSUME NEW a \in Attachment, Delete(a) PROVE PrimaryIsLinked'
  BY <1>4 DEF Delete, RemoveRows, WithoutKey
<1>5. CASE CleanupExpiredOrphans
  BY <1>5 DEF CleanupExpiredOrphans, FirstOf, Orphans, RemoveRows
<1>6. CASE DeleteUser
  BY <1>6 DEF DeleteUser
<1>7. CASE UNCHANGED <<rows, link, primary>>
  BY <1>7
<1>8. ASSUME NEW a \in Attachment, Upload(a)
      PROVE  \/ \E t \in Tx \cup {NoTx} : StartUpload(a, t)
             \/ CommitUpload(a) \/ UNCHANGED <<rows, link, primary>>
  BY <1>8 DEF Upload, SaveOk, SaveFails, SaveLeaves, RejectUpload, UndoSave, UndoSaveFails,
              QueueUndo, QueueUndoFails, NoteUndo, NoteUndoFails
<1>9. ASSUME NEW a \in Attachment, Expire(a) PROVE UNCHANGED <<rows, link, primary>>
  BY <1>9 DEF Expire
<1>10. CASE WorkerPass \/ RequestPass \/ Drain \/ AbandonPass \/ Crash \/ UNCHANGED vars
  BY <1>7, <1>10 DEF WorkerPass, RequestPass, StartPass, Drain, DeleteObject, CompleteDeletion,
              MarkDeletionFailed, RecordFails, EndPass, AbandonPass, Crash, vars
<1> QED
  BY <1>1, <1>2, <1>3, <1>4, <1>5, <1>6, <1>7, <1>8, <1>9, <1>10 DEF Next, Rows

------------------------------------------------------------------------------
(* Objects without rows.                                                     *)

(* An object can appear only under an upload or by a loss of power, and stops *)
(* being a row's or the queue's only when it is queued or gone.              *)
LEMMA AccountKept == TypeOK /\ Structure /\ NothingElseIsForgotten /\ [Next]_vars => NothingElseIsForgotten'
<1> SUFFICES ASSUME TypeOK, Structure, NothingElseIsForgotten, [Next]_vars PROVE NothingElseIsForgotten'
  OBVIOUS
<1> USE DEF TypeOK, NothingElseIsForgotten, data, queued, Fault, NoFault
<1>1. ASSUME NEW a \in Attachment, Upload(a) PROVE NothingElseIsForgotten'
  <2> USE DEF At
  <2>1. CASE \E t \in Tx \cup {NoTx} : StartUpload(a, t)
    BY <2>1 DEF StartUpload
  <2>2. CASE SaveOk(a) \/ SaveFails(a)
    BY <2>2 DEF SaveOk, SaveFails, Structure, UploadsPlaced
  <2>3. CASE \E d \in {"stored", "removed"} : SaveLeaves(a, d)
    BY <2>3 DEF SaveLeaves
  <2>4. CASE CommitUpload(a) \/ RejectUpload(a)
    BY <2>4 DEF CommitUpload, RejectUpload
  <2>5. CASE UndoSave(a) \/ UndoSaveFails(a)
    BY <2>5 DEF UndoSave, UndoSaveFails, Deleted, DeleteFails, NotDeleted
  <2>6. CASE QueueUndo(a) \/ QueueUndoFails(a)
    BY <2>6 DEF QueueUndo, QueueUndoFails, Enqueue
  <2>7. CASE NoteUndo(a) \/ NoteUndoFails(a)
    BY <2>7 DEF NoteUndo, NoteUndoFails, MoveToBack
  <2> QED
    BY <1>1, <2>1, <2>2, <2>3, <2>4, <2>5, <2>6, <2>7 DEF Upload
<1>2. CASE Rows
  BY <1>2 DEF Rows, Expire, Delete, Link, CleanupExpiredOrphans, DeleteUser, RemoveRows, Enqueue
<1>3. CASE WorkerPass \/ RequestPass \/ AbandonPass \/ EndPass \/ RecordFails
  BY <1>3 DEF WorkerPass, RequestPass, StartPass, AbandonPass, EndPass, RecordFails
<1>4. ASSUME NEW a \in Attachment, DeleteObject(a) PROVE NothingElseIsForgotten'
  BY <1>4 DEF DeleteObject, Deleted, DeleteFails, NotDeleted
<1>5. CASE CompleteDeletion
  BY <1>5 DEF CompleteDeletion, Dequeue, Structure, CompleteIsGone
<1>6. CASE MarkDeletionFailed
  BY <1>6 DEF MarkDeletionFailed, MoveToBack
<1>7. CASE Crash
  BY <1>7 DEF Crash
<1>8. CASE UNCHANGED vars
  BY <1>8 DEF vars
<1> QED
  BY <1>1, <1>2, <1>3, <1>4, <1>5, <1>6, <1>7, <1>8 DEF Next, Drain

------------------------------------------------------------------------------

(* The invariant holds in every state.                                       *)
THEOREM Invariant == Spec => []IInv
<1>1. IInv /\ [Next]_vars => IInv'
  BY TypesKept, StructureKept, CountKept, PrimaryKept, AccountKept DEF IInv, Structure
<1> QED
  BY InitEstablishes, <1>1, PTL DEF Spec

(* Type correctness of the attachment tables, the directory, and the queue.  *)
THEOREM TypeCorrect == Spec => []TypeOK
<1>1. IInv => TypeOK
  BY DEF IInv
<1> QED
  BY Invariant, <1>1, PTL

(* Whatever fails or is interrupted, every attachment row has its object in  *)
(* the directory.                                                            *)
THEOREM RowsAlwaysHaveObjects == Spec => []RowsHaveObjects
<1>1. IInv => RowsHaveObjects
  BY DEF IInv, RowsAreSafe, RowsHaveObjects
<1> QED
  BY Invariant, <1>1, PTL

(* A pass over the deletion queue never takes the object of a row, nor of an *)
(* upload that may still commit one.                                         *)
THEOREM QueueIsAlwaysDead == Spec => []QueueIsDead
<1>1. IInv => QueueIsDead
  BY DEF IInv, TypeOK, RowsAreSafe, DoomedAreDead, Doomed, QueueIsDead
<1> QED
  BY Invariant, <1>1, PTL

(* CreateWithinQuota never lets an account exceed its quota, whatever the    *)
(* uploads read before.                                                      *)
THEOREM QuotaAlwaysHolds == Spec => []QuotaHolds
<1>1. IInv => QuotaHolds
  BY DEF IInv, RowsCounted, QuotaHolds
<1> QED
  BY Invariant, <1>1, PTL

(* A transaction's attachment_key names an attachment linked to it.          *)
THEOREM PrimaryIsAlwaysLinked == Spec => []PrimaryIsLinked
<1>1. IInv => PrimaryIsLinked
  BY DEF IInv
<1> QED
  BY Invariant, <1>1, PTL

(* The listed double failures are the only ways to lose sight of an object.  *)
THEOREM NothingElseIsEverForgotten == Spec => []NothingElseIsForgotten
<1>1. IInv => NothingElseIsForgotten
  BY DEF IInv
<1> QED
  BY Invariant, <1>1, PTL

(* Only a request to delete the attachment or the account takes a linked row *)
(* away; the orphan clean-up does not.                                       *)
THEOREM LinkedRowsStay == Spec => LinkedStay
<1>1. TypeOK /\ [Next]_vars => [\A a \in rows \ rows' : link[a] # NoTx => owing' > owing]_vars
  <2> SUFFICES ASSUME TypeOK, [Next]_vars, NEW a \in rows \ rows', link[a] # NoTx PROVE owing' > owing
    OBVIOUS
  <2>1. CASE \E b \in Attachment : Delete(b)
    BY <2>1 DEF Delete, TypeOK
  <2>2. CASE DeleteUser
    BY <2>2 DEF DeleteUser, TypeOK
  <2>3. CASE CleanupExpiredOrphans
    BY <2>3 DEF CleanupExpiredOrphans, FirstOf, Orphans, RemoveRows
  <2>4. CASE \E b \in Attachment : Upload(b) \/ Expire(b) \/ \E t \in Tx : Link(b, t)
    BY <2>4 DEF Upload, StartUpload, SaveOk, SaveFails, SaveLeaves, CommitUpload, RejectUpload, UndoSave,
                UndoSaveFails, QueueUndo, QueueUndoFails, NoteUndo, NoteUndoFails, Expire, Link, data
  <2>5. CASE WorkerPass \/ RequestPass \/ Drain \/ AbandonPass \/ Crash \/ UNCHANGED vars
    BY <2>5 DEF WorkerPass, RequestPass, StartPass, Drain, DeleteObject, CompleteDeletion,
                MarkDeletionFailed, RecordFails, EndPass, AbandonPass, Crash, vars, data
  <2> QED
    BY <2>1, <2>2, <2>3, <2>4, <2>5 DEF Next, Rows
<1> QED
  BY TypeCorrect, <1>1, PTL DEF Spec, LinkedStay
=============================================================================
