---------------------------- MODULE Attachments ----------------------------
(***************************************************************************)
(* Attachments of one account: rows in the database, objects in a          *)
(* directory, and the durable queue of objects that are to be deleted.     *)
(* Database and directory cannot commit together, so an upload writes the  *)
(* object first and the row second, and a deletion commits the row's       *)
(* removal with a queue entry and removes the object later.                *)
(*                                                                         *)
(* An upload makes a new attachment id and with it a new storage key, so   *)
(* the upload, its row, its object and its queue entry are all named by    *)
(* the attachment.  Database transactions are serialized and durable       *)
(* (_txlock=immediate, synchronous=FULL) and are one action each.  A crash *)
(* is a loss of power: what the directory has not been synced for is       *)
(* undecided.                                                              *)
(***************************************************************************)
EXTENDS Naturals, FiniteSets

CONSTANTS
  Attachment, Tx, NoTx, NoFile,
  MaxFiles,     \* FINARCH_ATTACHMENT_MAX_FILES_PER_USER
  Batch,        \* size of one pass over the queue, and of one orphan clean-up
  Stuck,        \* objects the storage never manages to delete
  MaxFaults,    \* bound: failures that pass
  MaxCrashes    \* bound: losses of power

ASSUME NamesAreApart == NoTx \notin Tx /\ NoFile \notin Attachment
ASSUME NumbersAreNat == MaxFiles \in Nat /\ Batch \in Nat /\ MaxFaults \in Nat /\ MaxCrashes \in Nat
ASSUME StuckAreAttachments == Stuck \subseteq Attachment

VARIABLES
  owner,     \* the account exists
  rows,      \* attachments rows
  link,      \* their transaction_id; before that, the one the upload asks for
  primary,   \* transactions.attachment_key
  expired,   \* created before the orphan time limit
  disk,      \* the object: "removed" is an unlink the directory is not synced for
  upload,    \* where the upload of this attachment is
  queue,     \* attachment_deletion_queue
  older,     \* its order by updated_at: pairs of earlier and later entry
  pass,      \* the running pass over the queue, under deletionMu
  owing,     \* passes that requests have yet to make
  faults, crashes,
  forgotten  \* objects the code has lost sight of (no variable of the code)

data == <<owner, rows, link, primary, expired>>
queued == <<queue, older>>
vars == <<data, disk, upload, queued, pass, owing, faults, crashes, forgotten>>

IdlePass == [at |-> "idle", for |-> "worker", rest |-> {}, head |-> NoFile]
PassStates == [at : {"idle", "next", "complete", "mark"}, for : {"worker", "request"},
               rest : SUBSET Attachment, head : Attachment \cup {NoFile}]
UploadStates == {"new", "saving", "saved", "undo", "enqueue", "note", "over"}

Init ==
  /\ owner = TRUE
  /\ rows = {} /\ expired = {} /\ queue = {} /\ older = {} /\ forgotten = {}
  /\ link = [a \in Attachment |-> NoTx]
  /\ primary = [t \in Tx |-> NoFile]
  /\ disk = [a \in Attachment |-> "absent"]
  /\ upload = [a \in Attachment |-> "new"]
  /\ pass = IdlePass
  /\ owing = 0 /\ faults = 0 /\ crashes = 0

------------------------------------------------------------------------------
(* The queue.                                                              *)

\* EnqueueDeletion, EnqueueUserDeletions: ON CONFLICT DO NOTHING.
Enqueue(S) ==
  /\ queue' = queue \cup S
  /\ older' = older \cup (queue \X (S \ queue))
\* CompleteDeletion
Dequeue(a) ==
  /\ queue' = queue \ {a}
  /\ older' = {p \in older : p[1] # a /\ p[2] # a}
\* Mutant: updated_at stays as it was.
LeaveInPlace(a) == UNCHANGED queued
\* MarkDeletionFailed: updated_at becomes the newest.
MoveToBack(a) ==
  /\ queue' = queue
  /\ older' = IF a \in queue
              THEN {p \in older : p[1] # a /\ p[2] # a} \cup ((queue \ {a}) \X {a})
              ELSE older

\* The choices for ORDER BY ... LIMIT: no row left out is before one taken.
FirstOf(S, before, n) ==
  {B \in SUBSET S : /\ Cardinality(B) <= n
                    /\ Cardinality(B) < n => B = S
                    /\ \A a \in B, b \in S \ B : <<b, a>> \notin before}

Fault == faults < MaxFaults /\ faults' = faults + 1
NoFault == UNCHANGED faults

------------------------------------------------------------------------------
(* Upload.                                                                 *)

At(a, from, to) == upload[a] = from /\ upload' = [upload EXCEPT ![a] = to]

\* Upload: the account's usage and the transaction are read, in no transaction.
StartUpload(a, t) ==
  /\ owner /\ Cardinality(rows) < MaxFiles
  /\ At(a, "new", "saving")
  /\ link' = [link EXCEPT ![a] = t]
  /\ UNCHANGED <<owner, rows, primary, expired, disk, queued, pass, owing, faults, crashes, forgotten>>

\* LocalAttachmentStorage.Save returns without error: renamed and synced.
SaveOk(a) ==
  /\ At(a, "saving", "saved")
  /\ disk' = [disk EXCEPT ![a] = "stored"]
  /\ UNCHANGED <<data, queued, pass, owing, faults, crashes, forgotten>>

\* Save fails before the rename, or finds the client gone after it and removes
\* the object again; nothing is left but the answer.
SaveFails(a) ==
  /\ At(a, "saving", "over")
  /\ UNCHANGED <<data, disk, queued, pass, owing, faults, crashes, forgotten>>

\* Save fails after the rename, in the sync, or in removing the object again;
\* Upload returns without compensation.
SaveLeaves(a, d) ==
  /\ Fault
  /\ At(a, "saving", "over")
  /\ disk' = [disk EXCEPT ![a] = d]
  /\ forgotten' = IF d = "stored" THEN forgotten \cup {a} ELSE forgotten
  /\ UNCHANGED <<data, queued, pass, owing, crashes>>

\* Mutant: the usage read at the start is trusted.
AsReadBefore == owner
\* CreateWithinQuota and the foreign key of user_id.
WithinQuota == owner /\ Cardinality(rows) < MaxFiles

\* SetAttachmentKey
SetKey(a) == primary' = [t \in Tx |-> IF t = link'[a] THEN a ELSE primary[t]]
\* ClearAttachmentKey: the transaction the row names, if it still has this key.
WithoutKey(a) == [t \in Tx |-> IF t = link[a] /\ primary[t] = a THEN NoFile ELSE primary[t]]

\* The transaction of Upload.
CommitUpload(a) ==
  /\ WithinQuota
  /\ At(a, "saved", "over")
  /\ rows' = rows \cup {a}
  /\ UNCHANGED link
  /\ SetKey(a)
  /\ UNCHANGED <<owner, expired, disk, queued, pass, owing, faults, crashes, forgotten>>

\* Mutant: the row has been committed when the upload is undone.
RejectCommitted(a) ==
  /\ owner
  /\ At(a, "saved", "undo")
  /\ rows' = rows \cup {a}
  /\ UNCHANGED <<owner, link, primary, expired, disk, queued, pass, owing, faults, crashes, forgotten>>
\* It is refused, or fails, or the client has gone: rolled back.
RejectUpload(a) ==
  /\ At(a, "saved", "undo")
  /\ UNCHANGED <<data, disk, queued, pass, owing, faults, crashes, forgotten>>

\* What LocalAttachmentStorage.Delete may do: remove the name and sync, or find
\* no name and return without a sync.
Deleted(a) == disk' = [disk EXCEPT ![a] = IF @ = "stored" THEN "absent" ELSE @]
\* It fails before or after the name is removed.
NotDeleted(a) == disk' = disk \/ disk' = [disk EXCEPT ![a] = IF @ = "stored" THEN "removed" ELSE @]
\* A passing failure is counted; that of a stuck object is for ever.
DeleteFails(a) ==
  \/ a \in Stuck /\ NoFault /\ disk' = disk
  \/ Fault /\ NotDeleted(a)

\* compensateFailedUpload
UndoSave(a) ==
  /\ a \notin Stuck
  /\ At(a, "undo", "over") /\ Deleted(a) /\ NoFault
  /\ UNCHANGED <<data, queued, pass, owing, crashes, forgotten>>
UndoSaveFails(a) ==
  /\ DeleteFails(a)
  /\ At(a, "undo", "enqueue")
  /\ UNCHANGED <<data, queued, pass, owing, crashes, forgotten>>
QueueUndo(a) ==
  /\ At(a, "enqueue", "note") /\ Enqueue({a})
  /\ UNCHANGED <<data, disk, pass, owing, faults, crashes, forgotten>>
QueueUndoFails(a) ==
  /\ Fault
  /\ At(a, "enqueue", "over")
  /\ forgotten' = forgotten \cup {a}
  /\ UNCHANGED <<data, disk, queued, pass, owing, crashes>>
NoteUndo(a) ==
  /\ At(a, "note", "over") /\ MoveToBack(a)
  /\ UNCHANGED <<data, disk, pass, owing, faults, crashes, forgotten>>
NoteUndoFails(a) ==
  /\ Fault
  /\ At(a, "note", "over")
  /\ UNCHANGED <<data, disk, queued, pass, owing, crashes, forgotten>>

Upload(a) ==
  \/ \E t \in Tx \cup {NoTx} : StartUpload(a, t)
  \/ SaveOk(a) \/ SaveFails(a) \/ \E d \in {"stored", "removed"} : SaveLeaves(a, d)
  \/ CommitUpload(a) \/ RejectUpload(a)
  \/ UndoSave(a) \/ UndoSaveFails(a)
  \/ QueueUndo(a) \/ QueueUndoFails(a) \/ NoteUndo(a) \/ NoteUndoFails(a)

------------------------------------------------------------------------------
(* Rows.                                                                   *)

\* The hours pass.
Expire(a) ==
  /\ a \in rows /\ a \notin expired
  /\ expired' = expired \cup {a}
  /\ UNCHANGED <<owner, rows, link, primary, disk, upload, queued, pass, owing, faults, crashes, forgotten>>

\* Mutant: the old transaction keeps the key.
LinkKeepingOld(a) == SetKey(a)
\* ClearAttachmentKey of another transaction, then SetAttachmentKey.
MoveKey(a) ==
  primary' = [t \in Tx |-> IF t = link'[a] THEN a ELSE WithoutKey(a)[t]]

\* AttachmentService.Link
Link(a, t) ==
  /\ a \in rows
  /\ link' = [link EXCEPT ![a] = t]
  /\ MoveKey(a)
  /\ UNCHANGED <<owner, rows, expired, disk, upload, queued, pass, owing, faults, crashes, forgotten>>

\* Mutant: the object is left to whoever finds it.
RemoveRowsOnly(S) ==
  /\ rows' = rows \ S /\ UNCHANGED queued
\* A row goes only together with its entry in the queue.
RemoveRows(S) ==
  /\ rows' = rows \ S /\ Enqueue(S)

\* AttachmentService.Delete, the transaction; its pass over the queue is to come.
Delete(a) ==
  /\ a \in rows
  /\ RemoveRows({a})
  /\ primary' = WithoutKey(a)
  /\ owing' = owing + 1
  /\ UNCHANGED <<owner, link, expired, disk, upload, pass, faults, crashes, forgotten>>

\* transaction_id IS NULL and created before the limit
Orphans == {a \in rows \cap expired : link[a] = NoTx}

\* cleanupExpiredOrphans; which of the oldest come first does not matter here.
CleanupExpiredOrphans ==
  /\ Orphans # {}
  /\ \E S \in FirstOf(Orphans, {}, Batch) : S # {} /\ RemoveRows(S)
  /\ UNCHANGED <<owner, link, primary, expired, disk, upload, pass, owing, faults, crashes, forgotten>>

\* ConfirmAccountDeletion: EnqueueUserDataDeletion and deleteUserData in one
\* transaction; its pass over the queue is to come.
DeleteUser ==
  /\ owner
  /\ owner' = FALSE
  /\ RemoveRows(rows)
  /\ primary' = [t \in Tx |-> NoFile]    \* the transactions go, too
  /\ owing' = owing + 1
  /\ UNCHANGED <<link, expired, disk, upload, pass, faults, crashes, forgotten>>

Rows ==
  \/ \E a \in Attachment : Expire(a) \/ Delete(a) \/ \E t \in Tx : Link(a, t)
  \/ CleanupExpiredOrphans \/ DeleteUser

------------------------------------------------------------------------------
(* DrainDeletionQueue, by the worker or at the end of a request.           *)

StartPass(who) ==
  /\ pass.at = "idle"
  /\ \E S \in FirstOf(queue, older, Batch) :
       pass' = [at |-> "next", for |-> who, rest |-> S, head |-> NoFile]
  /\ UNCHANGED <<data, disk, upload, queued, faults, crashes, forgotten>>
WorkerPass == queue # {} /\ StartPass("worker") /\ UNCHANGED owing
RequestPass == owing > 0 /\ StartPass("request") /\ owing' = owing - 1

\* Entries come in the order of the query.
Head(a) == a \in pass.rest /\ \A b \in pass.rest : <<b, a>> \notin older
Step(a, to) == pass' = [at |-> to, for |-> pass.for, rest |-> pass.rest \ {a}, head |-> a]
Continue == pass' = [at |-> "next", for |-> pass.for, rest |-> pass.rest, head |-> NoFile]

DeleteObject(a) ==
  /\ pass.at = "next" /\ Head(a)
  /\ \/ a \notin Stuck /\ Deleted(a) /\ NoFault /\ Step(a, "complete")
     \/ DeleteFails(a) /\ Step(a, "mark")
  /\ UNCHANGED <<data, upload, queued, owing, crashes, forgotten>>

CompleteDeletion ==
  /\ pass.at = "complete"
  /\ Dequeue(pass.head)
  /\ Continue
  /\ UNCHANGED <<data, disk, upload, owing, faults, crashes, forgotten>>
MarkDeletionFailed ==
  /\ pass.at = "mark"
  /\ MoveToBack(pass.head)
  /\ Continue
  /\ UNCHANGED <<data, disk, upload, owing, faults, crashes, forgotten>>
\* The statement fails; the entry stays as it was, and the pass goes on.
RecordFails ==
  /\ pass.at \in {"complete", "mark"}
  /\ Fault
  /\ Continue
  /\ UNCHANGED <<data, disk, upload, queued, owing, crashes, forgotten>>

EndPass ==
  /\ pass.at = "next" /\ pass.rest = {}
  /\ pass' = IdlePass
  /\ UNCHANGED <<data, disk, upload, queued, owing, faults, crashes, forgotten>>
\* The client of the request has gone (ctx.Err).
AbandonPass ==
  /\ pass.at = "next" /\ pass.for = "request"
  /\ pass' = IdlePass
  /\ UNCHANGED <<data, disk, upload, queued, owing, faults, crashes, forgotten>>

Drain ==
  \/ \E a \in Attachment : DeleteObject(a)
  \/ CompleteDeletion \/ MarkDeletionFailed \/ RecordFails \/ EndPass

------------------------------------------------------------------------------

\* Power is lost and comes back.  An unsynced removal may be undone, and an
\* object that was being saved may be there.
Crash ==
  /\ crashes < MaxCrashes /\ crashes' = crashes + 1
  /\ \E back \in SUBSET {a \in Attachment : disk[a] = "removed" \/ upload[a] = "saving"} :
       /\ disk' = [a \in Attachment |-> IF a \in back THEN "stored"
                                        ELSE IF disk[a] = "removed" THEN "absent" ELSE disk[a]]
       /\ forgotten' = forgotten \cup (back \ queue)
                         \cup {a \in Attachment : upload[a] \in {"saved", "undo", "enqueue"}}
  /\ upload' = [a \in Attachment |-> IF upload[a] = "new" THEN "new" ELSE "over"]
  /\ pass' = IdlePass /\ owing' = 0
  /\ UNCHANGED <<data, queued, faults>>

Next ==
  \/ \E a \in Attachment : Upload(a)
  \/ Rows
  \/ WorkerPass \/ RequestPass \/ Drain \/ AbandonPass
  \/ Crash

Spec == Init /\ [][Next]_vars /\ WF_vars(WorkerPass) /\ WF_vars(Drain)

------------------------------------------------------------------------------

TypeOK ==
  /\ owner \in BOOLEAN
  /\ rows \subseteq Attachment /\ expired \subseteq Attachment
  /\ queue \subseteq Attachment /\ forgotten \subseteq Attachment
  /\ older \subseteq queue \X queue
  /\ link \in [Attachment -> Tx \cup {NoTx}]
  /\ primary \in [Tx -> Attachment \cup {NoFile}]
  /\ disk \in [Attachment -> {"absent", "stored", "removed"}]
  /\ upload \in [Attachment -> UploadStates]
  /\ pass \in PassStates
  /\ owing \in Nat /\ faults \in 0..MaxFaults /\ crashes \in 0..MaxCrashes

(* What an attachment row promises can be opened: its object is in the        *)
(* directory, durably, whatever was interrupted (Open, OpenStorage).          *)
RowsHaveObjects == \A a \in rows : disk[a] = "stored"

(* What the queue names nobody uses: neither a row nor an upload that may     *)
(* still commit one, so a pass never deletes an object under a row.           *)
QueueIsDead ==
  \A a \in queue \cup {pass.head} : a \notin rows /\ (a \in Attachment => upload[a] \notin {"saving", "saved"})

(* "concurrent uploads cannot both observe stale capacity and push the user   *)
(* over either limit" (attachment_sqlite.go:57).                              *)
QuotaHolds == Cardinality(rows) <= MaxFiles

(* A transaction's primary key names an attachment that exists and belongs to *)
(* that transaction, so the detail view never offers somebody else's receipt. *)
PrimaryIsLinked ==
  \A t \in Tx : primary[t] # NoFile => primary[t] \in rows /\ link[primary[t]] = t

(* An object without a row is on its way to one, or queued; it is forgotten   *)
(* only by a failure after the rename of Save, by two failures in a row when  *)
(* an upload is undone, by power lost during an upload, or by power that      *)
(* brings back a name whose removal was never synced.                         *)
NothingElseIsForgotten ==
  \A a \in Attachment :
    disk[a] = "stored" => \/ a \in rows \cup queue \cup forgotten
                          \/ upload[a] \in {"saved", "undo", "enqueue"}

(* Only an unlinked attachment is removed without its owner asking            *)
(* ("Timed-out, unlinked attachments enter the durable deletion queue").      *)
LinkedStay ==
  [][\A a \in rows \ rows' : link[a] # NoTx => owing' > owing]_vars

(* Every queued object goes in the end unless the storage never lets it, and  *)
(* an object that cannot go does not hold up the others, even if each pass    *)
(* takes one entry only.                                                      *)
QueuedObjectsGo == \A a \in Attachment \ Stuck : a \in queue ~> a \notin queue
=============================================================================
