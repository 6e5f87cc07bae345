------------------------ MODULE CrossAccountRestore ------------------------
(***************************************************************************)
(* The merge of somebody else's backup into an account                     *)
(* (performCrossAccountMergeRestore in server.go), run by a verified       *)
(* session, with the crashes that may interrupt it and the recovery that   *)
(* is to follow them (RecoverPendingCrossAccountRestores).                 *)
(*                                                                         *)
(* Rows are imported in one database transaction; objects are overwritten  *)
(* in live storage while it is open.  A journal keeps the objects as they  *)
(* were, a marker file the phase, and a row of restore_operations in the   *)
(* same transaction decides.  Maintenance keeps every other writer out;    *)
(* executions come one at a time (disasterRecoveryMu).                     *)
(*                                                                         *)
(* An imported row has an id that follows from the one in the backup, so   *)
(* both have one name here.  Accounts are of one mode and one currency,    *)
(* categories of one type.  Names the user has come in lower case from     *)
(* SQLite, which knows the letters of ASCII only; those of the backup from *)
(* Go, which knows all.  A crash is that of the process; what a loss of    *)
(* power does to a marker is in RestoreRecovery.                           *)
(***************************************************************************)
EXTENDS PendingRestores, Sequences, SequencesExt

CONSTANTS
  Word,         \* what names are made of
  Lower,        \* strings.ToLower, of words
  SqlLower,     \* lower() of SQLite
  Home,         \* an account the user has had all along
  HomeName,
  HomeCategories,   \* categories the user has had all along, by id
  NoParent,
  NoSession,
  MaxFaults,    \* bound: steps that fail
  MaxCrashes    \* bound: crashes of the process

\* Categories are named by words.  So are accounts; again are the suffixes a
\* merge has given them, " (Recovered)" and " (Recovered 2)" and so on.
AccountName == [word : Word, again : Seq(Nat)]
Small(n) == [n EXCEPT !.word = Lower[@]]
SqlSmall(n) == [n EXCEPT !.word = SqlLower[@]]
Named(c) == [name |-> c.name, parent |-> c.parent]

ASSUME BoundsAreNat == MaxFaults \in Nat /\ MaxCrashes \in Nat
ASSUME NoSessionIsNone == NoSession \notin Session
ASSUME LowerCases ==
  /\ Lower \in [Word -> Word] /\ SqlLower \in [Word -> Word]
  /\ \A w \in Word : Lower[Lower[w]] = Lower[w] /\ Lower[SqlLower[w]] = Lower[w]
ASSUME HomeIsAUsers ==
  /\ HomeName \in AccountName
  /\ \A i \in DOMAIN HomeCategories :
       /\ HomeCategories[i] = Named(HomeCategories[i]) /\ HomeCategories[i].name \in Word
       /\ \A j \in DOMAIN HomeCategories : HomeCategories[i].name = HomeCategories[j].name => i = j

\* What the keys of the tables of a backup say.  A backup with two categories
\* whose names differ by case alone, which UNIQUE(user_id, name, type) allows, is
\* left out.  No row the user has had all along has an id that follows from one
\* in a backup.
Table(rows) == rows \in Seq(ToSet(rows))
ASSUME BackupsAreDatabases ==
  \A b \in Backup :
    /\ Table(b.accounts) /\ \A i \in DOMAIN b.accounts : b.accounts[i].name \in AccountName
    /\ Table(b.categories) /\ \A i \in DOMAIN b.categories : b.categories[i].name \in Word
    /\ \A i, j \in DOMAIN b.categories :
         \/ b.categories[i].id = b.categories[j].id
         \/ Lower[b.categories[i].name] = Lower[b.categories[j].name]
         => i = j
    /\ \A c \in ToSet(b.categories) : c.id \notin DOMAIN HomeCategories
    /\ \A t \in b.txns : /\ t = [id |-> t.id, on |-> t.on, category |-> t.category]
                         /\ \E c \in ToSet(b.categories) : c.id = t.category

VARIABLES
  pc,         \* the step about to run, or "serving", "latched", "down"
  op,         \* the session that is executed; after a crash, the one the marker names
  told,       \* the answer to it
  db,         \* accounts, transactions, attachment rows, deletion queue, ledger
  objects,    \* attachment objects in live storage
  marker,     \* the phase in the marker file
  embedded,   \* the marker has been moved into the journal
  journal,    \* "none", "partial" or "complete"
  fresh,      \* manifest: objects that did not exist
  kept,       \* manifest: objects that did, with a copy
  faults, crashes

artifacts == <<marker, embedded, journal, fresh, kept>>
counts == <<faults, crashes>>
vars == <<sessions, pc, op, told, db, objects, artifacts, counts>>

MergeLabel == {"preflight", "import", "begin", "snapshot", "bind", "prepare", "record", "attach",
               "check", "commit", "sync", "mark", "undo", "resolve", "clean", "unmark"}
RecoveryLabel == {"decide", "replay", "settle", "sweep"}

Init ==
  /\ InitSessions
  /\ pc = "serving" /\ op = NoSession
  /\ told = [s \in Session |-> "nothing"]
  /\ db = [accounts |-> [a \in {Home} |-> [name |-> HomeName, open |-> TRUE]],
           categories |-> HomeCategories, txns |-> {}, rows |-> {}, moved |-> {}, queue |-> {}, ledger |-> {}, merged |-> {}]
  /\ objects = {}
  /\ marker = "none" /\ embedded = FALSE /\ journal = "none" /\ fresh = {} /\ kept = {}
  /\ faults = 0 /\ crashes = 0

Fault == faults < MaxFaults /\ faults' = faults + 1 /\ UNCHANGED crashes
Fine == UNCHANGED counts
Goto(label) == pc' = label /\ UNCHANGED <<op, told, sessions>>

\* The handler returns; its deferred clean-up removes the archive.
Finish(label, answer) ==
  /\ pc' = label
  /\ told' = [told EXCEPT ![op] = answer]
  /\ EndExecution(op)
Answer(answer) == Finish("serving", answer) /\ op' = NoSession
\* keepMaintenanceState
Latch == Finish("latched", "manual") /\ UNCHANGED op

------------------------------------------------------------------------------
(* What is imported.                                                       *)

Backed == holds[op]

\* resolveRecoveredAccountName
Recovered(names, n) ==
  LET with(k) == [n EXCEPT !.again = Append(@, k)]
      given(k) == Small(with(k)) \in names
  IN with(CHOOSE k \in 1 .. Cardinality(names) + 1 : ~given(k) /\ \A j \in 1 .. k - 1 : given(j))

\* f with y at x.
With(f, x, y) == [z \in DOMAIN f \cup {x} |-> IF z = x THEN y ELSE f[z]]
\* Mutant: INSERT OR REPLACE.
Replacing(table, id, row) == With(table, id, row)
\* INSERT OR IGNORE
Ignoring(table, id, row) == IF id \in DOMAIN table THEN table ELSE With(table, id, row)

\* existingAccounts and existingNamesByMode
AccountNames == {SqlSmall(db.accounts[i].name) : i \in DOMAIN db.accounts}

TargetName(names, n) == IF Small(n) \in names THEN Recovered(names, n) ELSE n

\* Mutant: a name that has been given away is not written down.
ForgetfulImport(acc, a) ==
  [acc EXCEPT !.table = Ignoring(@, a.id, [name |-> TargetName(acc.names, a.name), open |-> a.open])]
\* One turn of the loop over the accounts of the backup.
ImportAccount(acc, a) ==
  LET name == TargetName(acc.names, a.name)
  IN [table |-> Ignoring(acc.table, a.id, [name |-> name, open |-> a.open]),
      names |-> acc.names \cup {Small(name)}]
ImportAccounts ==
  FoldLeft(ImportAccount, [table |-> db.accounts, names |-> AccountNames], Backed.accounts).table

\* INSERT OR IGNORE: neither an id nor a name, letter by letter, is there twice.
IgnoringCategory(table, c) ==
  IF \E i \in DOMAIN table : table[i].name = c.name THEN table
  ELSE Ignoring(table, c.id, [name |-> c.name, parent |-> NoParent])

\* One turn of the loop over the categories of the backup: the category that
\* has the name stands for it, or the one with its id, as it is or new -- or
\* none, if the name is there and has been missed.
ImportCategory(acc, c) ==
  IF Lower[c.name] \in DOMAIN acc.named
  THEN [acc EXCEPT !.of = With(@, c.id, acc.named[Lower[c.name]])]
  ELSE [table |-> IgnoringCategory(acc.table, c),
        named |-> With(acc.named, Lower[c.name], c.id),
        of |-> With(acc.of, c.id, c.id)]

\* existingCategories
CategoriesByName ==
  [n \in {SqlLower[db.categories[i].name] : i \in DOMAIN db.categories} |->
     CHOOSE i \in DOMAIN db.categories : SqlLower[db.categories[i].name] = n]
Categories ==
  FoldLeft(ImportCategory, [table |-> db.categories, named |-> CategoriesByName, of |-> <<>>],
           Backed.categories)

\* parentFixes, by their place: also a category the user had goes under the
\* parent it has in the backup.
ParentFixes(cats) ==
  LET row(k) == Backed.categories[k]
  IN {k \in DOMAIN Backed.categories :
        /\ row(k).parent \in DOMAIN cats.of /\ cats.of[row(k).id] # cats.of[row(k).parent]
        /\ cats.of[row(k).id] \in DOMAIN cats.table}
NewParent(cats, k) == cats.of[Backed.categories[k].parent]
\* The last one stays.
ImportCategories ==
  LET cats == Categories
      fixes(i) == {k \in ParentFixes(cats) : cats.of[Backed.categories[k].id] = i}
  IN [i \in DOMAIN cats.table |->
        IF fixes(i) = {} THEN cats.table[i]
        ELSE [cats.table[i] EXCEPT !.parent = NewParent(cats, Max(fixes(i)))]]

\* Not those of an account that is not in the backup; nor, ON CONFLICT(id) DO
\* NOTHING, those that are there.
NewTransactions ==
  {t \in Backed.txns : /\ \E a \in ToSet(Backed.accounts) : a.id = t.on
                       /\ \A u \in db.txns : u.id # t.id}
\* The account is not asked whether it is open.
ImportTransactions ==
  LET of == Categories.of
  IN db.txns \cup {[t EXCEPT !.category = of[@]] : t \in NewTransactions}

\* Foreign keys: a row that would refer to a category that is not there is refused.
KeysHold ==
  LET cats == Categories
  IN /\ \A k \in ParentFixes(cats) : NewParent(cats, k) \in DOMAIN cats.table
     /\ \A t \in NewTransactions : cats.of[t.category] \in DOMAIN cats.table

CategoriesFound(rows) == \A u \in ImportTransactions : u.category \in DOMAIN rows
\* Mutant: that no category is there twice is not looked at.
OnlyFound == CategoriesFound(ImportCategories)
\* validateRestoreIntegrity
Valid ==
  LET rows == ImportCategories
  IN /\ CategoriesFound(rows)
     /\ \A i, j \in DOMAIN rows : SqlLower[rows[i].name] = SqlLower[rows[j].name] => i = j

\* Attachments whose row is new, or is there as the backup has it.
Taken == Backed.files \ db.moved

CancelDeletions(S) == db.queue \ S

\* The transaction, as it commits.
Imported ==
  [accounts |-> ImportAccounts, categories |-> ImportCategories, txns |-> ImportTransactions,
   rows |-> db.rows \cup Taken, moved |-> db.moved, queue |-> CancelDeletions(Taken),
   ledger |-> IF Taken = {} THEN db.ledger ELSE db.ledger \cup {op},
   merged |-> db.merged \cup {op}]

------------------------------------------------------------------------------
(* The merge.                                                              *)

\* writeGateMiddleware and handleRestoreExecute
Execute(s) ==
  /\ pc = "serving" /\ pc' = "preflight" /\ op' = s
  /\ Consume(s)
  /\ UNCHANGED <<told, db, objects, artifacts, counts>>

\* The backup is validated; then BeginMaintenance waits for the other handlers.
Preflight ==
  /\ pc = "preflight"
  /\ \/ (\A s \in Session : at[s] # "sending") /\ Goto("import") /\ Fine
     \/ Fault /\ Answer("failed")
  /\ UNCHANGED <<db, objects, artifacts>>

\* It is migrated, the transaction begins and the rows are written.
ImportRows ==
  /\ pc = "import"
  /\ \/ KeysHold /\ Goto(IF Taken = {} THEN "check" ELSE "begin") /\ Fine
     \/ ~KeysHold /\ Answer("failed") /\ Fine
     \/ Fault /\ Answer("failed")
  /\ UNCHANGED <<db, objects, artifacts>>

\* writeDurableRestoreMarker
Write(phase) == marker' = phase
\* It fails before or after the rename.
WriteFails(phase) == marker' \in {marker, phase}

\* beginCrossRestorePreparation
Begin ==
  /\ pc = "begin"
  /\ \/ Write("preparing") /\ Goto("snapshot") /\ Fine
     \/ Fault /\ WriteFails("preparing") /\ Goto("resolve")
     \/ Fault /\ UNCHANGED marker /\ Answer("failed")    \* no directory for it
  /\ UNCHANGED <<db, objects, embedded, journal, fresh, kept>>

\* writeManifest: which objects did not exist, and which have a copy.
WriteManifest == fresh' = Taken \ objects /\ kept' = Taken \cap objects

\* prepareAttachmentRollbackJournal
Snapshot ==
  /\ pc = "snapshot"
  /\ \/ /\ journal = "none" /\ journal' = "partial" /\ Goto("snapshot") /\ Fine
        /\ UNCHANGED <<fresh, kept>>
     \/ /\ journal = "partial" /\ journal' = "complete" /\ Goto("bind") /\ Fine
        /\ WriteManifest
     \/ Fault /\ Goto("resolve") /\ UNCHANGED <<journal, fresh, kept>>
  /\ UNCHANGED <<db, objects, marker, embedded>>

\* attachJournal: the marker is moved into the journal.
Bind ==
  /\ pc = "bind"
  /\ \/ embedded' = TRUE /\ Goto("prepare") /\ Fine
     \/ Fault /\ embedded' \in BOOLEAN /\ Goto("resolve")
  /\ UNCHANGED <<db, objects, marker, journal, fresh, kept>>

\* markPrepared
Prepare ==
  /\ pc = "prepare"
  /\ \/ Write("prepared") /\ Goto("record") /\ Fine
     \/ Fault /\ WriteFails("prepared") /\ Goto("resolve")
  /\ UNCHANGED <<db, objects, embedded, journal, fresh, kept>>

\* INSERT INTO restore_operations, in the transaction.
Record ==
  /\ pc = "record"
  /\ \/ Goto("attach") /\ Fine
     \/ Fault /\ Goto("resolve")
  /\ UNCHANGED <<db, objects, artifacts>>

\* restoreAttachmentFiles, one object after the other.
RestoreFiles ==
  /\ pc = "attach"
  /\ \/ \E a \in Taken \ objects : objects' = objects \cup {a} /\ Goto("attach") /\ Fine
     \/ Taken \subseteq objects /\ Goto("check") /\ Fine /\ UNCHANGED objects
     \/ Fault /\ Goto("undo") /\ UNCHANGED objects
  /\ UNCHANGED <<db, artifacts>>

\* Balances and validateRestoreIntegrity
Check ==
  /\ pc = "check"
  /\ \/ Valid /\ Goto("commit") /\ Fine
     \/ (Fault \/ (~Valid /\ Fine)) /\ marker # "none" /\ Goto("undo")
     \/ (Fault \/ (~Valid /\ Fine)) /\ marker = "none" /\ Answer("failed")
  /\ UNCHANGED <<db, objects, artifacts>>

\* Mutant: an error means that nothing was committed.
CommitOrFail ==
  /\ pc = "commit"
  /\ \/ /\ db' = Imported /\ Fine
        /\ IF marker # "none" THEN Goto("sync") ELSE Answer("restored")
     \/ /\ Fault /\ db' \in {db, Imported}
        /\ IF marker # "none" THEN Goto("undo") ELSE Answer("failed")
  /\ UNCHANGED <<objects, artifacts>>
\* Commit may report an error and have committed.
Commit ==
  /\ pc = "commit"
  /\ \/ /\ db' = Imported /\ Fine
        /\ IF marker # "none" THEN Goto("sync") ELSE Answer("restored")
     \/ Fault /\ db' \in {db, Imported} /\ Latch
  /\ UNCHANGED <<objects, artifacts>>

\* ensureRestoreDatabaseDurable
EnsureDurable ==
  /\ pc = "sync"
  /\ \/ Goto("mark") /\ Fine
     \/ Fault /\ Latch
  /\ UNCHANGED <<db, objects, artifacts>>

\* markCommitted
MarkCommitted ==
  /\ pc = "mark"
  /\ \/ Write("committed") /\ Goto("clean") /\ Fine
     \/ Fault /\ WriteFails("committed") /\ Latch
  /\ UNCHANGED <<db, objects, embedded, journal, fresh, kept>>

------------------------------------------------------------------------------
(* Compensation and clean-up.                                              *)

\* Mutant: what was overwritten is deleted, whatever was there before.
DeleteAll == objects \ (fresh \cup kept)
\* attachmentRollbackJournal.rollback
Reverted == (objects \ fresh) \cup kept
PartlyReverted == {objects \ S : S \in SUBSET fresh}

UndoFiles ==
  /\ pc = "undo"
  /\ \/ objects' = Reverted /\ Goto("resolve") /\ Fine
     \/ Fault /\ objects' \in PartlyReverted /\ Latch
  /\ UNCHANGED <<db, artifacts>>

\* markRolledBack: a marker beside its journal cannot leave "preparing".
MarkRolledBack ==
  /\ pc = "resolve"
  /\ \/ embedded /\ Write("rolled_back") /\ Goto("clean") /\ Fine
     \/ embedded /\ Fault /\ WriteFails("rolled_back") /\ Latch
     \/ ~embedded /\ UNCHANGED marker /\ Latch /\ Fine
  /\ UNCHANGED <<db, objects, embedded, journal, fresh, kept>>

RemoveJournal ==
  \/ journal = "complete" /\ journal' = "partial" /\ UNCHANGED <<fresh, kept>>
  \/ journal = "partial" /\ journal' = "none" /\ fresh' = {} /\ kept' = {}

\* cleanupPreservingMarker
CleanJournal ==
  /\ pc = "clean"
  /\ \/ RemoveJournal /\ Goto("clean") /\ Fine
     \/ journal = "none" /\ Goto("unmark") /\ Fine /\ UNCHANGED <<journal, fresh, kept>>
     \/ Fault /\ Latch /\ UNCHANGED <<journal, fresh, kept>>
  /\ UNCHANGED <<db, objects, marker, embedded>>

\* Mutant: the marker stays.
LeaveMarker == UNCHANGED <<marker, embedded>>
RemoveMarker == marker' = "none" /\ embedded' = FALSE

\* removeMarker; EndMaintenance; the answer.
CleanMarker ==
  /\ pc = "unmark"
  /\ \/ RemoveMarker /\ Fine /\ Answer(IF op \in db.ledger THEN "restored" ELSE "failed")
     \/ Fault /\ Latch /\ (RemoveMarker \/ UNCHANGED <<marker, embedded>>)
  /\ UNCHANGED <<db, objects, journal, fresh, kept>>

Merge ==
  \/ Preflight \/ ImportRows \/ Begin \/ Snapshot \/ Bind \/ Prepare \/ Record
  \/ RestoreFiles \/ Check \/ Commit \/ EnsureDurable \/ MarkCommitted
  \/ UndoFiles \/ MarkRolledBack \/ CleanJournal \/ CleanMarker

------------------------------------------------------------------------------
(* Crash, restart, recovery.                                               *)

Stop ==
  /\ pc' = "down" /\ op' = IF marker = "none" THEN NoSession ELSE op
  /\ ForgetSessions
  /\ UNCHANGED <<told, db, objects, artifacts, faults>>
Crash == pc # "down" /\ crashes < MaxCrashes /\ crashes' = crashes + 1 /\ Stop
Restart == pc = "latched" /\ UNCHANGED crashes /\ Stop

Start ==
  /\ pc = "down" /\ Goto("decide") /\ Fine
  /\ UNCHANGED <<db, objects, artifacts>>

\* discoverRestoreOperations: a marker file that is valid.
Found == marker # "none"

\* crossRestoreOperationCommitted
Recorded == op \in db.ledger

\* RecoverPendingCrossAccountRestores; an error keeps the process down.
Decide ==
  /\ pc = "decide"
  /\ \/ /\ ~Found /\ pc' = "serving" /\ op' = NoSession
        /\ UNCHANGED <<told, sessions, marker>>
     \/ /\ marker \in {"preparing", "rolled_back"} /\ Goto("sweep") /\ UNCHANGED marker
     \/ /\ marker = "committed" /\ Goto(IF Recorded THEN "sweep" ELSE "down") /\ UNCHANGED marker
     \/ /\ marker = "prepared" /\ Recorded /\ Write("committed") /\ Goto("sweep")
     \/ /\ marker = "prepared" /\ ~Recorded /\ UNCHANGED marker
        /\ Goto(IF journal = "complete" THEN "replay" ELSE "down")
  /\ Fine
  /\ UNCHANGED <<db, objects, embedded, journal, fresh, kept>>

Replay ==
  /\ pc = "replay"
  /\ \/ objects' = Reverted /\ Goto("settle") /\ Fine
     \/ Fault /\ objects' \in PartlyReverted /\ Goto("down")
  /\ UNCHANGED <<db, artifacts>>

Settle ==
  /\ pc = "settle" /\ Write("rolled_back") /\ Goto("sweep") /\ Fine
  /\ UNCHANGED <<db, objects, embedded, journal, fresh, kept>>

\* finishRecoveredOperation
Sweep ==
  /\ pc = "sweep"
  /\ \/ RemoveJournal /\ Goto("sweep") /\ UNCHANGED <<marker, embedded>>
     \/ journal = "none" /\ RemoveMarker /\ Goto("decide") /\ UNCHANGED <<journal, fresh, kept>>
  /\ Fine
  /\ UNCHANGED <<db, objects>>

Recovery == Start \/ Decide \/ Replay \/ Settle \/ Sweep

------------------------------------------------------------------------------
(* The user, while writers are admitted.                                   *)

Writable == pc \in {"serving", "preflight"}
Elsewhere == UNCHANGED <<sessions, pc, op, told, artifacts, counts>>

\* DeleteAccount
CloseAccount(a) ==
  /\ a \in DOMAIN db.accounts /\ db.accounts[a].open
  /\ \E b \in DOMAIN db.accounts \ {a} : db.accounts[b].open
  /\ \A t \in db.txns : t.on # a
  /\ db' = [db EXCEPT !.accounts[a].open = FALSE]
  /\ UNCHANGED objects

\* AttachmentService.Delete and Link
DeleteAttachment(a) ==
  /\ a \in db.rows
  /\ db' = [db EXCEPT !.rows = @ \ {a}, !.moved = @ \ {a}, !.queue = @ \cup {a}]
  /\ UNCHANGED objects
MoveAttachment(a) ==
  /\ a \in db.rows \ db.moved
  /\ db' = [db EXCEPT !.moved = @ \cup {a}]
  /\ UNCHANGED objects

\* DrainDeletionQueue; a pass that fails between the two leaves the entry.
DeleteObject(a) ==
  /\ a \in db.queue \cap objects
  /\ objects' = objects \ {a} /\ UNCHANGED db
CompleteDeletion(a) ==
  /\ a \in db.queue \ objects
  /\ db' = [db EXCEPT !.queue = @ \ {a}] /\ UNCHANGED objects

User ==
  /\ Writable
  /\ \/ \E a \in DOMAIN db.accounts : CloseAccount(a)
     \/ \E a \in db.rows : DeleteAttachment(a) \/ MoveAttachment(a)
     \/ \E a \in db.queue : DeleteObject(a) \/ CompleteDeletion(a)
  /\ Elsewhere

Visit ==
  /\ \E s \in Session : (Writable /\ Handlers(s)) \/ (pc # "down" /\ Clock(s))
  /\ UNCHANGED <<pc, op, told, db, objects, artifacts, counts>>

Next ==
  \/ Visit \/ User \/ (\E s \in Session : Execute(s))
  \/ Merge \/ Recovery \/ Crash \/ Restart

Spec == Init /\ [][Next]_vars

------------------------------------------------------------------------------

(* What the sessions and the merge keep.                                      *)
TypeOK ==
  /\ SessionsOK
  /\ pc \in {"serving", "latched", "down"} \cup MergeLabel \cup RecoveryLabel
  /\ op \in Session \cup {NoSession} /\ (pc \in MergeLabel \cup {"latched"} => op # NoSession)
  /\ told \in [Session -> {"nothing", "failed", "restored", "manual"}]
  /\ db.moved \subseteq db.rows /\ db.ledger \subseteq db.merged /\ db.merged \subseteq Session
  /\ marker \in {"none", "preparing", "prepared", "committed", "rolled_back"}
  /\ embedded \in BOOLEAN /\ journal \in {"none", "partial", "complete"}
  /\ fresh \cap kept = {}

(* A restore reads its archive until it is done: neither the timer, nor a     *)
(* late or wrong code, nor a new upload that makes room takes the files from  *)
(* under it; and a session that was given too many wrong codes is not run.    *)
ExecutionIsCovered ==
  pc \in MergeLabel => op \in files /\ at[op] = "executing" /\ tries[op] < MaxAttempts

(* While the server takes writes, an attachment row has its object, no object *)
(* has lost both row and tombstone, and no tombstone threatens a row: a merge *)
(* and its attachments are there together or not at all, whatever failed or   *)
(* crashed, and whatever had been deleted before ("A previously deleted       *)
(* deterministic object may still be queued for asynchronous removal").       *)
RowsAndObjectsAgree ==
  Writable => /\ db.rows \subseteq objects
              /\ objects \subseteq db.rows \cup db.queue
              /\ db.rows \cap db.queue = {}

(* The answer to a restore stays true: "restored" is in the database, "failed"*)
(* is not, even if the commit reported an error.                              *)
AnswersHold ==
  \A s \in Session : /\ told[s] = "restored" => s \in db.merged
                     /\ told[s] = "failed" => s \notin db.merged

(* When the server takes writes again no marker or journal is left, and the   *)
(* files of an upload are those of a session somebody can still use, unless a *)
(* crash has orphaned them.                                                   *)
NothingLeftBehind ==
  Writable => /\ marker = "none" /\ journal = "none"
              /\ files \subseteq Listed \cup {op} \/ crashes > 0 \/ \E s \in Session : told[s] = "manual"

(* In whatever order backups come and however often: no two accounts get the  *)
(* same name from merges, whatever its case, if SQLite and Go agree on the    *)
(* lower case of both names (where they do not, the conflict is missed and    *)
(* both are there); no two categories have the same name, whatever the case   *)
(* of its ASCII letters, once a merge has been committed; every transaction   *)
(* of a merged backup whose account is in that backup is there; and a merged  *)
(* transaction is in a category the user has, of a name its own category has  *)
(* but for case in a merged backup (not always the one it came from: the      *)
(* category may have been renamed between two backups).                       *)
Agreed(n) == Small(n) = SqlSmall(n)
AccountsStayApart ==
  \A a, b \in DOMAIN db.accounts :
    Agreed(db.accounts[a].name) /\ Agreed(db.accounts[b].name) /\ a # b
    => Small(db.accounts[a].name) # Small(db.accounts[b].name)
CategoriesStayApart ==
  \A a, b \in DOMAIN db.categories :
    db.merged # {} /\ a # b => SqlLower[db.categories[a].name] # SqlLower[db.categories[b].name]
NamesStayApart ==
  /\ AccountsStayApart /\ CategoriesStayApart
  /\ \A s \in db.merged : \A t \in holds[s].txns :
       (\E a \in ToSet(holds[s].accounts) : a.id = t.on) => \E u \in db.txns : u.id = t.id
  /\ \A u \in db.txns :
       /\ u.category \in DOMAIN db.categories
       /\ \E s, r \in db.merged : \E t \in holds[s].txns, c \in ToSet(holds[r].categories) :
            /\ t.id = u.id /\ c.id = t.category
            /\ Lower[c.name] = Lower[db.categories[u.category].name]

(* A merge adds and takes nothing away: accounts and categories keep their    *)
(* names, an account that is closed stays closed, an attachment the user has  *)
(* moved stays where it is.  (A category may get another parent.)             *)
MergesOnlyAdd ==
  [][pc = "commit" =>
       /\ \A a \in DOMAIN db.accounts : db'.accounts[a] = db.accounts[a]
       /\ \A c \in DOMAIN db.categories : db'.categories[c].name = db.categories[c].name
       /\ db.txns \subseteq db'.txns /\ db.rows \subseteq db'.rows
       /\ db.queue \subseteq db'.queue \cup db'.rows]_vars

(* "Passing StateRestore keeps the service read-only after a failed rollback" *)
(* (concurrency_guard.go:82-84).  While the marker says preparing, no live    *)
(* object has been touched and the rows are gone with the transaction: a      *)
(* merge that fails there has nothing left to roll back.                      *)
ReadOnlyAfterFailedRollback == pc = "latched" => marker # "preparing"

=============================================================================
