# FinArch: TLA+ models and proofs

FinArch is a Go server (SQLite behind HTTP, one process, several periodic
workers) for personal and team book-keeping. This directory models the parts of
it where order, failure and concurrency decide whether the data is right. Paths
below are relative to the repository.

## 1. Inventory

| component | state | operations | hard behaviour | what makes it correct | module |
|---|---|---|---|---|---|
| Refresh sessions (`session_service.go`, `refresh_token_sqlite.go`) | `auth_sessions`, `refresh_tokens`, sealed successors | create, rotate, recover a lost answer, revoke, expire | lost answers, two tabs, clocks read before the lock, clean-up racing a retry | families never fork, die with the credentials, revocation is final | `RefreshSessions` |
| Write gate (`concurrency_guard.go`, `writeGateMiddleware`, `withWriteLease`) | atomic state, two mutexes, one RWMutex, leases | admit, release, upgrade, begin/end maintenance | every lock interleaving, a maintenance request that is a writer first | maintenance excludes writes; a failed rollback stays shut; nobody deadlocks | `MaintenanceGate`, `WriteAdmission` |
| Replacement restore (`executeRestoreEngine`, `restore_recovery.go`, `restore_security.go`) | live database and attachment objects, safety copy, rollback journal, marker file, `restore_operations` row | sixteen steps, rollback, deferred clean-up, startup recovery | any step fails, process crash, power loss, ambiguous writes | old world or new world, never a mixture; the answer stays true | `RestoreRecovery`, `AtomicRestore` |
| Cross-account restore (`performCrossAccountMergeRestore`, `handleRestore*`, `restore_recovery.go`) | pending uploads in memory with files, import transaction, the same marker and journal | send code, verify, execute once, import, compensate, recover | a timer and wrong codes against an execution, database and objects that cannot commit together, an ambiguous commit, merges in any order | imported rows and their objects appear together; the answer stays true; a merge only adds | `PendingRestores`, `CrossAccountRestore` |
| Action tokens and credentials (`auth_service.go`, `user_tag_sqlite.go`) | `action_requests`, `users` | register, verify, forgot/reset, e-mail change by two confirmations, deletion, clean-up of unverified users | two links racing, links that outlive a credential change, ids read outside the deleting transaction | a link acts at most once and only under the credentials it was issued for | `ActionTokens`; effect on sessions in `RefreshSessions` |
| Login protection (`ratelimit.go`, `captcha.go`) | in-memory counters | allow, record failure, reset, prune | windows, check-then-act | bounded attempts per window | not modelled |
| Attachments (`attachment_service.go`, `attachment_sqlite.go`, `attachment_storage.go`) | rows, objects on disk, deletion queue, OCR quota | upload, link, delete, drain, orphan clean-up, OCR | database and disk cannot commit together | no row without its object; objects of deleted rows go eventually | `Attachments` (without OCR) |
| Recurring transactions (`recurring_service.go`, `recurring_sqlite.go`) | rules, instances, generated transactions | create, edit, pause, end, claim, reclaim, generate, advance | a pass over rows listed at its start, edits of a row read earlier, accounts that close, one rule that always fails | nobody acts on a row that changed; no occurrence is lost; the other rules move on | `RecurringGeneration` (without the calendar) |
| Transactions, balances, accounts, reimbursements (`transaction_*.go`, `account_*.go`, `reimbursement_*.go`, `triggers_v9.go`) | rows, cached balances, items and totals | create, mark, toggle, settle, reimburse, open and close accounts | accounts read before they are booked on, toggles in two statements, triggers that may abort | balances equal the sum of what is booked; the items of a reimbursement stay its own | `Bookkeeping` (without exchange rates) |
| Idempotent creation (`ClaimIdempotencyKey`, `handleCreateTransaction`) | key table | look up, claim, replay | a retry while the first call runs, after it, or after it failed; a key used for something else | one transaction per key, and every answer names it | `Bookkeeping`, `IdempotentCreation` |
| Ledger journal (`ledger_service.go`) | - | - | nothing calls it | - | not modelled |
| Exchange rates (`exchange_rate_service.go`) | cache | get, refresh, fall back | concurrent misses, stale entries | answers within the validity of their source | not modelled |
| Subset matching (`matching_service.go`) | the search: stack, budget of nodes, answers | search, prune, cancel, second pass | pruning, equal amounts, a budget that runs out | only right answers; the best ones unless cut short | `Matching` |
| Budgets, categories, statistics | rows | CRUD and aggregates in single transactions | little over time | row constraints | not modelled |
| Migrations | schema | ordered scripts | run before anything serves | - | not modelled |
| Tokens and passwords, e-mail, OCR providers, desktop and command line entry points, frontend | - | encoding, HTTP calls, argument parsing, user interface | - | - | not modelled, except the client's write lease and the session clean-up worker |

How they interact. Every mutating request and every worker that writes takes a
lease of the write gate first; the restores upgrade that lease to exclusive
maintenance. The restore engine runs inside that exclusive section and replaces
the database under all other components; it calls into the attachment service
for storage and into `restore_security.go` to invalidate sessions and links.
Credential changes in the authentication service revoke the sessions in the
same database transaction. Workers: session clean-up and deletion drain every
minute, recurring generation every 15 minutes, clean-up of unverified users and
of orphan attachments hourly.

`PROJECT.json` lists the hazards line by line with the properties that cover
them.

## 2. Plan

Done, each with its proofs: `RefreshSessions`; `WriteAdmission` /
`MaintenanceGate`; `AtomicRestore` / `RestoreRecovery`; `ActionTokens`;
`Attachments`; `RecurringGeneration`; `IdempotentCreation` / `Bookkeeping`; `PendingRestores` /
`CrossAccountRestore`; `Matching`. The proofs of a module are in `<module>Proofs`;
those of `Matching`, which need the same lemmas about sums, are in `BookkeepingProofs`.

Next: an abstract specification of a merge, all of it or nothing, that
`CrossAccountRestore` refines.

## 3. Modules and the code

### RefreshSessions

One user suffices: no statement of the repository touches rows of two users. A
session row is a family of tokens. `session[s]` and `token[t]` are the rows of
`auth_sessions` and `refresh_tokens`; `call[c]` is a request between its first
read and its answer; `known` are the tokens some client holds. `st` folds
`consumed_at`, `revoked_at` and the existence of the row into one field.

- `Login` reads the user and checks the password outside any transaction and
  remembers `pwd_version`; `CreateSession` is the guarded insert;
  `AccessIssueFailed` is the compensation when the access token cannot be signed.
- `StartRefresh` takes the hash and the clock, as `RotateSession` does, and the
  `Rotate` actions are the branches of the transaction in
  `refresh_token_sqlite.go`, each one atomic step (`rotationMu` and
  `_txlock=immediate`). The walk along the successors is the function `hop`.
  The branch for an expired newest generation is left out: it is dead, which
  `SuccessorOutlivesGrace` states and the proof (`RecoveryInTime`) shows for all durations that
  `NewSessionService` accepts.
- `Logout`, `ChangeCredentials`, `DeleteAccount` and `DeleteExpired` are the
  other writers of these tables. `Lose` is a lost answer, a rolled back
  transaction or a restart: what was committed stays.
- The wall clock `clock` never goes back.

### MaintenanceGate, WriteAdmission

Every access to a mutex or to the atomic state is a step. The RWMutex is the
number of its readers and the writer that has called `Lock`: `TryRLock` fails
from that call on, `Lock` returns when the readers are gone. A `Writer` is an
ordinary mutating request or a worker run; a `Maintainer` is a request on a
path that executes maintenance, which queues on `disasterRecoveryMu`, is
admitted as a writer, and then upgrades (`releaseRequestWriteLease`,
`BeginMaintenance`). `FinalState` is the deferred `EndMaintenance` of the
restores: after a failed rollback it stores `restore`. `WriteAdmission` is the
promise: open, closing, exclusive, open again or closed for good.

### RestoreRecovery, AtomicRestore

`pc` is the step of `executeRestoreEngine` about to run, then of the deferred
clean-up, or of `RecoverPendingRestoresBeforeOpen`. `db` records how far the
live database is from old to usable, `files` the attachment objects, `safety`
and `journal` the copies that undo a restore, `ledger` the committed
`restore_operations` row. A marker write is two steps, rename and directory
sync: `marker` is what the process sees, `durable` what a power loss may bring
back. Errors follow the code: a `restoreRollbackFailure` latches the gate and
keeps every artifact, any other error runs the deferred clean-up. A failed
step may have happened or not wherever the code cannot know
(`RecordCommit`, `Copy`, marker writes).

`AtomicRestore` has two variables, what writers work on and the commit
decision. The refinement mapping reads them off `pc`, `db`, `files`, `ledger`.

Assumptions, all named in the module: the file system journals metadata in order
(a later rename or unlink on disk implies the earlier one); one restore per
behaviour; a panic is modelled before the commit decision, where the engine's
own `recover()` undoes the work. `RecoverOnStart` says whether startup calls
the recovery and `PrepareSyncFails` whether the directory sync in `markPrepared`
may fail.

### ActionTokens

`user[u]` and `link[l]` are rows of `users` and `action_requests`, `call[c]` is a
request between the steps that are not one transaction: the read of the account
before the password is checked (`seen`), the transaction, the mail. `listed` are
the ids the hourly worker has collected. Three fields of a link are not in the
database: `ver` (the `pwd_version` it was issued under), `box` (the address it
was mailed to) and `sent` (it arrived). They let the properties speak about what
a link was issued for; no guard except `Usable`, which needs a link in
somebody's hands, reads them.

- `Register`, `Purge`, `Create` are the three steps of `AuthService.Register`;
  `Ask` and `AskEmailChange` the read at the start of every request for a link,
  and `Issue` the transaction that compares what was read (`sameCredentialState`)
  with the row, replaces the older links (`Superseded`) and inserts the new one.
- The use of a link is one transaction, except for a recovery grant:
  `VerifyRecovery`, then `ReserveRecovery`. The checks of `ResetPassword` and
  `ConfirmAccountDeletion` outside their transactions decide nothing, apart from
  storing that a link lapsed (`ExpireLapsed`).
- `ListOverdue` and `DeleteListed` are the two halves of
  `DeleteExpiredUnverifiedUsers`.
- Time is two events, `Age` (a registration becomes older than 24 hours) and
  `Lapse` (a link passes its `expires_at`), at any moment. The model is of a server that
  requires verified addresses; without that, accounts are born verified, as
  those of `Init` are.

### Attachments

One account. An upload makes a new id and a new storage key, so an attachment
names its upload, its row (`rows`, `link`), its object (`disk`) and its entry in
`attachment_deletion_queue` (`queue`; `older` is its order by `updated_at`).
`primary` is `transactions.attachment_key`. `pass` is the running
`DrainDeletionQueue`, of which the mutex allows one, and `owing` counts requests
that have committed a deletion and have yet to make their pass.

- `StartUpload` (usage read), `SaveOk` (object), `CommitUpload` (row) are three
  steps of `Upload` with everything else between them; `RejectUpload` leads to
  the steps of `compensateFailedUpload`.
- `Delete`, `CleanupExpiredOrphans` and `DeleteUser` are one transaction each and
  put what they remove into the queue.
- A pass takes the first `Batch` entries and deletes object by object. `Stuck`
  objects never go; other failures are counted. A failure may come before or after
  the name is removed; a removal that was not synced (`"removed"`) may be undone by
  a loss of power, and the code's next attempt finds no name and does not sync.
- `Crash` is a loss of power. Committed rows stay (`synchronous=FULL`), an object
  being saved may or may not be there, requests and passes are gone.
- `forgotten` is not in the code. It collects the objects that are lost sight of
  at the steps where the code can do that, so that `NothingElseIsForgotten` can say
  there are no others. The bytes quota is of the same form as the count and left
  out, as are the OCR of an attachment and the upload rate window.

### RecurringGeneration

`row[r]` is a row of `recurring_transaction_rules`, `open` the active accounts (of
one type and one user), `booked[r]` and `generated[r]` the dates of a rule with a
transaction and with an instance row marked `generated`, `history` the accounts with
a transaction, `job[p]` what the scheduler and each client is doing, with the rows as
it read them. `from` is not in the code: the date an owner last set a rule to, where
`NoGaps` starts to count.

- Database transactions are serialized (`_txlock=immediate`) and are one action
  each; between them everything else may happen. `ListDue`, `TakeRule` and `Reload`
  are the loop of `GenerateDue`; `Prepare` and `PrepareFails` the part of
  `generateOne` before its transaction, where the rate may be asked of a remote
  service; `Generate`, `SkipStale` and `EndRule` its transactions. A client that
  generates a rule at once (`GenerateRuleNow`) runs the same steps.
- `Current` is the condition on status, version and `next_run_at` that `AdvanceRule`,
  `ClaimInstance` and `ReclaimInstance` put into SQL; `MayUpdate` that of `UpdateRule`.
  `DeleteRule` and the closing of an account set no condition: they end a rule
  whatever its version.
- Time is counted in dates of a schedule: the next date after `d` is `d + 1`, and an
  occurrence whose hour is over today may or may not be counted (`FromNow`). A rule
  moved to another hour of a day it was booked for meets its old transaction, for the
  date names the idempotency key; it is connected, not booked again.
- `Old` rules were made before rows had versions (`migration_v28.sql`). They are
  active, on open accounts, and may have a transaction no instance points to. An
  instance row left at `generating` or `failed` is taken over by `ReclaimInstance`
  with the effect of a claim, so it counts as absent.
- The branch for a transaction that vanishes between the lookup and the transaction
  is left out, for nothing deletes transactions while the account lives. Dry runs
  change nothing and are left out. `catch_up_enabled` is the free choice of `Reload`
  to stop after one occurrence: without it missed occurrences are still generated, one
  in each pass.

### Bookkeeping, IdempotentCreation

One user, in work mode. `txn` are the transactions in the order of insertion, with
the sign of their direction in `effect`; `open` and `closed` are the accounts by
`is_active`, `balance` is `balance_cents`, `claim` the table `idempotency_keys` with
the request instead of its hash, `doc` the reimbursements with items and total.
`call[c]` is what a handler has read.

- `StartCreate` is `handleCreateTransaction` up to the lookup of the key, `Prepare`
  the resolution of the account and rate before the transaction, `Create` and
  `Replay` the outcomes of the transaction, `Fail` every refusal, error or death of
  the process: the claim is rolled back with the rest. `retryIdempotentSQLiteTransaction`
  repeats a transaction that did nothing, a stutter.
- `Post` and `Unpost` are `trg_balance_insert` and `trg_balance_delete`; an overflow
  aborts the statement, on both sides of a range that is not symmetric. The trigger
  that once posted reimbursements is gone (`dropBeforeApply`), which `NotPosted` says.
- `StartToggle` and `FinishToggle` are the read and the guarded `UPDATE` of
  `ToggleReimbursed`, `ToggleUploaded` and `ToggleSettled`; nothing holds them together.
- `CreateReimbursement`, `CloseAccount` and `DeleteUser` are one transaction each.
  `OpenAccount` asks for nothing but its user: nothing makes two accounts of a type
  impossible, and `EnsureDefaultAccounts` looks before it inserts.
- `IdempotentCreation` is what a key promises its clients: one creation books it, with a
  transaction no other key has; answers repeat what it stands for; only the end of the
  user frees it, and then nothing is booked any more. The mapping reads the key table and
  the rows (`Stored`) and the last answer of each handler (`Told`). A claim is not seen
  until its transaction commits, and a toggle, a reimbursement or a creation without a
  key is not seen at all.

### Matching

The depth-first search of `matchSearch.dfs` has a step for each call, turn of a loop
and return, because it can be cut short at each call: by its budget of nodes
(`OutOfNodes`) or by a client that has gone (`Cancel`). `picked` is a set of places: a
call picks only places after those its callers picked, so the last one (`Latest`) is
the highest, and the loop of a caller goes on after the place it had picked. `next` is
where the innermost loop is. `Taken` is what a filter leaves of a list.
`Suffix` is the pruning bound, `SeenAlready` the rule for equal amounts, `Consider`
the short list of the best, `SecondPass` the search of all expenses after the recent
ones gave nothing. Scores are compared as integers; where the code's floating-point
scores differ only by rounding, either order is as good.

### PendingRestores, CrossAccountRestore

`PendingRestores` holds the actions of an upload: stored with its files (`Upload`), known to the
client once the mail is out (`Offer`), verified, executed once. Who ends a session
(the timer, a late call, one wrong code too many) first marks it consumed and later
takes it out of the map and removes its files; between the two it is `"ending"` and
still has its place among the `MaxPending`.

`CrossAccountRestore` extends it with the merge an execution runs. `pc` is the step
of `performCrossAccountMergeRestore` about to run, of its deferred compensation, or
of `RecoverPendingCrossAccountRestores`. Rows are imported in one transaction
(`Imported`, applied by `Commit`), objects are overwritten while it is open. `fresh`
and `kept` are the manifest of the journal; `embedded` says that the marker has been
moved into it, which `setPhase` needs to accept another phase than `preparing`.

- Ids of imported rows follow from those in the backup, so both have one name.
  `Recovered` is the search for a free account name, `ImportCategory` a turn of the
  loop over categories: the row that has the name stands for the category, else the
  row with its id, as it is or new. `ImportCategories` is the second loop, which sets
  parents (`ParentFixes`). A transaction whose account is not in the backup is skipped
  (`NewTransactions`).
- Names are compared in lower case, in one of two ways. Those the user has come out of
  SQLite, whose `lower()` knows the letters of ASCII only (`SqlLower`; `server.go:5869`,
  `5941`; the `Dockerfile` builds without ICU); those of the backup go through
  `strings.ToLower`, which knows all (`Lower`; `5907`, `5973`). Where the two differ
  ("École") the merge misses an account or a category that is there. Accounts have no
  key on the name, so both stay. For a category, `INSERT OR IGNORE` meets
  `UNIQUE(user_id, name, type)` if it is the same letter by letter (`IgnoringCategory`),
  and its id then stands for a row that is not there: a row that refers to it violates
  a foreign key, and the merge fails (`KeysHold`). A category that is new but in
  SQLite's lower case the name of another fails in `validateRestoreIntegrity` (`Valid`),
  at `Check`, after the objects have been overwritten.
- That two categories of one *backup* differ by case alone, which the schema allows, is
  left out (`BackupsAreDatabases`; see 6), and so are transactions without a category,
  which stay without one. The user's own may (`HomeIsAUsers`).
- `Writable` is what the gate admits: other handlers run before `BeginMaintenance`
  (`preflight`) and after. `User` is what they do to rows a merge brought: close
  accounts, delete and move attachments, and a pass of the deletion queue.
- A crash is that of the process, with the marker as the process left it; loss of
  power is in `RestoreRecovery`, whose marker it is. Recovery runs at `Start`;
  `main.go` does not call it (6).
- `handleRestoreExecute` passes scope "both", so rows and attachments come together.

## 4. Runs

| run | question | bounds | result |
|---|---|---|---|
| `sessions` | do families stay linear and bound to the credentials; does a refresh give the newest token; does clean-up spare retries in grace | 1 session, 4 tokens (three rotations), 2 calls, walks of 2, 3 ticks against TTLs of 2 and 3 and a grace of 1, 1 credential change; symmetry on tokens and calls | holds |
| `gate` | exclusion, no deadlock, no starvation, refinement (with its latch) | 2 writers, 3 maintainers | holds |
| `restore` | atomicity, reversibility, truth of the answer, refinement; back to service, and clean | 3 failures, 2 crashes, archive with or without attachments, no failing sync in `markPrepared` (with one, the safety properties but `NothingLeftBehind` and the refinement are proved, and that and `CleanupIsRetried` fail, see 6) | holds with recovery at startup |
| `restore_as_wired` | "resolves replacement restores before SQLite is opened or migrated", with startup as `main.go` has it | 1 failure, 1 crash | violated, see 6 |
| `accounts` | does a pending link always have its account and credentials; do links act only under theirs; address change by both owners; does the worker remove overdue registrations | 2 accounts, 2 addresses, 2 links, 1 call, 1 change of credentials | holds |
| `accounts_purge_race` | "removes all unverified users" and no others | 2 accounts, 2 links, 1 call | violated, see 6 |
| `attachments` | does every row keep its object; is any object lost sight of; quota, keys, links; is the queue fair | 2 uploads into a quota of 1, 2 transactions, passes of 1 entry, 1 object that can never be deleted, 1 failure, 1 loss of power | holds |
| `recurring` | does anybody act on a row that changed; is an occurrence lost; do live rules keep their accounts; do due rules move on | 2 rules, one of them old, 2 accounts, 1 client, 2 requests, 2 days, passes of 2 rules, 1 rule whose rate is never found, 1 failure or restart | holds |
| `bookkeeping` | do balances add up; is a key booked once; do reimbursements keep their items; is the flow of marks in order; refinement (with the answers under a key) | 2 personal and 1 public account, 3 requests (one by type), 1 key, 2 handlers, 2 transactions, balances from -2 to 1 | holds |
| `merge_restore` | is a restore run only on a session that is its own; do rows and objects come together; is the answer true; is anything left; do names stay apart; does a merge only add | 2 uploads with any of 3 backups, 1 place, 2 wrong codes, 2 attachments, 2 failures, 1 crash | holds with recovery at startup |
| `merge_restore_early_failure` | "keeps the service read-only after a failed rollback", and not otherwise | 1 failure, no crash | violated, see 6 |
| `matching` | are answers right, and the best | lists of up to 5 expenses of 3 amounts and 2 ages of which 4 are taken, targets of 3 and 6, depth 2 and 3, 1 or 2 answers, 3 or 100 nodes | holds |

Why the bounds are enough. Sessions: one family exercises everything, for
families only meet in statements that treat each row alike (the proofs cover
any number); four tokens make a chain in which two in the middle are consumed
under a walk, and one longer than the walk may be; two calls race; the clock passes every expiry. A second session
would only repeat the first. Gate: an upgrade deadlock needs two maintainers,
a queue behind them a third; two writers make reader counts above one. Restore:
an undo that fails during an undo needs two failures, a failed clean-up after
it a third; the second crash hits the recovery. Accounts: a change of address
takes two links, one of which a reset replaces; two accounts compete for an address,
and a purge of one can meet the registration of the other; more links, calls and
changes of credentials are covered by the proofs. Attachments: two uploads race for the last place, two entries make an order
in the queue, and a pass of one entry is the smallest batch a stuck object can
fill; the proofs cover any number. Recurring: every race is between the
scheduler and one owner over one row, or between an edit and an account; the second
rule is the one whose failure must not matter; two days make a rule catch up. Bookkeeping: two handlers race for one key, for one row, or
one for a row the other closes over; two transactions make a reimbursement of two and
carry a balance past both ends. Merge: two of three backups come in either order or one comes
twice; the later one meets the accounts, categories and objects of the earlier one
and of the user, and the third has a category renamed and its name given to another. Names
are such that the two lower cases agree or not: the first and the third backup have an
account and a category of one name with a capital SQLite leaves, so a second account is
missed, and a category too, which is referred to (the merge is refused by a foreign
key); the first and the second have a category in two spellings that only Go finds
equal. Which merges pass and which are refused, with and without objects to undo,
follows from the order. The undo of one failure may meet a second, and a crash either.
Matching: five expenses exceed the candidates, make equal neighbours and
combinations below and above the depth. Counters that would be unbounded (clock, changes of password or
credentials, failures, crashes) are bounded in the guards by `MaxTime`, `MaxPwd`,
`MaxVersion`, `MaxFaults`, `MaxCrashes`, `MaxDay`, `MaxRequests`, `MaxTxn`.

Deadlock is checked in the session, gate and bookkeeping runs. It is not in the
restore runs, where after its one restore, or when all uploads are over, the server
serves and nothing in the model is left to do, nor in the account runs, where links
and accounts may be used up, nor in `attachments`, where every upload may be over and
the queue empty, nor in `recurring`, where rules end, nor in `matching`, which ends.

## 5. Fairness

- `RefreshSessions`: its specification says that time passes and the clean-up
  worker, a ticker loop started by `main.go`, keeps running; no property of a run
  needs it. Nothing is assumed of clients.
- `MaintenanceGate`: a thread that can run does (the Go scheduler), and every
  handler returns. `Serialize` is strongly fair because a `sync.Mutex` hands
  itself over to a goroutine that has waited for long (its starvation mode).
  Arrival of requests is not fair.
- `ActionTokens`: the hourly worker keeps listing and deleting. Nothing is assumed
  of requests, mails or time.
- `Attachments`: the worker of the deletion queue, a ticker loop, starts passes,
  and a pass goes on. Nothing is assumed of uploads and requests, and only
  failures that pass are finite; a stuck object fails for ever.
- `RecurringGeneration`: the scheduler, a ticker loop, starts passes, and a pass goes
  on. Nothing is assumed of owners, requests or time. `DueRulesMoveOn` also needs
  fewer rules that always fail than a pass takes (`FINARCH_RECURRING_BATCH_LIMIT`,
  100 by default): the list is ordered by `next_run_at`, and theirs never moves.
- `RestoreRecovery`: a running process keeps running and a stopped one is
  started again (`docker-compose.yml:19` and `:111`, `restart: unless-stopped`).
  Failures and crashes are never fair; both are finite by their bounds.
- `Bookkeeping`, `CrossAccountRestore` and `Matching` assume none: their properties are
  about safety.

## 6. Findings

Shown by a run:

- *Recovery is not called* (`restore_as_wired`). `cmd/server/main.go:62` opens and
  migrates the database without `RecoverPendingRestoresBeforeOpen`; only tests
  call it, and `RecoverPendingCrossAccountRestores`. After a crash in a restore the
  mixture is served.
- *Verified accounts purged* (`accounts_purge_race`). `auth_service.go:907-908`
  promises to remove "unverified users". `user_tag_sqlite.go:368-404` lists the ids
  first and deletes by id in a later transaction; who verifies in between is
  deleted. `Register` (`auth_service.go:157-162`) has the same two steps.
- *Read-only after nothing* (`merge_restore_early_failure`). A merge that fails while
  its marker says "preparing" (a snapshot that cannot be written, a client that has
  gone) has touched no object, and its rows are gone with the transaction.
  `markRolledBack` is called all the same and always refused
  (`restore_recovery.go:571-573`), so the handler takes it for a failed rollback: the
  server is read-only until somebody restarts it.

Met while modelling, without a run:

- *Retry in grace treated as replay*. `DEPLOYMENT.en.md:235-237` promises recovery
  within the grace period. `now` is read before the lock; a clean-up that runs in
  between, after the grace is over, erases the sealed successor, and the retry then
  revokes the family. `NoReplayAlarmInsideGrace` holds: by the wall clock of the
  transaction, grace really is over.
- *Clean-up under a prepared marker*. When the sync of `markPrepared` fails after the
  rename, the engine deletes the copies under a marker that says "prepared"; a crash
  there leaves a marker recovery refuses at every start (with `PrepareSyncFails = TRUE`
  in `RestoreRecovery.cfg`, `CleanupIsRetried` fails). `server.go:3765-3766` says that
  a crash anywhere in the clean-up can be retried.
- *Transactions on a closed account*. A later backup of one user, merged after the
  account that an earlier one brought has been closed, puts transactions on it
  (`server.go:5915` ignores the row that is there, `server.go:6164` does not ask).
- *Categories move*. A merge puts categories the user had under the parent they have
  in the backup (`server.go:6006`). Two backups can make a third level, though
  `model/category.go:11` speaks of an "optional second level", or a cycle.
- *A category renamed between two backups* keeps the name it came with: the second
  merge finds the row of the first by its id (`INSERT OR IGNORE`, `server.go:5978`).
  Another category that has got the old name in the meantime is then taken for the
  renamed one (`server.go:5973`), and its transactions go there.
- *Names SQLite and Go lower differently*. A merge reads the names of the user through
  `lower(name)` and compares them with `strings.ToLower` of those in the backup. With
  an account "École" on both sides no conflict is seen, although `server.go:5868` says
  "conflict-safe rename in same mode", and the user ends with two accounts of that name.
  For a category "École" on both sides (`server.go:5940`: "deterministic dedup by
  (name,type)") the row is not inserted and `categoryMap` names one that does not exist:
  a merge that brings a transaction or a sub-category in it fails at a foreign key
  (`KeysHold` is false); one with neither passes. "École" and "ÉCOLE" both get in, and
  `validateRestoreIntegrity` refuses them. `NamesStayApart` claims the
  accounts only where the two lower cases agree (`Agreed`).
- *Categories that differ by case*. `UNIQUE(user_id, name, type)` lets a user have
  "Food" and "food", but `validateRestoreIntegrity` (`server.go:6440-6447`) looks at all
  categories of the user by `lower(name)`: such a user can merge nothing, ever. A backup
  with two such categories puts both into one row, which may be that of a category
  renamed since an earlier merge, under a name neither has; such backups are left out.
- *Files of an upload after a crash*. They stay in the temporary directory; nothing
  looks for them (`NothingLeftBehind` excepts them).

## 7. Proofs

TLAPS proves, for every value of the constants that satisfies the named
assumptions (`DurationsPositive`, `BoundsNat`, `NamesApart`; `ThreadsFinite`,
`ThreadsApart`; `BoundsAreNaturals`, `SwitchesAreBoolean`; `NothingApart`, `MaxVersionNat`;
`NamesAreApart`, `NumbersAreNat`, `OldAndFailing`, `DatesAreDays`;
`PersonalAreAccounts`, `RequestsName`, `NoKeyIsNoKey`; `PositiveAmounts`,
`PositiveRequests`, `NumbersAreNat`; `LimitsArePositive`, `NoSessionIsNone`,
`LowerCases`, `HomeIsAUsers`, `BackupsAreDatabases`; `BoundsAreNat` in both).
`LowerCases` says that to lower a word twice, or by SQLite first, makes no difference to
Go. `HomeIsAUsers` and `BackupsAreDatabases` say what the keys of `accounts`,
`categories` and `transactions` say of a database (`migration_v9.sql`), and that no row
the user always had carries an id made by a merge, which is a name-based UUID over a
seed of its own (`deterministicRestoreID`):

- **RefreshSessionsProofs**: type correctness, `OneActiveGeneration`,
  `ConsumedHasSuccessor`, `GraceNeverShrinks`, `NoLiveSessionWithOldCredentials`,
  `ExpiryWithinSession`, `SuccessorOutlivesGrace`, `RevokedIsFinal`, `RefreshYieldsNewest`,
  `NoReplayAlarmInsideGrace`. The invariants are not inductive
  alone. `GraceNeverShrinks` needs `ClocksRead`: a call that presents a token
  read its clock after the predecessor of that token was consumed, because
  nobody knew the token before (`UnusedIsUnknown`). A token picked for an
  insert is fresh for the same reason. `RefreshYieldsNewest` follows the walk `hop`,
  a recursive function, to the first place where it stops (`FirstOf`, `WalkLeads`):
  everything before is consumed and leads to the next generation, so the place is
  the active token of the family, of which there is one. A replay alarm means that
  the walk met a row without its sealed successor, which only a clean-up after the
  grace makes (`SealsLast`), and later tokens of a family have the later grace.
- **MaintenanceGateProofs**: type correctness, `MaintenanceExcludesWrites`,
  `FailedRollbackLatches`, `ReadOnlyHasAReason`, and the refinement of
  `WriteAdmission`. The inductive invariant says where in the code each lock is
  held (`LocksPlaced`, `LeasesPlaced`), that the reader count is the number of
  outstanding leases (`ReadersCounted`, by cardinality of a finite set), and what
  the state means there (`StatePlaced`).
- **RestoreRecoveryProofs**: type correctness, `MutationIsReversible`,
  `CommittedStateIsWhole` and `PromiseKept` whether or not startup recovers;
  `ServedStateIsWhole` and the refinement of `AtomicRestore` under
  `RecoverOnStart`; `NothingLeftBehind` under that and `~PrepareSyncFails`, the
  switches of the run, for without either it is false (6). The inductive invariant
  says what each phase of the engine has established (`EngineReady`), that clean-up runs only over a settled world
  (`CleanIsSettled`), that the marker, visible or durable, never lies
  (`MarkerTellsTruth`), and that an answer is the last thing given
  (`AnswerIsLast`). It holds for any number of failures and crashes.
- **ActionTokensProofs**: type correctness, `PendingLinksAreCurrent`,
  `OneEmailChange`, `OneWinnerPerVersion`, `LinksActUnderTheirCredentials`,
  `AddressChangesByBothOwners`. The inductive invariant adds who owns a row
  (`Owned`), that a link which changed credentials was issued under older ones
  (`Spent`), that a pending authorization went to the address the account still
  has (`FirstHalf`), and that a pending verification of a new address rests on a
  used authorization by the old one (`SecondHalf`). Two lemmas carry most steps:
  `LinksEnd` for those that leave credentials alone and `CredentialChangeKeeps`
  for the three that do not.
- **AttachmentsProofs**: type correctness, `RowsHaveObjects`, `QueueIsDead`,
  `QuotaHolds`, `PrimaryIsLinked`, `NothingElseIsForgotten`, `LinkedStay`. The
  inductive invariant says that an attachment with a row is past its upload,
  stored, and in neither the queue nor a running pass (`RowsAreSafe`), that what
  is to be deleted has an upload that cannot commit any more (`DoomedAreDead`),
  and that a pass takes an entry out only after its object is gone
  (`CompleteIsGone`). The quota is a fact about the cardinality of a finite set.
- **RecurringGenerationProofs**: type correctness, `NobodyActsOnAStaleRow`, `NoGaps`,
  `LiveRulesHaveOpenAccounts`, `HistoryStaysOpen`. The invariant that carries them is
  `SnapshotsAreOld`: a row somebody has read has a version of at most the row's, and
  with the same version it is the same row; so a condition on the version is
  one on the whole row. That the account of a booking is open then follows from
  `LiveRulesHaveOpenAccounts`, though `generateOne` read the account long before.
- **BookkeepingProofs**: type correctness, `BooksBalance`, `OneBookingPerKey`,
  `ReimbursementsStayWhole`, `FlowIsOrdered`, and the refinement of
  `IdempotentCreation`. A balance is a sum over the rows of an account (`Balanced`): a booking adds one term,
  a toggle or a reimbursement none, the end of the user takes all. `Keyed` says that
  the claim of a key and the row under it come and go together, and that an answer
  given while the user is there is still the row of its key. From that each step maps to
  one of the promise or to none: a creation books a free key (`CreatePromises`), a replay
  repeats a taken one (`ReplayPromises`), the end of the user ends it
  (`DeletionPromises`), and the next thing a handler does takes back at most what it was
  told (`SilentStepsPromise`). `FlowIsOrdered` needs
  what a toggle may rely on between its read and its update (`Toggling`): `reported`
  is never taken back from a row that was found fit to be paid back or settled.
  About matching: `AnswersAreRight` and `NothingBetterIsMissed`, for any list of
  expenses, budget and request. The search does not try every combination: of equal
  neighbours in the list it takes the first ones (`Canonical`). The argument has four
  parts, joined in the invariant `MatchIInv`.
  - What it tries is enough. To take the place before instead of a later one of the same
    amount leaves the sum and the size as they are and makes the answer no younger
    (`EarlierIsAsGood`), because equal amounts are listed oldest first. The sum of the
    places gets smaller, so a combination of the same amounts that is as good and has
    the least sum of places is canonical (`ACanonicalOne`); two canonical ones never
    have the same amounts (`CanonicalDiffer`). That is why `seen` loses nothing.
  - It goes through all of them. `Gone(R)` says that R comes before the place of the
    search in the order in which combinations are tried. A call that returns at once,
    or a place that is skipped, leaves behind no right answer but the call's own
    (`LeafGivesUpNothing`, `SkipGoesOn`, `ReturnGoesOn`): what is over the upper bound
    stays over it, the suffix sum bounds what can still come, and the depth is reached.
    So what is gone through grows by the combination a call is about and by nothing
    else (`GoneByCallsOnly`).
  - What is gone through is kept, or as many that are no worse (`Keeps`). `Consider`
    replaces the worst one only by a better one; that this forgets nothing needs that
    `Better` has levels, as an order by quotients of naturals does (`BetterHasLevels`).
  - Each answer is of a combination that was gone through (`Found`), so a new one has
    other amounts; sorting permutes the answers (`SortedIs`).
  At the end all combinations are gone through, unless the budget ran out.
- **CrossAccountRestoreProofs**: type correctness, `ExecutionIsCovered`,
  `RowsAndObjectsAgree`, `AnswersHold`, `NothingLeftBehind`, `NamesStayApart`,
  `MergesOnlyAdd`. The
  invariant has a part for each thing a failure may tear apart: sessions, their files
  and answers (`SessionInv`); marker, journal and ledger at each step (`PhaseInv`);
  `FilesInv`, that rows and objects agree, or would after the undo while the marker
  says prepared and no ledger row decides; and `TablesInv`, where the names in the
  tables come from. Nothing is assumed of how the two lower cases of a word relate but
  `LowerCases`. That accounts stay apart where they agree (`AgreedDiffer`) is kept by the
  loop, which knows the name of each account in one lower case or the other (`NamedBy`).
  That categories do is not: it holds because `Valid` let the merge pass, which
  `PhaseInv` remembers until the commit, and so does that each transaction has its
  category. What a category is called goes back to a
  merged backup in Go's lower case (`Origin`). Recovery is part of the specification, as in the run.

Sums and folds. What a balance or a total adds up to, and what the loops of an import
do, are folds of the community modules, defined by recursion over a set or a
sequence. The induction theorems of the library take an operator and cannot be used,
so these proofs unfold one turn of the recursion and argue by a smallest
counterexample: the smallest set (`Smallest`) or the least number (`Least`) for which
a statement fails. `SumStep` is what a sum gains with one element, `SumAgrees` and
`SumWithout` what it does not see; `SumExchanged` and `SumRenamed` change a member or
the names of the members; `FoldRuns` says that a fold over a sequence is what
a loop has computed at its end, and `AccountsLoop` and `CategoriesLoop` are the
invariants of the two loops.

The inductive invariants of these two modules, that of the search included, also hold
on the instances of their runs, checked by TLC.

Proved and in no run, for a run would repeat what the proof says of every value: type
correctness (`TypeOK`) of the specifications above, `ConsumedHasSuccessor`,
`GraceNeverShrinks`, `ExpiryWithinSession`, `SuccessorOutlivesGrace`,
`FailedRollbackLatches` (also part of the refinement), `ReadOnlyHasAReason`,
`CommittedStateIsWhole`, `OneEmailChange`, `OneWinnerPerVersion`, `QueueIsDead`,
`LinkedStay`, `HistoryStaysOpen`.

Only model-checked: all liveness (`OverdueRegistrationsGo`, `QueuedObjectsGo`,
`DueRulesMoveOn`, `MaintenanceGetsItsTurn`, `CleanupIsRetried`), which with ENABLED is
beyond the prover. Every invariant and every action property a passing run checks is a
theorem.

## 8. Not modelled

- Reads during maintenance: GET handlers pass no gate and the code promises nothing
  about them.
- SQL text, encoding, cryptography, wording, logging; the components marked "not
  modelled" above. Login protection and exchange rates are counters and a cache in
  memory under one mutex; migrations are ordered scripts before anything serves; the
  ledger service is called by nobody; the client side is assumed to do anything.
- Recurring generation: the calendar, and the end of a whole user account with its
  rules. Attachments: OCR, the bytes quota and the upload rate window, and a commit of
  an upload that reports an error and has committed (the commit of a merge and of a
  restore may). Matching: the query that lists the expenses, with its limit of 2000 rows
  and its filter by currency. Bookkeeping:
  exchange rates and their evidence, the audit log, life mode, more than one currency.
- Restores: failure of reading the archive before any change, an unordered file
  system, and a second replacement restore in the same behaviour. In a merge:
  projects, which only give transactions a name. Budgets, tags, rules and
  reimbursements of a backup are not merged by the code.
