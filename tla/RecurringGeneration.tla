------------------------ MODULE RecurringGeneration ------------------------
(***************************************************************************)
(* Recurring transactions: rules that owners edit, the scheduler that      *)
(* books their due occurrences, and requests that book one at once.        *)
(*                                                                         *)
(* Everyone works on a row read earlier: a pass of the scheduler on the    *)
(* rows it listed at its start, an edit on the row it read.  What keeps    *)
(* them apart is the row's version.  Database transactions are serialized  *)
(* (_txlock=immediate) and are one action each.                            *)
(*                                                                         *)
(* Time is counted in dates of a rule's schedule: an occurrence is the     *)
(* rule and a date, and its date names its idempotency key.  Transactions  *)
(* are never deleted.                                                      *)
(***************************************************************************)
EXTENDS Integers, FiniteSets

CONSTANTS
  Rule, Account, NoAccount, NoRule,
  Scheduler, Client,
  Old,        \* rules made before rules had versions
  OldAccounts, \* the accounts they are on
  Failing,    \* rules for which no exchange rate is ever found
  Batch,      \* FINARCH_RECURRING_BATCH_LIMIT
  MaxCatchUp, \* defaultMaxCatchUpPerRule
  MaxDay,     \* bound: the last date
  Starts, Ends, \* bound: the first and last dates that owners ask for
  MaxRequests,   \* bound: requests of rules
  MaxFaults   \* bound: failures that pass, and restarts

ASSUME NamesAreApart == NoAccount \notin Account /\ NoRule \notin Rule /\ Scheduler \notin Client
ASSUME OldAndFailing == Old \subseteq Rule /\ Failing \subseteq Rule /\ OldAccounts \subseteq Account
ASSUME DatesAreDays == Starts \subseteq Nat /\ Ends \subseteq Nat
ASSUME NumbersAreNat == /\ Batch \in Nat /\ MaxCatchUp \in Nat
                        /\ MaxDay \in Nat /\ MaxRequests \in Nat /\ MaxFaults \in Nat

VARIABLES
  today,
  open,         \* accounts with is_active = 1, all of one type
  row,          \* recurring_transaction_rules
  generated,    \* dates of a rule with an instance row marked generated; a row left at
                \* generating or failed is taken over as if it were not there
  booked,       \* dates of a rule with a transaction
  history,      \* accounts with a transaction
  job,          \* what the scheduler and each client is doing
  requests, faults,
  from          \* the date an owner last set a rule to (no variable of the code)

ledger == <<generated, booked, history>>
vars == <<today, open, row, ledger, job, requests, faults, from>>

Process == {Scheduler} \cup Client
Day == 0..MaxDay

Statuses == {"active", "paused", "ended"}
Rows == [status : Statuses \cup {"none"}, version : Nat, start : Nat, end : Nat,
         next : Nat, acct : Account \cup {NoAccount}]
Blank == [status |-> "none", version |-> 0, start |-> 0, end |-> 0, next |-> 0, acct |-> NoAccount]

\* cur is the rule in hand, snap the rows as they were read, rest the listed
\* rules still to come.
Jobs == [at : {"idle", "next", "loaded", "prepared", "done", "editing"},
         rest : SUBSET Rule, cur : Rule \cup {NoRule}, snap : [Rule -> Rows],
         now : Nat, count : Nat]
Idle == [at |-> "idle", rest |-> {}, cur |-> NoRule, snap |-> [r \in Rule |-> Blank],
         now |-> 0, count |-> 0]

\* Rows of an earlier version of the program, with or without a transaction that
\* it left unconnected.
OldRows == [status : {"active"}, version : {1}, start : {0}, end : Ends, next : {0},
            acct : OldAccounts]

Init ==
  /\ today = 0 /\ open = Account
  /\ row \in [Rule -> {Blank} \cup OldRows]
  /\ \A r \in Rule : row[r] = Blank <=> r \notin Old
  /\ booked \in [Rule -> {{}, {0}}] /\ \A r \in Rule \ Old : booked[r] = {}
  /\ generated = [r \in Rule |-> {}]
  /\ history = {row[r].acct : r \in {q \in Rule : booked[q] # {}}}
  /\ job = [p \in Process |-> Idle]
  /\ requests = 0 /\ faults = 0
  /\ from = [r \in Rule |-> 0]

\* What there is to do, with the rows of S as they are now.
Reading(S, at, rest, r, now) ==
  [at |-> at, rest |-> rest, cur |-> r,
   snap |-> [q \in Rule |-> IF q \in S THEN row[q] ELSE Blank], now |-> now, count |-> 0]

------------------------------------------------------------------------------
(* Rules and accounts.                                                     *)

\* NextRecurringOccurrence: the first date of the schedule that is not before.
NextOccurrence(start, after) == IF start > after THEN start ELSE after
\* The occurrence of the day may still be to come, or be over.
FromNow(start, now) == {NextOccurrence(start, now), NextOccurrence(start, now + 1)}

\* Every UPDATE of a rule has version = version + 1.
Changed(w, st, n) == [status |-> st, version |-> w.version + 1, start |-> w.start,
                      end |-> w.end, next |-> n, acct |-> w.acct]
Ended(r) == Changed(row[r], "ended", row[r].next)

\* A request for a rule that starts out paused or ended is the edit that follows.
NewRows == [status : {"active"}, version : {1}, start : Starts, end : Ends,
            next : 0..(MaxDay + 1), acct : Account]
\* CreateRule; the account is checked again by the INSERT.
CreateRule(r, new) ==
  /\ row[r] = Blank
  /\ new.acct \in open /\ new.version = 1
  /\ new.start <= new.end /\ new.next \in FromNow(new.start, today)
  /\ row' = [row EXCEPT ![r] = new]
  /\ from' = [from EXCEPT ![r] = new.next]
  /\ UNCHANGED <<today, open, ledger, job, requests, faults>>

\* UpdateRule and SetStatus read the row first.
StartEdit(p, r) ==
  /\ job[p].at = "idle" /\ row[r] # Blank
  /\ requests < MaxRequests /\ requests' = requests + 1
  /\ job' = [job EXCEPT ![p] = Reading({r}, "editing", {}, r, today)]
  /\ UNCHANGED <<today, open, row, ledger, faults, from>>

\* UpdateRule, normalizeRule: next_run_at is computed anew when the request names
\* any part of the schedule.  An account that is closed by now is never reopened,
\* so its check before the UPDATE is the one of the UPDATE.
Updated(s, now) ==
  {new \in [status : Statuses, version : {s.version + 1}, start : Starts \cup {s.start},
            end : Ends, next : FromNow(s.start, now) \cup {s.next}
                                 \cup UNION {FromNow(b, now) : b \in Starts}, acct : Account] :
     /\ new.start <= new.end
     /\ \/ new.next \in FromNow(new.start, now)
        \/ new.start = s.start /\ new.next = s.next}
\* SetStatus
WithStatus(s, now) ==
  {Changed(s, st, s.next) : st \in {"paused", "ended"}} \cup
  {Changed(s, "active", n) : n \in FromNow(s.start, now)}

\* Mutant: the account was checked before.
VersionOnly(s, r, new) == row[r].version = s.version
\* The condition of the UPDATE: the version, and EXISTS an active account.
MayUpdate(s, r, new) == row[r].version = s.version /\ new.acct \in open

UpdateRule(p) ==
  LET r == job[p].cur  s == job[p].snap[r] IN
  /\ job[p].at = "editing"
  /\ \E new \in Updated(s, job[p].now) \cup WithStatus(s, job[p].now) :
       /\ MayUpdate(s, r, new)
       /\ row' = [row EXCEPT ![r] = new]
       /\ from' = IF row[r].next = new.next THEN from ELSE [from EXCEPT ![r] = new.next]
  /\ job' = [job EXCEPT ![p] = Idle]
  /\ UNCHANGED <<today, open, ledger, requests, faults>>

\* A request that is not valid, or whose row or account is not there any more.
RefuseUpdate(p) ==
  /\ job[p].at = "editing"
  /\ job' = [job EXCEPT ![p] = Idle]
  /\ UNCHANGED <<today, open, row, ledger, requests, faults, from>>

DeleteRule(r) ==
  /\ row[r] # Blank
  /\ requests < MaxRequests /\ requests' = requests + 1
  /\ row' = [row EXCEPT ![r] = Ended(r)]
  /\ UNCHANGED <<today, open, ledger, job, faults, from>>

\* The guards of DeleteAccount.
MayClose(a) == Cardinality(open) > 1 /\ a \notin history
\* DeleteAccount
CloseAccount(a) ==
  /\ a \in open /\ MayClose(a)
  /\ open' = open \ {a}
  /\ row' = [r \in Rule |-> IF row[r].acct = a THEN Ended(r) ELSE row[r]]
  /\ UNCHANGED <<today, ledger, job, requests, faults, from>>

------------------------------------------------------------------------------
(* Generation.                                                             *)

\* ListDueRules: ORDER BY next_run_at LIMIT.
Due == {r \in Rule : row[r].status = "active" /\ row[r].next <= today}
DueBatches ==
  {B \in SUBSET Due : /\ Cardinality(B) <= Batch
                      /\ Cardinality(B) < Batch => B = Due
                      /\ \A r \in B, q \in Due \ B : row[r].next <= row[q].next}

\* GenerateDue
ListDue(p) ==
  /\ job[p].at = "idle"
  /\ \E B \in DueBatches :
       /\ B # {}
       /\ job' = [job EXCEPT ![p] = Reading(B, "next", B, NoRule, today)]
  /\ UNCHANGED <<today, open, row, ledger, requests, faults, from>>

\* The next rule of the list, as it was listed.
TakeRule(p) ==
  /\ job[p].at = "next"
  /\ \E r \in job[p].rest :
       /\ \A q \in job[p].rest : job[p].snap[r].next <= job[p].snap[q].next
       /\ job' = [job EXCEPT ![p].at = "loaded", ![p].cur = r,
                             ![p].rest = @ \ {r}, ![p].count = 0]
  /\ UNCHANGED <<today, open, row, ledger, requests, faults, from>>

\* GenerateRuleNow, whatever the row's status and next_run_at.
GenerateRuleNow(p, r) ==
  /\ job[p].at = "idle"
  /\ row[r] # Blank
  /\ requests < MaxRequests /\ requests' = requests + 1
  /\ job' = [job EXCEPT ![p] = Reading({r}, "loaded", {}, r, 0)]
  /\ UNCHANGED <<today, open, row, ledger, faults, from>>

\* Done with the rule in hand: the next of the list, or none.
Forget(p) == [job[p].snap EXCEPT ![job[p].cur] = Blank]
\* Mutant: an error ends the whole pass.
StopPass(p) == job' = [job EXCEPT ![p] = Idle]
NextRule(p) ==
  job' = [job EXCEPT ![p] = IF job[p].rest = {} THEN Idle
            ELSE [@ EXCEPT !.at = "next", !.cur = NoRule, !.snap = Forget(p), !.count = 0]]

\* generateOne returned without error: GenerateDue reads the row again.
Returned(p) ==
  IF p = Scheduler THEN job' = [job EXCEPT ![p].at = "done"] ELSE NextRule(p)

\* Mutant: a row that is active and due is as good as the one that was read.
StillDue(r, s) == row[r].status = "active" /\ row[r].next = s.next
\* What AdvanceRule, ClaimInstance and ReclaimInstance require of the row.
Current(r, s) ==
  row[r].status = "active" /\ row[r].version = s.version /\ row[r].next = s.next

PastEnd(s) == s.next > s.end

\* The occurrence is past the end of the rule.
EndRule(p) ==
  LET r == job[p].cur  s == job[p].snap[r] IN
  /\ job[p].at = "loaded" /\ PastEnd(s) /\ Current(r, s)
  /\ row' = [row EXCEPT ![r] = Ended(r)]
  /\ Returned(p)
  /\ UNCHANGED <<today, open, ledger, requests, faults, from>>

\* The transaction is looked up, or its exchange rate resolved.
Resolvable(r, s) == s.next \in booked[r] \/ (r \notin Failing /\ s.acct \in open)
Prepare(p) ==
  LET r == job[p].cur  s == job[p].snap[r] IN
  /\ job[p].at = "loaded" /\ ~PastEnd(s) /\ Resolvable(r, s)
  /\ job' = [job EXCEPT ![p].at = "prepared"]
  /\ UNCHANGED <<today, open, row, ledger, requests, faults, from>>

\* generateOne fails before its transaction.
PrepareFails(p) ==
  LET r == job[p].cur  s == job[p].snap[r] IN
  /\ job[p].at = "loaded"
  /\ IF PastEnd(s) THEN ~Current(r, s) ELSE ~Resolvable(r, s)
  /\ NextRule(p)
  /\ UNCHANGED <<today, open, row, ledger, requests, faults, from>>

\* Mutant: the next occurrence is computed from today.
AfterToday(s) == NextOccurrence(s.start, (IF today > s.next THEN today ELSE s.next) + 1)
\* advanceRule
After(s) == NextOccurrence(s.start, s.next + 1)
Advanced(r, s) == Changed(row[r], IF After(s) > s.end THEN "ended" ELSE "active", After(s))

\* The transaction of generateOne: the occurrence is claimed, or an interrupted
\* claim taken over; the transaction is created, or the one that exists is
\* connected; the rule moves on.
Generate(p) ==
  LET r == job[p].cur  s == job[p].snap[r] IN
  /\ job[p].at = "prepared" /\ Current(r, s)
  /\ s.next \in booked[r] \/ (s.next \notin generated[r] /\ s.acct \in open)
  /\ booked' = [booked EXCEPT ![r] = @ \cup {s.next}]
  /\ history' = IF s.next \in booked[r] THEN history ELSE history \cup {s.acct}
  /\ generated' = [generated EXCEPT ![r] = @ \cup {s.next}]
  /\ row' = [row EXCEPT ![r] = Advanced(r, s)]
  /\ Returned(p)
  /\ UNCHANGED <<today, open, requests, faults, from>>

\* The row is not the one that was read: skipped, without error.
SkipStale(p) ==
  LET r == job[p].cur  s == job[p].snap[r] IN
  /\ job[p].at = "prepared" /\ ~Current(r, s)
  /\ Returned(p)
  /\ UNCHANGED <<today, open, row, ledger, requests, faults, from>>

\* The loop of GenerateDue: again with the same rule while it is due, unless the
\* rule does not catch up or has caught up enough.
Reload(p) ==
  LET r == job[p].cur IN
  /\ job[p].at = "done"
  /\ \/ /\ row[r].status = "active" /\ row[r].next <= job[p].now
        /\ job[p].count + 1 < MaxCatchUp
        /\ job' = [job EXCEPT ![p].at = "loaded", ![p].snap[r] = row[r], ![p].count = @ + 1]
     \/ NextRule(p)
  /\ UNCHANGED <<today, open, row, ledger, requests, faults, from>>

\* A failure that passes: the database or the rate service, inside or outside of
\* the transaction, which is rolled back.
GenerateFails(p) ==
  /\ job[p].at \in {"loaded", "prepared", "done"}
  /\ faults < MaxFaults /\ faults' = faults + 1
  /\ NextRule(p)
  /\ UNCHANGED <<today, open, row, ledger, requests, from>>

\* The process is stopped and started.
Restart ==
  /\ faults < MaxFaults /\ faults' = faults + 1
  /\ job' = [p \in Process |-> Idle]
  /\ UNCHANGED <<today, open, row, ledger, requests, from>>

Tick ==
  /\ today < MaxDay /\ today' = today + 1
  /\ UNCHANGED <<open, row, ledger, job, requests, faults, from>>

------------------------------------------------------------------------------
Owner ==
  \/ \E r \in Rule, new \in NewRows : CreateRule(r, new)
  \/ \E p \in Client, r \in Rule : StartEdit(p, r)
  \/ \E p \in Client : UpdateRule(p) \/ RefuseUpdate(p)
  \/ \E r \in Rule : DeleteRule(r)
  \/ \E a \in Account : CloseAccount(a)

GenerateOne(p) ==
  EndRule(p) \/ Prepare(p) \/ PrepareFails(p) \/ Generate(p) \/ SkipStale(p)
Pass == ListDue(Scheduler) \/ TakeRule(Scheduler) \/ GenerateOne(Scheduler) \/ Reload(Scheduler)

Generation ==
  \/ Pass
  \/ \E p \in Client, r \in Rule : GenerateRuleNow(p, r)
  \/ \E p \in Client : GenerateOne(p)
  \/ \E p \in Process : GenerateFails(p)

Next == Owner \/ Generation \/ Restart \/ Tick

\* runPeriodicWorker calls GenerateDue again and again, and it returns.
Fairness == WF_vars(Pass)
Spec == Init /\ [][Next]_vars /\ Fairness

------------------------------------------------------------------------------
(* Properties.                                                             *)

\* The types of the variables.
TypeOK ==
  /\ today \in Day /\ open \subseteq Account
  /\ row \in [Rule -> Rows]
  /\ generated \in [Rule -> SUBSET Nat] /\ booked \in [Rule -> SUBSET Nat]
  /\ history \subseteq Account
  /\ job \in [Process -> Jobs]
  /\ requests \in 0..MaxRequests /\ faults \in 0..MaxFaults
  /\ from \in [Rule -> Nat]

\* A row is changed, and a transaction booked, only by someone who read the row
\* as it is now: an edit, a pass that listed the rule long before, or a request.
\* (Ending a rule, DeleteRule and CloseAccount, needs no reading.)  What is
\* booked is the row's next date, of an active rule, not past its end, on an
\* account that is open.
NobodyActsOnAStaleRow ==
  [][\A r \in Rule :
       /\ row'[r] # row[r] \/ booked'[r] # booked[r] =>
            \/ row[r] = Blank
            \/ row'[r] = Ended(r) /\ booked'[r] = booked[r]
            \/ \E p \in Process : job[p].cur = r /\ job[p].snap[r] = row[r]
       /\ booked'[r] # booked[r] =>
            /\ booked'[r] = booked[r] \cup {row[r].next}
            /\ row[r].status = "active" /\ row[r].next <= row[r].end
            /\ row[r].acct \in open]_vars

\* A rule that is not ended has an open account, although requests move rules to
\* accounts that are being closed.
LiveRulesHaveOpenAccounts ==
  \A r \in Rule : row[r].status \in {"active", "paused"} => row[r].acct \in open

\* An account with transactions is never closed, not even by a request that
\* races the first booking.
HistoryStaysOpen == history \subseteq open

\* Generation leaves no gaps: from the date the owner set a rule to until the
\* date it has come to, every occurrence has its transaction and an instance
\* that says so.
NoGaps ==
  \A r \in Rule : \A d \in from[r]..(row[r].next - 1) :
    d \in booked[r] \cap generated[r]

\* A due rule moves on, whatever the other rules do, unless its exchange rate is
\* never found.
DueRulesMoveOn ==
  \A r \in Rule \ Failing : \A d \in Day :
    row[r].status = "active" /\ row[r].next = d /\ d <= today
      ~> row[r].status # "active" \/ row[r].next # d
=============================================================================
