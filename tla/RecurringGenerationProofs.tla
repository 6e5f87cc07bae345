---------------------- MODULE RecurringGenerationProofs ----------------------
(***************************************************************************)
(* Proofs about RecurringGeneration, for any number of rules, accounts and *)
(* clients, any batch and any number of requests and failures.             *)
(*                                                                         *)
(* The argument is optimistic locking: versions only grow, so a row that   *)
(* still has the version it was read at is still the row that was read     *)
(* (SnapshotsAreOld).  All the rest follows from the guards on the row.    *)
(***************************************************************************)
EXTENDS RecurringGeneration, TLAPS

\* A row that was never written has version 0, and no other has.
WrittenRowsHaveVersions == \A r \in Rule : row[r] = Blank <=> row[r].version = 0
\* A row that was read is older than the row, or is the row.
SnapshotsAreOld ==
  \A p \in Process, r \in Rule :
    /\ job[p].snap[r].version <= row[r].version
    /\ job[p].snap[r].version = row[r].version => job[p].snap[r] = row[r]
\* Who works on a rule has one in hand, and past its end nothing is prepared.
RuleInHand ==
  \A p \in Process :
    /\ job[p].at \in {"loaded", "prepared", "done", "editing"} => job[p].cur \in Rule
    /\ job[p].at = "prepared" => ~PastEnd(job[p].snap[job[p].cur])
\* A rule never stands before its schedule.
NeverBeforeStart == \A r \in Rule : row[r].start <= row[r].next

IInv ==
  /\ TypeOK /\ WrittenRowsHaveVersions /\ SnapshotsAreOld /\ RuleInHand /\ NeverBeforeStart
  /\ LiveRulesHaveOpenAccounts /\ HistoryStaysOpen /\ NoGaps

USE NamesAreApart, OldAndFailing, DatesAreDays, NumbersAreNat

(* The next date is in the schedule, and not before the one asked for.       *)
LEMMA NextIsAfter ==
  ASSUME NEW b \in Nat, NEW n \in Nat
  PROVE  /\ NextOccurrence(b, n) \in Nat
         /\ b <= NextOccurrence(b, n) /\ n <= NextOccurrence(b, n)
         /\ b <= n => NextOccurrence(b, n) = n
  BY DEF NextOccurrence

(* A changed row is a row, of the next version.                              *)
LEMMA ChangedIsNewer ==
  ASSUME NEW w \in Rows, NEW st \in Statuses, NEW n \in Nat
  PROVE  /\ Changed(w, st, n) \in Rows
         /\ Changed(w, st, n).version = w.version + 1 /\ w.version < Changed(w, st, n).version
         /\ Changed(w, st, n).status = st /\ Changed(w, st, n).next = n
         /\ Changed(w, st, n).start = w.start /\ Changed(w, st, n).acct = w.acct
<1>1. /\ w.version \in Nat /\ w.start \in Nat /\ w.end \in Nat
      /\ w.acct \in Account \cup {NoAccount}
  BY DEF Rows
<1> QED
  BY <1>1 DEF Changed, Rows

(* A blank row, and what nobody is doing, have their types.                  *)
LEMMA BlankTypes == Blank \in Rows /\ Idle \in Jobs
  BY DEF Blank, Idle, Rows, Jobs, Statuses

(* The initial state satisfies the invariant.                                *)
LEMMA InitEstablishes == Init => IInv
<1> SUFFICES ASSUME Init PROVE IInv
  OBVIOUS
<1>1. \A r \in Rule : \/ row[r] = Blank /\ r \notin Old
                      \/ row[r] \in OldRows /\ r \in Old
  BY DEF Init
<1>2. \A r \in Rule : row[r] \in Rows /\ row[r].next = 0 /\ row[r].start = 0
  <2>1. OldRows \subseteq Rows /\ \A w \in OldRows : w.next = 0 /\ w.start = 0
    <3> SUFFICES ASSUME NEW w \in OldRows PROVE w \in Rows /\ w.next = 0 /\ w.start = 0
      OBVIOUS
    <3>1. w.end \in Nat /\ w.acct \in Account
      BY DEF OldRows
    <3> QED
      BY <3>1 DEF OldRows, Rows, Statuses
  <2>2. Blank.next = 0 /\ Blank.start = 0
    BY DEF Blank
  <2> QED
    BY <1>1, <2>1, <2>2, BlankTypes
<1>3. row \in [Rule -> Rows]
  BY <1>2 DEF Init
<1>4. history \subseteq Account
  <2> SUFFICES ASSUME NEW r \in Rule, booked[r] # {} PROVE row[r].acct \in Account
    BY DEF Init
  <2> QED
    BY <1>1 DEF Init, OldRows
<1>5. job \in [Process -> Jobs] /\ \A p \in Process : job[p] = Idle
  BY BlankTypes DEF Init
<1>6. TypeOK
  BY <1>3, <1>4, <1>5 DEF Init, TypeOK, Day
<1>7. WrittenRowsHaveVersions
  BY <1>1 DEF WrittenRowsHaveVersions, OldRows, Blank
<1>8. SnapshotsAreOld
  <2> SUFFICES ASSUME NEW p \in Process, NEW r \in Rule
               PROVE  /\ Blank.version <= row[r].version
                      /\ Blank.version = row[r].version => Blank = row[r]
    BY <1>5 DEF SnapshotsAreOld, Idle
  <2> QED
    BY <1>1 DEF OldRows, Blank
<1>9. RuleInHand
  BY <1>5 DEF RuleInHand, Idle
<1>10. NeverBeforeStart
  BY <1>2 DEF NeverBeforeStart
<1>11. LiveRulesHaveOpenAccounts
  BY <1>1 DEF Init, LiveRulesHaveOpenAccounts, OldRows, Blank
<1>12. HistoryStaysOpen
  BY <1>4 DEF Init, HistoryStaysOpen
<1>13. NoGaps
  BY <1>2 DEF Init, NoGaps
<1> QED
  BY <1>6, <1>7, <1>8, <1>9, <1>10, <1>11, <1>12, <1>13 DEF IInv

------------------------------------------------------------------------------
(* What the steps do to the jobs.                                          *)

\* A step only forgets rows that were read, or reads rows as they are.
SnapsKept == \A q \in Process, r \in Rule : job'[q].snap[r] \in {job[q].snap[r], Blank}
SnapsRead == \A q \in Process, r \in Rule : job'[q].snap[r] \in {job[q].snap[r], row[r], Blank}
JobsWell == job' \in [Process -> Jobs] /\ RuleInHand'

(* Whatever a process turns to, the others go on with what they had.         *)
LEMMA OneJobChanges ==
  ASSUME TypeOK, RuleInHand, NEW p \in Process, NEW j \in Jobs,
         job' = [job EXCEPT ![p] = j],
         j.at \in {"loaded", "prepared", "done", "editing"} => j.cur \in Rule,
         j.at = "prepared" => ~PastEnd(j.snap[j.cur])
  PROVE  /\ JobsWell
         /\ (\A r \in Rule : j.snap[r] \in {job[p].snap[r], Blank}) => SnapsKept
         /\ (\A r \in Rule : j.snap[r] \in {job[p].snap[r], row[r], Blank}) => SnapsRead
<1>1. \A q \in Process : job'[q] = IF q = p THEN j ELSE job[q]
  BY DEF TypeOK
<1>2. job' \in [Process -> Jobs]
  BY DEF TypeOK
<1>3. RuleInHand'
  BY <1>1 DEF RuleInHand, PastEnd
<1> QED
  BY <1>1, <1>2, <1>3 DEF JobsWell, SnapsKept, SnapsRead

(* Nobody's job changes.                                                     *)
LEMMA NoJobChanges ==
  ASSUME TypeOK, RuleInHand, UNCHANGED job PROVE JobsWell /\ SnapsKept
  BY DEF TypeOK, RuleInHand, JobsWell, SnapsKept, PastEnd

(* Turning to nothing forgets everything.                                    *)
LEMMA TurnIdle ==
  ASSUME TypeOK, RuleInHand, NEW p \in Process, job' = [job EXCEPT ![p] = Idle]
  PROVE  JobsWell /\ SnapsKept
<1>1. /\ Idle.at = "idle" /\ \A r \in Rule : Idle.snap[r] = Blank
      /\ Idle \in Jobs
  BY BlankTypes DEF Idle
<1>2. Idle.at \notin {"loaded", "prepared", "done", "editing"}
  BY <1>1
<1>3. /\ JobsWell
      /\ (\A r \in Rule : Idle.snap[r] \in {job[p].snap[r], Blank}) => SnapsKept
  BY <1>1, <1>2, OneJobChanges
<1> QED
  BY <1>1, <1>3

(* Turning to the next rule forgets the one in hand.                         *)
LEMMA TurnToNext ==
  ASSUME TypeOK, RuleInHand, NEW p \in Process, NextRule(p)
  PROVE  JobsWell /\ SnapsKept
<1>1. CASE job[p].rest = {}
  BY <1>1, TurnIdle DEF NextRule
<1>2. CASE job[p].rest # {}
  <2> DEFINE j == [job[p] EXCEPT !.at = "next", !.cur = NoRule, !.snap = Forget(p), !.count = 0]
  <2>1. job[p] \in Jobs /\ job' = [job EXCEPT ![p] = j]
    BY <1>2 DEF TypeOK, NextRule
  <2>2. /\ Forget(p) \in [Rule -> Rows]
        /\ \A r \in Rule : Forget(p)[r] \in {job[p].snap[r], Blank}
    BY <2>1, BlankTypes DEF Forget, Jobs
  <2>3. j \in Jobs /\ j.at = "next" /\ j.snap = Forget(p)
    BY <2>1, <2>2 DEF Jobs
  <2>4. j.at \notin {"loaded", "prepared", "done", "editing"}
    BY <2>3
  <2> HIDE DEF j
  <2>5. JobsWell /\ ((\A r \in Rule : j.snap[r] \in {job[p].snap[r], Blank}) => SnapsKept)
    BY <2>1, <2>3, <2>4, OneJobChanges
  <2> QED
    BY <2>2, <2>3, <2>5
<1> QED
  BY <1>1, <1>2

(* Reading rows, to work on them from here.                                  *)
LEMMA TurnToRows ==
  ASSUME TypeOK, RuleInHand, NEW p \in Process, NEW S \in SUBSET Rule,
         NEW at \in {"next", "loaded", "editing"}, NEW rest \in SUBSET Rule,
         NEW r \in Rule \cup {NoRule}, NEW n \in Nat, at # "next" => r \in Rule,
         job' = [job EXCEPT ![p] = Reading(S, at, rest, r, n)]
  PROVE  JobsWell /\ SnapsRead
<1> DEFINE sn == [q \in Rule |-> IF q \in S THEN row[q] ELSE Blank]
           j == Reading(S, at, rest, r, n)
<1>1. row \in [Rule -> Rows]
  BY DEF TypeOK
<1>2. sn \in [Rule -> Rows] /\ \A q \in Rule : sn[q] \in {row[q], Blank}
  BY <1>1, BlankTypes
<1>3. j = [at |-> at, rest |-> rest, cur |-> r, snap |-> sn, now |-> n, count |-> 0]
  BY DEF Reading
<1>6. job' = [job EXCEPT ![p] = j]
  OBVIOUS
<1> HIDE DEF sn, j
<1>4. j \in Jobs /\ j.at = at /\ j.cur = r /\ j.snap = sn
  BY <1>2, <1>3 DEF Jobs
<1>5. j.at # "prepared" /\ (j.at \in {"loaded", "prepared", "done", "editing"} => j.cur \in Rule)
  BY <1>4
<1>7. JobsWell /\ ((\A q \in Rule : j.snap[q] \in {job[p].snap[q], row[q], Blank}) => SnapsRead)
  BY <1>4, <1>5, <1>6, OneJobChanges
<1> QED
  BY <1>2, <1>4, <1>7

(* Going on with the rule in hand.                                           *)
LEMMA TurnTo ==
  ASSUME TypeOK, RuleInHand, NEW p \in Process, job[p].cur \in Rule,
         NEW at \in {"prepared", "done"}, job' = [job EXCEPT ![p].at = at],
         at = "prepared" => ~PastEnd(job[p].snap[job[p].cur])
  PROVE  JobsWell /\ SnapsKept
<1> DEFINE j == [job[p] EXCEPT !.at = at]
<1>1. job[p] \in Jobs /\ job' = [job EXCEPT ![p] = j]
  BY DEF TypeOK
<1>2. j \in Jobs /\ j.at = at /\ j.cur = job[p].cur /\ j.snap = job[p].snap
  BY <1>1 DEF Jobs
<1> HIDE DEF j
<1> QED
  BY <1>1, <1>2, OneJobChanges

(* So does returning without error, for a pass and for a request.             *)
LEMMA TurnBack ==
  ASSUME TypeOK, RuleInHand, NEW p \in Process, job[p].cur \in Rule, Returned(p)
  PROVE  JobsWell /\ SnapsKept
<1>1. CASE p = Scheduler
  BY <1>1, TurnTo DEF Returned
<1>2. CASE p # Scheduler
  BY <1>2, TurnToNext DEF Returned
<1> QED
  BY <1>1, <1>2

------------------------------------------------------------------------------
(* Steps that only look.                                                   *)

(* A step that leaves the database alone keeps the invariant.                *)
LEMMA OnlyJobsMove ==
  ASSUME IInv, UNCHANGED <<open, row, ledger, from>>, JobsWell, SnapsRead,
         today' \in Day, requests' \in 0..MaxRequests, faults' \in 0..MaxFaults
  PROVE  IInv'
<1>1. TypeOK' /\ RuleInHand'
  BY DEF IInv, TypeOK, JobsWell, ledger
<1>2. UNCHANGED <<open, row, generated, booked, history, from>>
  BY DEF ledger
<1>3. WrittenRowsHaveVersions' /\ NeverBeforeStart' /\ LiveRulesHaveOpenAccounts' /\ HistoryStaysOpen'
  BY <1>2 DEF IInv, WrittenRowsHaveVersions, NeverBeforeStart, LiveRulesHaveOpenAccounts,
              HistoryStaysOpen
<1>4. NoGaps'
  BY <1>2 DEF IInv, NoGaps
<1>5. SnapshotsAreOld'
  <2> SUFFICES ASSUME NEW p \in Process, NEW r \in Rule
               PROVE  /\ job'[p].snap[r].version <= row[r].version
                      /\ job'[p].snap[r].version = row[r].version => job'[p].snap[r] = row[r]
    BY <1>2 DEF SnapshotsAreOld
  <2>1. row[r] \in Rows /\ row[r].version \in Nat
    BY DEF IInv, TypeOK, Rows
  <2>2. CASE job'[p].snap[r] = job[p].snap[r]
    BY <2>2 DEF IInv, SnapshotsAreOld
  <2>3. CASE job'[p].snap[r] = row[r]
    BY <2>1, <2>3
  <2>4. CASE job'[p].snap[r] = Blank
    BY <2>1, <2>4 DEF IInv, WrittenRowsHaveVersions, Blank
  <2> QED
    BY <2>2, <2>3, <2>4 DEF SnapsRead
<1> QED
  BY <1>1, <1>3, <1>4, <1>5 DEF IInv

(* What is forgotten is not misread.                                         *)
LEMMA KeptIsRead == SnapsKept => SnapsRead
  BY DEF SnapsKept, SnapsRead

(* Reading rows: the start of an edit, of a pass, of a request.              *)
LEMMA ReadersKeep ==
  ASSUME IInv, NEW p \in Process, NEW r \in Rule,
         StartEdit(p, r) \/ ListDue(p) \/ GenerateRuleNow(p, r)
  PROVE  IInv'
<1>1. TypeOK /\ RuleInHand /\ requests \in 0..MaxRequests /\ faults \in 0..MaxFaults
  BY DEF IInv, TypeOK
<1>2. today \in Day /\ today \in Nat
  BY DEF IInv, TypeOK, Day
<1>3. CASE StartEdit(p, r)
  <2>1. job' = [job EXCEPT ![p] = Reading({r}, "editing", {}, r, today)]
    BY <1>3 DEF StartEdit
  <2>2. JobsWell /\ SnapsRead
    BY <1>1, <1>2, <2>1, TurnToRows
  <2> QED
    BY <1>1, <1>2, <1>3, <2>2, OnlyJobsMove DEF StartEdit
<1>4. CASE GenerateRuleNow(p, r)
  <2>1. job' = [job EXCEPT ![p] = Reading({r}, "loaded", {}, r, 0)]
    BY <1>4 DEF GenerateRuleNow
  <2>2. JobsWell /\ SnapsRead
    BY <1>1, <2>1, TurnToRows
  <2> QED
    BY <1>1, <1>2, <1>4, <2>2, OnlyJobsMove DEF GenerateRuleNow
<1>5. CASE ListDue(p)
  <2>1. PICK B \in DueBatches : job' = [job EXCEPT ![p] = Reading(B, "next", B, NoRule, today)]
    BY <1>5 DEF ListDue
  <2>2. B \in SUBSET Rule
    BY DEF DueBatches, Due
  <2>3. JobsWell /\ SnapsRead
    BY <1>1, <1>2, <2>1, <2>2, TurnToRows
  <2> QED
    BY <1>1, <1>2, <1>5, <2>3, OnlyJobsMove DEF ListDue
<1> QED
  BY <1>3, <1>4, <1>5

(* The next rule of a list, with the row that was listed.                    *)
LEMMA TakeRuleKeeps == ASSUME IInv, NEW p \in Process, TakeRule(p) PROVE IInv'
<1>1. TypeOK /\ RuleInHand /\ requests \in 0..MaxRequests /\ faults \in 0..MaxFaults /\ today \in Day
  BY DEF IInv, TypeOK
<1>2. PICK r \in job[p].rest :
        job' = [job EXCEPT ![p].at = "loaded", ![p].cur = r, ![p].rest = @ \ {r}, ![p].count = 0]
  BY DEF TakeRule
<1> DEFINE j == [at |-> "loaded", rest |-> job[p].rest \ {r}, cur |-> r, snap |-> job[p].snap,
                 now |-> job[p].now, count |-> 0]
<1>3. job[p] \in Jobs
  BY <1>1 DEF TypeOK
<1>4. j \in Jobs /\ j.at = "loaded" /\ j.cur \in Rule /\ j.snap = job[p].snap
  BY <1>3 DEF Jobs
<1>5. job' = [job EXCEPT ![p] = j]
  BY <1>1, <1>2, <1>3 DEF TypeOK, Jobs
<1> HIDE DEF j
<1>6. JobsWell /\ ((\A q \in Rule : j.snap[q] \in {job[p].snap[q], Blank}) => SnapsKept)
  BY <1>1, <1>4, <1>5, OneJobChanges
<1> QED
  BY <1>1, <1>4, <1>6, KeptIsRead, OnlyJobsMove DEF TakeRule

(* Steps that end in the next thing to do, without touching the database.    *)
LEMMA LookersKeep ==
  ASSUME IInv, NEW p \in Process,
         Prepare(p) \/ PrepareFails(p) \/ SkipStale(p) \/ GenerateFails(p) \/ RefuseUpdate(p)
  PROVE  IInv'
<1>1. TypeOK /\ RuleInHand /\ requests \in 0..MaxRequests /\ faults \in 0..MaxFaults /\ today \in Day
  BY DEF IInv, TypeOK
<1>2. CASE Prepare(p)
  <2>1. job[p].cur \in Rule /\ ~PastEnd(job[p].snap[job[p].cur]) /\ job' = [job EXCEPT ![p].at = "prepared"]
    BY <1>1, <1>2 DEF Prepare, RuleInHand
  <2>2. JobsWell /\ SnapsKept
    BY <1>1, <2>1, TurnTo
  <2> QED
    BY <1>1, <1>2, <2>2, KeptIsRead, OnlyJobsMove DEF Prepare
<1>3. CASE PrepareFails(p)
  BY <1>1, <1>3, TurnToNext, KeptIsRead, OnlyJobsMove DEF PrepareFails
<1>4. CASE SkipStale(p)
  <2>1. job[p].cur \in Rule /\ Returned(p)
    BY <1>1, <1>4 DEF SkipStale, RuleInHand
  <2> QED
    BY <1>1, <1>4, <2>1, TurnBack, KeptIsRead, OnlyJobsMove DEF SkipStale
<1>5. CASE GenerateFails(p)
  BY <1>1, <1>5, TurnToNext, KeptIsRead, OnlyJobsMove DEF GenerateFails
<1>6. CASE RefuseUpdate(p)
  BY <1>1, <1>6, TurnIdle, KeptIsRead, OnlyJobsMove DEF RefuseUpdate
<1> QED
  BY <1>2, <1>3, <1>4, <1>5, <1>6

(* A pass reads the rule in hand again, or goes to the next.                 *)
LEMMA ReloadKeeps == ASSUME IInv, NEW p \in Process, Reload(p) PROVE IInv'
<1>1. TypeOK /\ RuleInHand /\ requests \in 0..MaxRequests /\ faults \in 0..MaxFaults /\ today \in Day
  BY DEF IInv, TypeOK
<1> DEFINE r == job[p].cur
<1>2. r \in Rule /\ job[p] \in Jobs /\ row[r] \in Rows
  BY <1>1 DEF Reload, RuleInHand, TypeOK
<1>3. CASE NextRule(p)
  BY <1>1, <1>3, TurnToNext, KeptIsRead, OnlyJobsMove DEF Reload
<1>4. CASE job' = [job EXCEPT ![p].at = "loaded", ![p].snap[r] = row[r], ![p].count = @ + 1]
  <2> DEFINE j == [at |-> "loaded", rest |-> job[p].rest, cur |-> r,
                   snap |-> [job[p].snap EXCEPT ![r] = row[r]],
                   now |-> job[p].now, count |-> job[p].count + 1]
  <2>1. [job[p].snap EXCEPT ![r] = row[r]] \in [Rule -> Rows]
    BY <1>2 DEF Jobs
  <2>2. \A q \in Rule : [job[p].snap EXCEPT ![r] = row[r]][q] \in {job[p].snap[q], row[q], Blank}
    BY <1>2 DEF Jobs
  <2>3. j \in Jobs /\ j.at = "loaded" /\ j.cur = r /\ j.snap = [job[p].snap EXCEPT ![r] = row[r]]
    BY <1>2, <2>1 DEF Jobs
  <2>4. job' = [job EXCEPT ![p] = j]
    BY <1>1, <1>2, <1>4 DEF TypeOK, Jobs
  <2> HIDE DEF j
  <2>5. JobsWell /\ ((\A q \in Rule : j.snap[q] \in {job[p].snap[q], row[q], Blank}) => SnapsRead)
    BY <1>1, <1>2, <2>3, <2>4, OneJobChanges
  <2> QED
    BY <1>1, <2>2, <2>3, <2>5, OnlyJobsMove DEF Reload
<1> QED
  BY <1>3, <1>4 DEF Reload

------------------------------------------------------------------------------
(* Steps that change rows.                                                 *)

(* Where versions only grow, what was read stays old.                        *)
LEMMA VersionsGrow ==
  ASSUME IInv, JobsWell, SnapsKept, row' \in [Rule -> Rows],
         \A r \in Rule : row'[r] = row[r] \/ row[r].version < row'[r].version
  PROVE  WrittenRowsHaveVersions' /\ SnapshotsAreOld'
<1>1. \A r \in Rule : row[r].version \in Nat /\ row'[r].version \in Nat
  BY DEF IInv, TypeOK, Rows
<1>2. Blank.version = 0
  BY DEF Blank
<1>3. WrittenRowsHaveVersions'
  <2> SUFFICES ASSUME NEW r \in Rule PROVE row'[r] = Blank <=> row'[r].version = 0
    BY DEF WrittenRowsHaveVersions
  <2> QED
    BY <1>1, <1>2 DEF IInv, WrittenRowsHaveVersions
<1>4. SnapshotsAreOld'
  <2> SUFFICES ASSUME NEW p \in Process, NEW r \in Rule
               PROVE  /\ job'[p].snap[r].version <= row'[r].version
                      /\ job'[p].snap[r].version = row'[r].version => job'[p].snap[r] = row'[r]
    BY DEF SnapshotsAreOld
  <2>1. job[p].snap[r] \in Rows /\ job[p].snap[r].version \in Nat
    BY DEF IInv, TypeOK, Jobs, Rows
  <2>2. CASE job'[p].snap[r] = job[p].snap[r]
    BY <1>1, <2>1, <2>2 DEF IInv, SnapshotsAreOld
  <2>3. CASE job'[p].snap[r] = Blank
    BY <1>1, <1>2, <1>3, <2>3 DEF WrittenRowsHaveVersions
  <2> QED
    BY <2>2, <2>3 DEF SnapsKept
<1> QED
  BY <1>3, <1>4

(* One row changes, to one that is newer, on an open account if it lives, and    *)
(* booked up to its date; at most its rule's ledger changes with it.             *)
LEMMA OneRowChanges ==
  ASSUME IInv, JobsWell, SnapsKept, NEW r \in Rule, NEW w \in Rows,
         row' = [row EXCEPT ![r] = w], row[r].version < w.version, w.start <= w.next,
         w.status \in {"active", "paused"} => w.acct \in open,
         NEW b \in SUBSET Nat, booked' = [booked EXCEPT ![r] = b],
         NEW g \in SUBSET Nat, generated' = [generated EXCEPT ![r] = g],
         NEW n \in Nat, from' = [from EXCEPT ![r] = n],
         \A d \in n..(w.next - 1) : d \in b \cap g,
         history' \subseteq open, UNCHANGED <<today, open, faults>>,
         requests' \in 0..MaxRequests
  PROVE  IInv'
<1>1. /\ row \in [Rule -> Rows] /\ open \subseteq Account /\ today \in Day /\ faults \in 0..MaxFaults
      /\ booked \in [Rule -> SUBSET Nat] /\ generated \in [Rule -> SUBSET Nat] /\ from \in [Rule -> Nat]
  BY DEF IInv, TypeOK
<1>2. /\ row' \in [Rule -> Rows]
      /\ \A q \in Rule : row'[q] = IF q = r THEN w ELSE row[q]
  BY <1>1
<1>3. booked' \in [Rule -> SUBSET Nat] /\ \A q \in Rule : booked'[q] = IF q = r THEN b ELSE booked[q]
  BY <1>1
<1>9. /\ generated' \in [Rule -> SUBSET Nat]
      /\ \A q \in Rule : generated'[q] = IF q = r THEN g ELSE generated[q]
  BY <1>1
<1>10. from' \in [Rule -> Nat] /\ \A q \in Rule : from'[q] = IF q = r THEN n ELSE from[q]
  BY <1>1
<1>4. TypeOK'
  BY <1>1, <1>2, <1>3, <1>9, <1>10 DEF TypeOK, JobsWell
<1>5. WrittenRowsHaveVersions' /\ SnapshotsAreOld'
  <2>1. \A q \in Rule : row'[q] = row[q] \/ row[q].version < row'[q].version
    BY <1>2
  <2> QED
    BY <1>2, <2>1, VersionsGrow
<1>6. RuleInHand' /\ HistoryStaysOpen'
  BY DEF JobsWell, HistoryStaysOpen
<1>7. NeverBeforeStart' /\ LiveRulesHaveOpenAccounts'
  BY <1>2 DEF IInv, NeverBeforeStart, LiveRulesHaveOpenAccounts
<1>8. NoGaps'
  <2> SUFFICES ASSUME NEW q \in Rule, NEW d \in from'[q]..(row'[q].next - 1)
               PROVE  d \in booked'[q] \cap generated'[q]
    BY DEF NoGaps
  <2> QED
    BY <1>2, <1>3, <1>9, <1>10 DEF IInv, NoGaps
<1> QED
  BY <1>4, <1>5, <1>6, <1>7, <1>8 DEF IInv

(* The dates an owner can set a rule to.                                     *)
LEMMA FromNowIsAfter ==
  ASSUME NEW b \in Nat, NEW now \in Nat, NEW n \in FromNow(b, now) PROVE n \in Nat /\ b <= n
  BY NextIsAfter DEF FromNow

(* A new rule.                                                               *)
LEMMA CreateRuleKeeps ==
  ASSUME IInv, NEW r \in Rule, NEW new \in NewRows, CreateRule(r, new) PROVE IInv'
<1>1. TypeOK /\ RuleInHand /\ requests \in 0..MaxRequests /\ today \in Nat
  BY DEF IInv, TypeOK, Day
<1>2. new.start \in Nat /\ new.end \in Nat /\ new.next \in Nat /\ new.start <= new.next
  <2>1. new.start \in Nat /\ new.end \in Nat
    BY DEF NewRows
  <2> QED
    BY <1>1, <2>1, FromNowIsAfter DEF CreateRule
<1>3. new \in Rows
  BY <1>2 DEF NewRows, Rows, Statuses
<1>4. row[r].version = 0 /\ new.version = 1 /\ new.acct \in open
  BY DEF CreateRule, Blank
<1>5. /\ row' = [row EXCEPT ![r] = new] /\ from' = [from EXCEPT ![r] = new.next]
      /\ UNCHANGED <<today, open, generated, booked, history, job, requests, faults>>
  BY DEF CreateRule, ledger
<1>6. JobsWell /\ SnapsKept
  BY <1>1, <1>5, NoJobChanges
<1>7. /\ booked[r] \in SUBSET Nat /\ booked' = [booked EXCEPT ![r] = booked[r]]
      /\ generated[r] \in SUBSET Nat /\ generated' = [generated EXCEPT ![r] = generated[r]]
  BY <1>1, <1>5 DEF TypeOK
<1>8. \A d \in new.next..(new.next - 1) : d \in booked[r] \cap generated[r]
  BY <1>2
<1>9. history' \subseteq open /\ UNCHANGED <<today, open, faults>> /\ requests' \in 0..MaxRequests
  BY <1>1, <1>5 DEF IInv, HistoryStaysOpen
<1>10. row[r].version < new.version /\ row' = [row EXCEPT ![r] = new] /\ from' = [from EXCEPT ![r] = new.next]
  BY <1>4, <1>5
<1> QED
  BY <1>2, <1>3, <1>4, <1>6, <1>7, <1>8, <1>9, <1>10, OneRowChanges

(* An edit, on the row it read.                                              *)
LEMMA UpdateRuleKeeps == ASSUME IInv, NEW p \in Process, UpdateRule(p) PROVE IInv'
<1> DEFINE r == job[p].cur
           s == job[p].snap[r]
<1>1. TypeOK /\ RuleInHand /\ requests \in 0..MaxRequests /\ today \in Nat
  BY DEF IInv, TypeOK, Day
<1>2. r \in Rule /\ job[p] \in Jobs /\ job[p].now \in Nat /\ row[r] \in Rows
  BY <1>1 DEF UpdateRule, RuleInHand, TypeOK, Jobs
<1>3. PICK new \in Updated(s, job[p].now) \cup WithStatus(s, job[p].now) :
        /\ row[r].version = s.version /\ new.acct \in open
        /\ row' = [row EXCEPT ![r] = new]
        /\ from' = IF row[r].next = new.next THEN from ELSE [from EXCEPT ![r] = new.next]
  BY DEF UpdateRule, MayUpdate
<1>4. s = row[r] /\ s \in Rows /\ s.start <= s.next
  BY <1>2, <1>3 DEF IInv, SnapshotsAreOld, NeverBeforeStart
<1> HIDE DEF s, r
<1>5. new \in Rows /\ new.version = s.version + 1 /\ new.start <= new.next
  <2>1. /\ s.start \in Nat /\ s.end \in Nat /\ s.next \in Nat /\ s.version \in Nat
        /\ s.acct \in Account \cup {NoAccount}
    BY <1>4 DEF Rows
  <2>2. CASE new \in Updated(s, job[p].now)
    <3>1. /\ new.start \in Nat /\ new.end \in Nat /\ new.version = s.version + 1
          /\ new.status \in Statuses /\ new.acct \in Account
      BY <2>1, <2>2 DEF Updated
    <3>2. new.next \in Nat /\ new.start <= new.next
      <4>1. CASE new.next \in FromNow(new.start, job[p].now)
        BY <1>2, <3>1, <4>1, FromNowIsAfter
      <4>2. CASE new.start = s.start /\ new.next = s.next
        BY <1>4, <2>1, <4>2
      <4> QED
        BY <2>2, <4>1, <4>2 DEF Updated
    <3> QED
      BY <2>1, <2>2, <3>1, <3>2 DEF Updated, Rows
  <2>3. CASE new \in WithStatus(s, job[p].now)
    <3>1. \A n \in FromNow(s.start, job[p].now) : n \in Nat /\ s.start <= n
      BY <1>2, <2>1, FromNowIsAfter
    <3>2. PICK st \in Statuses, n \in Nat : new = Changed(s, st, n) /\ s.start <= n
      BY <1>4, <2>1, <2>3, <3>1 DEF WithStatus, Statuses
    <3>3. /\ Changed(s, st, n) \in Rows /\ Changed(s, st, n).version = s.version + 1
          /\ Changed(s, st, n).next = n /\ Changed(s, st, n).start = s.start
      BY <1>4, ChangedIsNewer
    <3> QED
      BY <3>2, <3>3
  <2> QED
    BY <2>2, <2>3
<1>6. JobsWell /\ SnapsKept
  BY <1>1, TurnIdle DEF UpdateRule
<1>7. /\ booked[r] \in SUBSET Nat /\ booked' = [booked EXCEPT ![r] = booked[r]]
      /\ generated[r] \in SUBSET Nat /\ generated' = [generated EXCEPT ![r] = generated[r]]
  BY <1>1, <1>2 DEF TypeOK, UpdateRule, ledger
<1> DEFINE n == IF row[r].next = new.next THEN from[r] ELSE new.next
<1>8. n \in Nat /\ from' = [from EXCEPT ![r] = n]
  BY <1>1, <1>2, <1>3, <1>5 DEF TypeOK, Rows
<1>9. \A d \in n..(new.next - 1) : d \in booked[r] \cap generated[r]
  BY <1>2, <1>5 DEF IInv, NoGaps, Rows
<1>10. history' \subseteq open /\ UNCHANGED <<today, open, faults, requests>>
  BY DEF IInv, HistoryStaysOpen, UpdateRule, ledger
<1>11. row[r].version < new.version
  BY <1>4, <1>5 DEF Rows
<1> HIDE DEF n
<1> QED
  BY <1>1, <1>2, <1>3, <1>5, <1>6, <1>7, <1>8, <1>9, <1>10, <1>11, OneRowChanges

(* Ending a rule, or moving it on, with the ledger that goes with it.        *)
LEMMA EndedFits ==
  ASSUME IInv, NEW r \in Rule
  PROVE  /\ row[r] \in Rows /\ Ended(r) \in Rows /\ row[r].version < Ended(r).version
         /\ Ended(r).status = "ended" /\ Ended(r).start <= Ended(r).next
         /\ Ended(r).next = row[r].next /\ Ended(r).start = row[r].start
<1>1. row[r] \in Rows /\ row[r].next \in Nat /\ row[r].start <= row[r].next /\ "ended" \in Statuses
  BY DEF IInv, TypeOK, Rows, NeverBeforeStart, Statuses
<1>2. /\ Ended(r) \in Rows /\ row[r].version < Ended(r).version /\ Ended(r).status = "ended"
      /\ Ended(r).next = row[r].next /\ Ended(r).start = row[r].start
  BY <1>1, ChangedIsNewer DEF Ended
<1> QED
  BY <1>1, <1>2

(* One rule ends, whoever ends it.                                           *)
LEMMA EndingKeeps ==
  ASSUME IInv, JobsWell, SnapsKept, NEW r \in Rule, row' = [row EXCEPT ![r] = Ended(r)],
         requests' \in 0..MaxRequests, UNCHANGED <<today, open, ledger, faults, from>>
  PROVE  IInv'
<1>1. /\ Ended(r) \in Rows /\ row[r].version < Ended(r).version /\ Ended(r).status = "ended"
      /\ Ended(r).start <= Ended(r).next /\ Ended(r).next = row[r].next
  BY EndedFits
<1>2. /\ booked[r] \in SUBSET Nat /\ booked' = [booked EXCEPT ![r] = booked[r]]
      /\ generated[r] \in SUBSET Nat /\ generated' = [generated EXCEPT ![r] = generated[r]]
      /\ from[r] \in Nat /\ from' = [from EXCEPT ![r] = from[r]]
  BY DEF IInv, TypeOK, ledger
<1>3. \A d \in from[r]..(Ended(r).next - 1) : d \in booked[r] \cap generated[r]
  BY <1>1 DEF IInv, NoGaps
<1>4. history' \subseteq open /\ UNCHANGED <<today, open, faults>>
  BY DEF IInv, HistoryStaysOpen, ledger
<1>5. Ended(r).status \in {"active", "paused"} => Ended(r).acct \in open
  BY <1>1
<1> QED
  BY <1>1, <1>2, <1>3, <1>4, <1>5, OneRowChanges

(* DeleteRule, and a pass that finds a rule past its end.                    *)
LEMMA EndersKeep ==
  ASSUME IInv, (\E r \in Rule : DeleteRule(r)) \/ (\E p \in Process : EndRule(p)) PROVE IInv'
<1>1. TypeOK /\ RuleInHand /\ requests \in 0..MaxRequests
  BY DEF IInv, TypeOK
<1>2. ASSUME NEW r \in Rule, DeleteRule(r) PROVE IInv'
  <2>1. JobsWell /\ SnapsKept
    BY <1>1, <1>2, NoJobChanges DEF DeleteRule
  <2>2. requests' \in 0..MaxRequests
    BY <1>1, <1>2 DEF DeleteRule
  <2> QED
    BY <1>2, <2>1, <2>2, EndingKeeps DEF DeleteRule
<1>3. ASSUME NEW p \in Process, EndRule(p) PROVE IInv'
  <2>1. job[p].cur \in Rule /\ Returned(p) /\ row' = [row EXCEPT ![job[p].cur] = Ended(job[p].cur)]
    BY <1>1, <1>3 DEF EndRule, RuleInHand
  <2>2. JobsWell /\ SnapsKept
    BY <1>1, <2>1, TurnBack
  <2> QED
    BY <1>1, <1>3, <2>1, <2>2, EndingKeeps DEF EndRule
<1> QED
  BY <1>2, <1>3

(* An account is closed, with all its rules.                                 *)
LEMMA CloseAccountKeeps == ASSUME IInv, NEW a \in Account, CloseAccount(a) PROVE IInv'
<1>1. TypeOK /\ RuleInHand
  BY DEF IInv, TypeOK
<1>2. JobsWell /\ SnapsKept
  BY <1>1, NoJobChanges DEF CloseAccount
<1>3. /\ row' = [r \in Rule |-> IF row[r].acct = a THEN Ended(r) ELSE row[r]]
      /\ open' = open \ {a} /\ a \notin history
      /\ UNCHANGED <<today, generated, booked, history, requests, faults, from>>
  BY DEF CloseAccount, MayClose, ledger
<1>4. ASSUME NEW r \in Rule
      PROVE  /\ row'[r] \in Rows /\ row'[r].next = row[r].next /\ row'[r].start <= row'[r].next
             /\ row'[r] = row[r] \/ row[r].version < row'[r].version
             /\ row'[r].status = "ended" \/ (row'[r] = row[r] /\ row[r].acct # a)
  <2>1. row[r].start <= row[r].next /\ row[r] \in Rows
    BY DEF IInv, TypeOK, NeverBeforeStart
  <2>2. CASE row[r].acct = a
    <3>1. row'[r] = Ended(r)
      BY <1>3, <2>2
    <3> QED
      BY <3>1, EndedFits
  <2>3. CASE row[r].acct # a
    <3>1. row'[r] = row[r]
      BY <1>3, <2>3
    <3> QED
      BY <2>1, <2>3, <3>1
  <2> QED
    BY <2>2, <2>3
<1>5. row' \in [Rule -> Rows]
  <2>1. \A r \in Rule : row'[r] \in Rows
    BY <1>4
  <2> QED
    BY <1>3, <2>1
<1>6. TypeOK'
  BY <1>1, <1>2, <1>3, <1>5 DEF TypeOK, JobsWell
<1>7. WrittenRowsHaveVersions' /\ SnapshotsAreOld'
  BY <1>2, <1>4, <1>5, VersionsGrow
<1>8. NeverBeforeStart' /\ LiveRulesHaveOpenAccounts'
  BY <1>3, <1>4 DEF IInv, NeverBeforeStart, LiveRulesHaveOpenAccounts
<1>9. HistoryStaysOpen' /\ NoGaps'
  BY <1>3, <1>4 DEF IInv, HistoryStaysOpen, NoGaps
<1> QED
  BY <1>2, <1>6, <1>7, <1>8, <1>9 DEF IInv, JobsWell

(* The occurrence a transaction books is the row's, as it was read.          *)
LEMMA GeneratesCurrent ==
  ASSUME IInv, NEW p \in Process, Generate(p)
  PROVE  LET r == job[p].cur IN
         /\ r \in Rule /\ job[p].snap[r] = row[r] /\ row[r] \in Rows
         /\ row[r].status = "active" /\ row[r].next <= row[r].end /\ row[r].acct \in open
         /\ booked' = [booked EXCEPT ![r] = booked[r] \cup {row[r].next}]
         /\ generated' = [generated EXCEPT ![r] = generated[r] \cup {row[r].next}]
         /\ history' \subseteq open
         /\ row' = [row EXCEPT ![r] = Advanced(r, row[r])]
<1> DEFINE r == job[p].cur
           s == job[p].snap[r]
<1>1. r \in Rule /\ ~PastEnd(s)
  BY DEF Generate, IInv, RuleInHand
<1>2. row[r] \in Rows
  BY <1>1 DEF IInv, TypeOK
<1>3. s = row[r] /\ row[r].status = "active"
  BY <1>1 DEF Generate, Current, IInv, SnapshotsAreOld
<1>4. row[r].acct \in open
  BY <1>1, <1>3 DEF IInv, LiveRulesHaveOpenAccounts
<1>5. row[r].next <= row[r].end
  BY <1>1, <1>2, <1>3 DEF PastEnd, Rows
<1>6. /\ booked' = [booked EXCEPT ![r] = booked[r] \cup {s.next}]
      /\ generated' = [generated EXCEPT ![r] = generated[r] \cup {s.next}]
      /\ row' = [row EXCEPT ![r] = Advanced(r, s)]
      /\ history' = IF s.next \in booked[r] THEN history ELSE history \cup {s.acct}
  BY DEF Generate
<1>7. history' \subseteq open
  BY <1>3, <1>4, <1>6 DEF IInv, HistoryStaysOpen
<1> QED
  BY <1>1, <1>2, <1>3, <1>4, <1>5, <1>6, <1>7

(* Generation: the rule moves on by one date, which is booked.               *)
LEMMA GenerateKeeps == ASSUME IInv, NEW p \in Process, Generate(p) PROVE IInv'
<1> DEFINE r == job[p].cur
           w == Advanced(r, row[r])
           b == booked[r] \cup {row[r].next}
           g == generated[r] \cup {row[r].next}
<1>1. TypeOK /\ RuleInHand /\ requests \in 0..MaxRequests
  BY DEF IInv, TypeOK
<1>2. /\ r \in Rule /\ row[r] \in Rows /\ row[r].acct \in open /\ history' \subseteq open
      /\ booked' = [booked EXCEPT ![r] = b] /\ generated' = [generated EXCEPT ![r] = g]
      /\ row' = [row EXCEPT ![r] = w]
  BY GeneratesCurrent
<1>3. /\ row[r].start \in Nat /\ row[r].next \in Nat /\ row[r].end \in Nat
      /\ row[r].start <= row[r].next
  BY <1>2 DEF IInv, NeverBeforeStart, Rows
<1>4. After(row[r]) = row[r].next + 1
  BY <1>3 DEF After, NextOccurrence
<1>5. /\ w \in Rows /\ row[r].version < w.version /\ w.next = row[r].next + 1
      /\ w.start = row[r].start /\ w.acct = row[r].acct
  <2>1. PICK st \in Statuses : w = Changed(row[r], st, row[r].next + 1)
    BY <1>4 DEF Advanced, Statuses
  <2>2. row[r].next + 1 \in Nat
    BY <1>3
  <2>3. /\ Changed(row[r], st, row[r].next + 1) \in Rows
        /\ row[r].version < Changed(row[r], st, row[r].next + 1).version
        /\ Changed(row[r], st, row[r].next + 1).next = row[r].next + 1
        /\ Changed(row[r], st, row[r].next + 1).start = row[r].start
        /\ Changed(row[r], st, row[r].next + 1).acct = row[r].acct
    BY <1>2, <2>2, ChangedIsNewer
  <2> QED
    BY <2>1, <2>3
<1>6. w.start <= w.next /\ w.acct \in open
  BY <1>2, <1>3, <1>5
<1>7. JobsWell /\ SnapsKept
  <2>1. Returned(p)
    BY DEF Generate
  <2> QED
    BY <1>1, <1>2, <2>1, TurnBack
<1>8. /\ booked[r] \in SUBSET Nat /\ generated[r] \in SUBSET Nat
      /\ from[r] \in Nat /\ from' = [from EXCEPT ![r] = from[r]]
  <2>1. from' = from
    BY DEF Generate
  <2>2. /\ booked \in [Rule -> SUBSET Nat] /\ generated \in [Rule -> SUBSET Nat]
        /\ from \in [Rule -> Nat]
    BY <1>1 DEF TypeOK
  <2> QED
    BY <1>2, <2>1, <2>2
<1>9. b \in SUBSET Nat /\ g \in SUBSET Nat
  BY <1>3, <1>8
<1>10. \A d \in from[r]..(w.next - 1) : d \in b \cap g
  <2>0. w.next - 1 = row[r].next
    BY <1>3, <1>5
  <2>1. ASSUME NEW d \in from[r]..row[r].next PROVE d \in b \cap g
    <3>1. CASE d = row[r].next
      BY <3>1
    <3>2. CASE d # row[r].next
      <4>1. d \in from[r]..(row[r].next - 1)
        BY <1>3, <1>8, <3>2
      <4>2. d \in booked[r] \cap generated[r]
        BY <1>2, <4>1 DEF IInv, NoGaps
      <4> QED
        BY <4>2
    <3> QED
      BY <3>1, <3>2
  <2> QED
    BY <2>0, <2>1
<1>11. UNCHANGED <<today, open, faults>> /\ requests' \in 0..MaxRequests
  BY <1>1 DEF Generate
<1> HIDE DEF r, w, b, g
<1> QED
  BY <1>2, <1>5, <1>6, <1>7, <1>8, <1>9, <1>10, <1>11, OneRowChanges

------------------------------------------------------------------------------
(* The invariant.                                                          *)

(* Stopping and starting, and the passing of time.                           *)
LEMMA OthersKeep == ASSUME IInv, Restart \/ Tick \/ UNCHANGED vars PROVE IInv'
<1>1. TypeOK /\ RuleInHand /\ requests \in 0..MaxRequests /\ faults \in 0..MaxFaults /\ today \in Day
  BY DEF IInv, TypeOK
<1>2. CASE Restart
  <2>1. Idle \in Jobs /\ Idle.at = "idle" /\ \A r \in Rule : Idle.snap[r] = Blank
    BY BlankTypes DEF Idle
  <2>2. job' = [p \in Process |-> Idle]
    BY <1>2 DEF Restart
  <2>3. JobsWell /\ SnapsRead
    BY <2>1, <2>2 DEF JobsWell, SnapsRead, RuleInHand
  <2>4. faults' \in 0..MaxFaults
    BY <1>1, <1>2 DEF Restart
  <2> QED
    BY <1>1, <1>2, <2>3, <2>4, OnlyJobsMove DEF Restart
<1>3. CASE Tick
  <2>1. JobsWell /\ SnapsRead
    BY <1>1, <1>3, NoJobChanges, KeptIsRead DEF Tick
  <2>2. today' \in Day
    BY <1>1, <1>3 DEF Tick, Day
  <2> QED
    BY <1>1, <1>3, <2>1, <2>2, OnlyJobsMove DEF Tick
<1>4. CASE UNCHANGED vars
  <2>1. JobsWell /\ SnapsRead
    BY <1>1, <1>4, NoJobChanges, KeptIsRead DEF vars
  <2> QED
    BY <1>1, <1>4, <2>1, OnlyJobsMove DEF vars
<1> QED
  BY <1>2, <1>3, <1>4

(* Every step keeps the invariant.                                           *)
LEMMA StepKeeps == IInv /\ [Next]_vars => IInv'
<1> SUFFICES ASSUME IInv, [Next]_vars PROVE IInv'
  OBVIOUS
<1> USE DEF Process
<1>1. CASE Owner
  BY <1>1, CreateRuleKeeps, ReadersKeep, UpdateRuleKeeps, LookersKeep, EndersKeep, CloseAccountKeeps
     DEF Owner
<1>2. ASSUME NEW p \in Process, GenerateOne(p) PROVE IInv'
  BY <1>2, EndersKeep, LookersKeep, GenerateKeeps DEF GenerateOne
<1>3. CASE Pass
  <2>1. CASE ListDue(Scheduler)
    <3>1. PICK r \in Rule : TRUE
      BY <2>1 DEF ListDue, DueBatches, Due
    <3> QED
      BY <2>1, ReadersKeep
  <2> QED
    BY <1>2, <1>3, <2>1, TakeRuleKeeps, ReloadKeeps DEF Pass
<1>4. CASE Generation
  BY <1>2, <1>3, <1>4, ReadersKeep, LookersKeep DEF Generation
<1> QED
  BY <1>1, <1>4, OthersKeep DEF Next

(* The inductive invariant of RecurringGeneration.                           *)
THEOREM Invariant == Spec => []IInv
<1>1. Init => IInv
  BY InitEstablishes
<1>2. IInv /\ [Next]_vars => IInv'
  BY StepKeeps
<1> QED
  BY <1>1, <1>2, PTL DEF Spec

(* The variables keep their types.                                           *)
THEOREM TypeCorrect == Spec => []TypeOK
<1>1. IInv => TypeOK
  BY DEF IInv
<1> QED
  BY <1>1, Invariant, PTL

(* A rule that is not ended has an open account, whatever races.             *)
THEOREM LiveRulesAlwaysHaveAccounts == Spec => []LiveRulesHaveOpenAccounts
<1>1. IInv => LiveRulesHaveOpenAccounts
  BY DEF IInv
<1> QED
  BY <1>1, Invariant, PTL

(* An account with transactions stays open.                                  *)
THEOREM HistoryAlwaysOpen == Spec => []HistoryStaysOpen
<1>1. IInv => HistoryStaysOpen
  BY DEF IInv
<1> QED
  BY <1>1, Invariant, PTL

(* No occurrence between where a rule was set to and where it is, is missing. *)
THEOREM NoGapsEver == Spec => []NoGaps
<1>1. IInv => NoGaps
  BY DEF IInv
<1> QED
  BY <1>1, Invariant, PTL

(* Rows change, and occurrences are booked, on the row as it is.             *)
LEMMA StepsAreCurrent ==
  ASSUME IInv, [Next]_vars, NEW r \in Rule
  PROVE  /\ row'[r] # row[r] \/ booked'[r] # booked[r] =>
              \/ row[r] = Blank
              \/ row'[r] = Ended(r) /\ booked'[r] = booked[r]
              \/ \E p \in Process : job[p].cur = r /\ job[p].snap[r] = row[r]
         /\ booked'[r] # booked[r] =>
              /\ booked'[r] = booked[r] \cup {row[r].next}
              /\ row[r].status = "active" /\ row[r].next <= row[r].end
              /\ row[r].acct \in open
<1> USE DEF Process
<1>1. row \in [Rule -> Rows] /\ booked \in [Rule -> SUBSET Nat]
  BY DEF IInv, TypeOK
<1>2. ASSUME NEW q \in Rule, NEW new \in NewRows, CreateRule(q, new)
      PROVE  booked' = booked /\ (row'[r] = row[r] \/ row[r] = Blank)
  BY <1>1, <1>2 DEF CreateRule, ledger
<1>3. ASSUME NEW p \in Process, UpdateRule(p)
      PROVE  booked' = booked /\ (row'[r] = row[r] \/ (job[p].cur = r /\ job[p].snap[r] = row[r]))
  <2>1. booked' = booked
    BY <1>3 DEF UpdateRule, ledger
  <2>2. row'[r] = row[r] \/ (job[p].cur = r /\ row[r].version = job[p].snap[r].version)
    BY <1>1, <1>3 DEF UpdateRule, MayUpdate
  <2> QED
    BY <2>1, <2>2 DEF IInv, SnapshotsAreOld
<1>4. ASSUME (\E q \in Rule : DeleteRule(q)) \/ (\E a \in Account : CloseAccount(a))
              \/ (\E p \in Process : EndRule(p))
      PROVE  booked' = booked /\ row'[r] \in {row[r], Ended(r)}
  BY <1>1, <1>4 DEF DeleteRule, CloseAccount, EndRule, ledger
<1>5. ASSUME NEW p \in Process, Generate(p)
      PROVE  \/ booked'[r] = booked[r] /\ row'[r] = row[r]
             \/ /\ booked'[r] = booked[r] \cup {row[r].next} /\ row[r].status = "active"
                /\ row[r].next <= row[r].end /\ row[r].acct \in open
                /\ job[p].cur = r /\ job[p].snap[r] = row[r]
  BY <1>1, <1>5, GeneratesCurrent
<1>6. ASSUME NEW p \in Process,
             \/ \E q \in Rule : StartEdit(p, q) \/ GenerateRuleNow(p, q)
             \/ RefuseUpdate(p) \/ ListDue(p) \/ TakeRule(p) \/ Reload(p)
             \/ Prepare(p) \/ PrepareFails(p) \/ SkipStale(p) \/ GenerateFails(p)
      PROVE  booked' = booked /\ row' = row
  BY <1>6 DEF StartEdit, GenerateRuleNow, RefuseUpdate, ListDue, TakeRule, Reload, Prepare,
              PrepareFails, SkipStale, GenerateFails, ledger
<1>7. CASE Restart \/ Tick \/ UNCHANGED vars
  BY <1>7 DEF Restart, Tick, vars, ledger
<1>8. CASE Owner
  BY <1>2, <1>3, <1>4, <1>6, <1>8 DEF Owner
<1>9. CASE Generation
  BY <1>4, <1>5, <1>6, <1>9 DEF Generation, Pass, GenerateOne
<1> QED
  BY <1>7, <1>8, <1>9 DEF Next

(* A row is changed, and an occurrence booked, only by someone who read the  *)
(* row as it is now: the conditions on version in UpdateRule, AdvanceRule,   *)
(* ClaimInstance and ReclaimInstance.                                        *)
THEOREM NobodyIsStale == Spec => NobodyActsOnAStaleRow
<1>1. IInv /\ [Next]_vars =>
        [\A r \in Rule :
           /\ row'[r] # row[r] \/ booked'[r] # booked[r] =>
                \/ row[r] = Blank
                \/ row'[r] = Ended(r) /\ booked'[r] = booked[r]
                \/ \E p \in Process : job[p].cur = r /\ job[p].snap[r] = row[r]
           /\ booked'[r] # booked[r] =>
                /\ booked'[r] = booked[r] \cup {row[r].next}
                /\ row[r].status = "active" /\ row[r].next <= row[r].end
                /\ row[r].acct \in open]_vars
  BY StepsAreCurrent
<1> QED
  BY <1>1, Invariant, PTL DEF Spec, NobodyActsOnAStaleRow
=============================================================================
