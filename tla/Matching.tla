------------------------------ MODULE Matching ------------------------------
(***************************************************************************)
(* Which pending expenses add up to the amount that was paid back: a       *)
(* depth-first search over combinations of at most a few expenses, pruned, *)
(* with a budget of nodes, keeping the best answers found so far.  Large   *)
(* requests look at recent expenses first and at all of them only if that  *)
(* finds nothing.                                                          *)
(*                                                                         *)
(* Amounts are cents, ages are whole days.  The order of two answers       *)
(* compares their scores, sums of quotients, as integers after             *)
(* multiplication.                                                         *)
(***************************************************************************)
EXTENDS Integers, Sequences, FiniteSets, SequencesExt

CONSTANTS
  Amounts, Ages,   \* of the expenses
  MaxExpenses,     \* bound: expenses that are stored
  MaxCandidates,   \* maxMatchingCandidates
  Targets, Tolerances, Depths, Limits,   \* what is asked for
  Budgets,         \* maxMatchingSearchNodes
  PruneAbove,      \* dpThreshold
  Recent,          \* timePruneDays
  CheckInterval    \* contextCheckInterval

ASSUME PositiveAmounts == Amounts \subseteq Nat \ {0} /\ Ages \subseteq 0 .. 365
ASSUME PositiveRequests == Targets \cup Depths \cup Limits \cup Budgets \subseteq Nat \ {0}
ASSUME NumbersAreNat ==
  /\ Tolerances \subseteq Nat /\ MaxExpenses \in Nat /\ MaxCandidates \in Nat /\ PruneAbove \in Nat
  /\ CheckInterval \in Nat \ {0}

VARIABLES
  ask,         \* target, tolerance, maxDepth and limit
  candidates,  \* what prepareMatchingCandidates returns
  items,       \* the expenses this pass searches
  timePruned,  \* they are the recent ones
  picked,      \* matchSearch.picked: places in items, each after the one before it
  next,        \* where the loop of the innermost call is
  budget,      \* remainingNodes
  results,
  at           \* "enter" a call, in its "loop", pass "over", "done", "cancelled"

input == <<ask, candidates>>
matchVars == <<input, items, timePruned, picked, next, budget, results, at>>

Upper == ask.target + ask.tolerance
Lower == ask.target - ask.tolerance

\* ORDER BY base_amount_cents DESC, transaction_time ASC
Ordered(s) ==
  \A i, j \in DOMAIN s : i < j => \/ s[i].amount > s[j].amount
                                  \/ s[i].amount = s[j].amount /\ s[i].age >= s[j].age
Lists == {s \in BoundedSeq([amount : Amounts, age : Ages], MaxExpenses) : Ordered(s)}
Numbered(s) == [i \in DOMAIN s |-> [id |-> i, amount |-> s[i].amount, age |-> s[i].age]]

\* The members of K, sorted: R is the pairs of one and a later one.
InOrder(K, R) ==
  [n \in 1 .. Cardinality(K) |->
     CHOOSE i \in K : Cardinality({j \in K : <<j, i>> \in R}) = n - 1]
\* The members of s at the places K, in their order.
Taken(s, K) ==
  LET place == InOrder(K, {p \in K \X K : p[1] < p[2]})
  IN [n \in 1 .. Cardinality(K) |-> s[place[n]]]

\* prepareMatchingCandidates
Prepared(s, upper) ==
  LET fit == {i \in DOMAIN s : s[i].amount <= upper}
  IN Numbered(Taken(s, {i \in fit : Cardinality(fit \cap 1 .. i) <= MaxCandidates}))
RecentOf(s) == Taken(s, {i \in DOMAIN s : s[i].age < Recent})

\* What Match asks for, once depth and limit have their defaults and ceilings.
Requests == [target : Targets, tolerance : Tolerances, maxDepth : Depths, limit : Limits]
\* validateMatchingAmounts
Valid(r) == r.tolerance <= r.target

MatchInit ==
  /\ ask \in Requests /\ Valid(ask)
  /\ candidates \in {Prepared(s, Upper) : s \in Lists} \ {<<>>}
  /\ timePruned = (ask.target > PruneAbove \div Len(candidates) /\ RecentOf(candidates) # <<>>)
  /\ items = IF timePruned THEN RecentOf(candidates) ELSE candidates
  /\ budget \in Budgets
  /\ picked = {} /\ next = 1 /\ results = <<>> /\ at = "enter"

------------------------------------------------------------------------------
(* Answers.                                                                *)

SumOf(S, s) == SumFunctionOnSet([i \in DOMAIN s |-> s[i].amount], S)
AgeOf(S, s) == SumFunctionOnSet([i \in DOMAIN s |-> s[i].age], S)
Distance(x) == IF x < ask.target THEN ask.target - x ELSE x - ask.target
Answer(S, s) ==
  [ids |-> {s[i].id : i \in S}, absErr |-> Distance(SumOf(S, s)), age |-> AgeOf(S, s)]

Count(r) == Cardinality(r.ids)
\* 0.6/count + 0.4 * age/365/count, times 1825 * Count(left) * Count(right)
Score(left, right) == (1095 + 2 * left.age) * Count(right)

\* betterMatch
Better(left, right) ==
  \/ left.absErr < right.absErr
  \/ left.absErr = right.absErr /\ Score(left, right) > Score(right, left)
  \/ /\ left.absErr = right.absErr /\ Score(left, right) = Score(right, left)
     /\ Count(left) < Count(right)

\* Mutant: the last one found goes.
LastOne(s) == Len(s)
\* The first of the worst.
Worst(s) ==
  CHOOSE i \in DOMAIN s : /\ \A j \in DOMAIN s : ~Better(s[i], s[j])
                          /\ \A j \in 1 .. i - 1 : Better(s[j], s[i])

\* consider
Consider(r) ==
  IF Len(results) < ask.limit THEN Append(results, r)
  ELSE IF Better(r, results[Worst(results)]) THEN [results EXCEPT ![Worst(results)] = r]
  ELSE results

------------------------------------------------------------------------------
(* dfs.                                                                    *)

PickedSum == SumOf(picked, items)
\* The place that was picked last, and where the loop of this call starts.
Latest == Max(picked \cup {0})
Index == Latest + 1

\* Mutant: the expense at the index is not counted.
SuffixAfter(i) == LET s == SumOf(i + 1 .. Len(items), items) IN IF s < Upper THEN s ELSE Upper
\* What the expenses from i on add up to, no more than upper.
Suffix(i) == LET s == SumOf(i .. Len(items), items) IN IF s < Upper THEN s ELSE Upper

\* Back in the loop of the caller, or out of all of them.
Leave(left) ==
  IF picked = {} \/ left = 0
  THEN at' = "over" /\ UNCHANGED <<picked, next>>
  ELSE at' = "loop" /\ picked' = picked \ {Latest} /\ next' = Latest + 1

\* A call of dfs, up to its loop.
Enter ==
  LET hopeless == PickedSum > Upper \/ PickedSum + Suffix(Index) < Lower
      leaf == hopeless \/ Index > Len(items) \/ Cardinality(picked) = ask.maxDepth
  IN /\ at = "enter" /\ budget > 0
     /\ budget' = budget - 1
     /\ results' = IF ~hopeless /\ picked # {} /\ Distance(PickedSum) <= ask.tolerance
                   THEN Consider(Answer(picked, items)) ELSE results
     /\ \/ leaf /\ Leave(budget')
        \/ ~leaf /\ at' = "loop" /\ next' = Index /\ UNCHANGED picked
     /\ UNCHANGED <<input, items, timePruned>>

\* A call without a node left returns, and with it all its callers.
OutOfNodes ==
  /\ at = "enter" /\ budget = 0
  /\ at' = "over"
  /\ UNCHANGED <<input, items, timePruned, picked, next, budget, results>>

\* The client has gone; that is looked at now and then.
Cancel ==
  /\ at = "enter" /\ budget > 0
  /\ (budget - 1) % CheckInterval = 0
  /\ at' = "cancelled" /\ budget' = budget - 1
  /\ UNCHANGED <<input, items, timePruned, picked, next, results>>

\* Mutant: nothing is seen twice.
NeverSeen(i) == FALSE
\* An expense of the amount this loop has just dealt with.
SeenAlready(i) == i > Index /\ items[i].amount = items[i - 1].amount

Pick ==
  /\ at = "loop" /\ next <= Len(items)
  /\ ~SeenAlready(next) /\ items[next].amount <= Upper - PickedSum
  /\ picked' = picked \cup {next}
  /\ at' = "enter"
  /\ UNCHANGED <<input, items, timePruned, next, budget, results>>
Skip ==
  /\ at = "loop" /\ next <= Len(items)
  /\ (SeenAlready(next) \/ items[next].amount > Upper - PickedSum)
  /\ next' = next + 1
  /\ UNCHANGED <<input, items, timePruned, picked, budget, results, at>>
Return ==
  /\ at = "loop" /\ next > Len(items)
  /\ Leave(budget)
  /\ UNCHANGED <<input, items, timePruned, budget, results>>

------------------------------------------------------------------------------
(* findBestMatchesCentsContext.                                            *)

FoundNothing == results = <<>> /\ timePruned /\ budget > 0

AllOfThem == items' = candidates /\ timePruned' = FALSE

SecondPass ==
  /\ at = "over" /\ FoundNothing
  /\ AllOfThem
  /\ picked' = {} /\ next' = 1 /\ at' = "enter"
  /\ UNCHANGED <<input, budget, results>>

\* Mutant: in the order in which they were found.
AsFound(s) == s
\* sort.SliceStable
Before(s, i, j) == Better(s[i], s[j]) \/ (~Better(s[j], s[i]) /\ i < j)
Sorted(s) ==
  LET place == InOrder(DOMAIN s, {p \in (DOMAIN s) \X (DOMAIN s) : Before(s, p[1], p[2])})
  IN [n \in DOMAIN s |-> s[place[n]]]

Finish ==
  /\ at = "over" /\ ~FoundNothing
  /\ results' = Sorted(results)
  /\ at' = "done"
  /\ UNCHANGED <<input, items, timePruned, picked, next, budget>>

MatchNext == Enter \/ OutOfNodes \/ Cancel \/ Pick \/ Skip \/ Return \/ SecondPass \/ Finish

Match == MatchInit /\ [][MatchNext]_matchVars

------------------------------------------------------------------------------

\* Combinations that a right answer may be, of the expenses s.
Combinations(s) ==
  {S \in SUBSET DOMAIN s : /\ Cardinality(S) \in 1 .. ask.maxDepth
                           /\ Distance(SumOf(S, s)) <= ask.tolerance}
Multiset(ids) ==
  [m \in {candidates[i].amount : i \in ids} |-> Cardinality({i \in ids : candidates[i].amount = m})]

(* Every answer, also of a search that was cut short or cancelled, is a       *)
(* combination of allowed size within the tolerance, described as it is, and  *)
(* no two answers are of the same amounts.                                    *)
AnswersAreRight ==
  /\ Len(results) <= ask.limit
  /\ \A i \in DOMAIN results :
       /\ results[i].ids \in Combinations(candidates)
       /\ results[i] = Answer(results[i].ids, candidates)
       /\ \A j \in DOMAIN results : i # j => Multiset(results[i].ids) # Multiset(results[j].ids)

(* A search that was not cut short has missed nothing: of the amounts of any  *)
(* combination there is an answer at least as good, or the answers are as     *)
(* many as were asked for and none is worse.  Recent expenses are enough if   *)
(* they have an answer; an empty list means that there is none at all.        *)
NothingBetterIsMissed ==
  at = "done" /\ budget > 0 =>
    /\ \A S \in Combinations(items) :
         LET r == Answer(S, items)
         IN \/ \E i \in DOMAIN results : Multiset(results[i].ids) = Multiset(r.ids) /\ ~Better(r, results[i])
            \/ Len(results) = ask.limit /\ \A i \in DOMAIN results : ~Better(r, results[i])
    /\ results = <<>> => Combinations(candidates) = {}
    /\ \A i, j \in DOMAIN results : i < j => ~Better(results[j], results[i])
=============================================================================
