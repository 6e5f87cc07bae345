----------------------------- MODULE Bookkeeping -----------------------------
(***************************************************************************)
(* The books of one user in work mode: accounts with a cached balance,     *)
(* transactions, reimbursements, and the idempotency keys under which a    *)
(* client may send a creation again.                                       *)
(*                                                                         *)
(* A creation reads before it writes: first whether its key is known, then *)
(* the account.  The write is one database transaction, serialized with    *)
(* the others and retried when the database is busy, which is a stutter    *)
(* here.  A toggle reads and updates in two statements that no transaction *)
(* holds together.  The triggers of the transactions table are part of the *)
(* statement that fires them.                                              *)
(*                                                                         *)
(* Transactions and reimbursements are named by their place in the order   *)
(* in which they were inserted.                                            *)
(***************************************************************************)
EXTENDS Integers, Sequences, FiniteSets, Functions

CONSTANTS
  Account,
  Personal,     \* the accounts of type personal; the others are public
  Request,      \* what a client may ask for: an account or a type, and an amount
  Key, NoKey,   \* Idempotency-Key, and a request without one
  Call,         \* requests that are handled at the same time
  MaxBalance,   \* the largest balance_cents; the least is -(MaxBalance + 1)
  MaxTxn        \* bound: transactions

Types == {"personal", "public"}

ASSUME PersonalAreAccounts == Personal \subseteq Account
ASSUME RequestsName == \A r \in Request : r.account \in Account \cup Types /\ r.effect \in Int \ {0}
ASSUME NoKeyIsNoKey == NoKey \notin Key
ASSUME BoundsAreNat == MaxBalance \in Nat /\ MaxTxn \in Nat

VARIABLES
  owner,     \* the user exists
  open,      \* accounts with is_active = 1
  closed,    \* and those with is_active = 0
  balance,   \* accounts.balance_cents
  txn,       \* transactions
  claim,     \* idempotency_keys: the request a key stands for
  doc,       \* reimbursements with their items
  call       \* what the handlers know

books == <<open, closed, balance, txn, claim, doc>>
vars == <<owner, books, call>>

Type(a) == IF a \in Personal THEN "personal" ELSE "public"
NoRequest == [account |-> "none", effect |-> 0]
Balances == -(MaxBalance + 1) .. MaxBalance

Row(a, effect, k, reimb) ==
  [on |-> a, effect |-> effect, key |-> k, reimb |-> reimb, doc |-> 0,
   uploaded |-> FALSE, reported |-> FALSE, settled |-> FALSE]

Init ==
  /\ owner = TRUE
  /\ open = {} /\ closed = {}
  /\ balance = [a \in Account |-> 0]
  /\ txn = <<>> /\ doc = <<>>
  /\ claim = [k \in Key |-> NoRequest]
  /\ call = [c \in Call |-> [at |-> "idle"]]

Rows == DOMAIN txn
RowsOf(k) == {i \in Rows : txn[i].key = k}
EffectOn(a) == [i \in Rows |-> IF txn[i].on = a THEN txn[i].effect ELSE 0]
SumOn(a, S) == SumFunctionOnSet(EffectOn(a), S)
Spent == [i \in Rows |-> -txn[i].effect]

------------------------------------------------------------------------------
(* Creating a transaction.                                                 *)

Become(c, state) == call' = [call EXCEPT ![c] = state]
Free(c) == call[c].at \in {"idle", "answered"}

\* handleCreateTransaction up to the lookup of the key: expect is the
\* transaction found there, 0 if there is none.
StartCreate(c, k, r) ==
  /\ Free(c)
  /\ \E e \in IF RowsOf(k) = {} \/ k = NoKey THEN {0} ELSE RowsOf(k) :
       Become(c, [at |-> "asked", key |-> k, req |-> r, expect |-> e])
  /\ UNCHANGED <<owner, books>>

\* PrepareCreateTransaction: the account a request may be booked on.
Resolves(r, a) == a \in open /\ r.account \in {a, Type(a)}

\* The account is resolved and its rate looked up.
Prepare(c) ==
  /\ call[c].at = "asked" /\ call[c].expect = 0
  /\ \E a \in Account :
       /\ Resolves(call[c].req, a)
       /\ Become(c, [at |-> "ready", key |-> call[c].key, req |-> call[c].req, account |-> a])
  /\ UNCHANGED <<owner, books>>

\* Mutant: the account read by Prepare is trusted.
TrustPrepared(a) == owner
\* INSERT ... SELECT ... WHERE EXISTS active account
AcceptsRows(a) == owner /\ a \in open

\* Mutant: an int64 has no end.
Unbounded(a, effect) == balance' = [balance EXCEPT ![a] = @ + effect]
\* trg_balance_insert: an overflow aborts the statement.
Post(a, effect) ==
  /\ balance[a] + effect \in Balances
  /\ balance' = [balance EXCEPT ![a] = @ + effect]

\* Mutant: nothing is reserved.
LeaveUnclaimed(k, r) == UNCHANGED claim
\* ClaimIdempotencyKey inserts its row.
Claim(k, r) ==
  IF k = NoKey THEN UNCHANGED claim
  ELSE claim[k] = NoRequest /\ claim' = [claim EXCEPT ![k] = r]

\* A personal expense waits for its reimbursement.
InitialReimb(a, effect) == IF effect < 0 /\ a \in Personal THEN "pending" ELSE "none"

\* The transaction of handleCreateTransaction, when the key is new.
Create(c) ==
  /\ call[c].at = "ready" /\ Len(txn) < MaxTxn
  /\ LET a == call[c].account
         e == call[c].req.effect
     IN /\ AcceptsRows(a)
        /\ Claim(call[c].key, call[c].req)
        /\ Post(a, e)
        /\ txn' = Append(txn, Row(a, e, call[c].key, InitialReimb(a, e)))
  /\ Become(c, [at |-> "answered", key |-> call[c].key, req |-> call[c].req, txn |-> Len(txn')])
  /\ UNCHANGED <<owner, open, closed, doc>>

\* Mutant: any request with the key is taken for the one that made it.
AnyClaim(k, r) == claim[k] # NoRequest
\* The stored hash is that of this request.
Claimed(k, r) == claim[k] = r

\* The same transaction, when the key is taken: its transaction is the answer.
Replay(c) ==
  /\ call[c].at \in {"asked", "ready"} /\ call[c].key # NoKey
  /\ call[c].at = "asked" => call[c].expect # 0
  /\ Claimed(call[c].key, call[c].req)
  /\ \E i \in RowsOf(call[c].key) :
       /\ call[c].at = "asked" => i = call[c].expect
       /\ Become(c, [at |-> "answered", key |-> call[c].key, req |-> call[c].req, txn |-> i])
  /\ UNCHANGED <<owner, books>>

\* Mutant: the reservation outlives the rest of its transaction.
FailKeepingClaim(c) ==
  /\ call[c].at = "ready" /\ owner
  /\ Claim(call[c].key, call[c].req)
  /\ Become(c, [at |-> "idle"])
  /\ UNCHANGED <<owner, open, closed, balance, txn, doc>>
\* A request is refused, fails, or its process dies: what its transaction did
\* is rolled back, the reservation of the key with it.
Fail(c) ==
  /\ ~Free(c)
  /\ Become(c, [at |-> "idle"])
  /\ UNCHANGED <<owner, books>>

------------------------------------------------------------------------------
(* The marks of a transaction.                                             *)

Expense(i) == txn[i].effect < 0

\* What ToggleReimbursed, ToggleUploaded and ToggleSettled read and refuse.
MayToggle(i, mark) ==
  \/ mark = "uploaded"
  \/ /\ mark = "reimb" /\ Expense(i) /\ txn[i].on \in Personal /\ txn[i].doc = 0
     /\ txn[i].reimb = "pending" => txn[i].reported
  \/ /\ mark = "settled" /\ Expense(i) /\ txn[i].on \notin Personal
     /\ ~txn[i].settled => txn[i].uploaded

StartToggle(c, i, mark) ==
  /\ Free(c)
  /\ MayToggle(i, mark)
  /\ Become(c, [at |-> "toggle", row |-> i, mark |-> mark, saw |-> txn[i][mark]])
  /\ UNCHANGED <<owner, books>>

\* Mutant: the status alone tells whether the row is as it was.
SameStatus(i, mark, saw) == txn[i][mark] = saw
\* The WHERE of the UPDATE.
StillAsRead(i, mark, saw) == txn[i][mark] = saw /\ (mark = "reimb" => txn[i].doc = 0)

\* Mutant: taking the report back forgets that there was one.
ForgetReport(row) == [row EXCEPT !.uploaded = ~@, !.reported = ~row.uploaded]
\* reported_at is set once.
FlipUploaded(row) == [row EXCEPT !.uploaded = ~@, !.reported = @ \/ ~row.uploaded]

Flipped(row, mark) ==
  CASE mark = "reimb" -> [row EXCEPT !.reimb = IF @ = "pending" THEN "reimbursed" ELSE "pending"]
    [] mark = "uploaded" -> FlipUploaded(row)
    [] mark = "settled" -> [row EXCEPT !.settled = ~@]

FinishToggle(c) ==
  /\ call[c].at = "toggle" /\ call[c].row \in Rows
  /\ StillAsRead(call[c].row, call[c].mark, call[c].saw)
  /\ txn' = [txn EXCEPT ![call[c].row] = Flipped(@, call[c].mark)]
  /\ Become(c, [at |-> "idle"])
  /\ UNCHANGED <<owner, open, closed, balance, claim, doc>>

\* trg_balance_delete, for each row of S.
Unpost(S) == balance' = [a \in Account |-> balance[a] - SumOn(a, S)]

\* Mutant: trg_balance_reimburse, which dropBeforeApply retires.
PaidBack(S) == Unpost(S)
\* Reimbursement is a state of the workflow; the balance is the posted rows'.
NotPosted(S) == UNCHANGED balance

\* Create and AddItems: the document of a reimbursement and its items.
Document(S) == [items |-> S, total |-> SumFunctionOnSet(Spent, S)]

\* MarkReimbursed: the transactions with those of S marked as the document's.
Marked(S, d) ==
  [i \in Rows |-> IF i \in S THEN [txn[i] EXCEPT !.reimb = "reimbursed", !.doc = d] ELSE txn[i]]

\* CreateReimbursement: one transaction.
CreateReimbursement(S) ==
  /\ S # {}
  /\ \A i \in S : Expense(i) /\ txn[i].on \in Personal /\ txn[i].reimb = "pending"
  /\ \A d \in DOMAIN doc : S \cap doc[d].items = {}      \* UNIQUE (transaction_id)
  /\ doc' = Append(doc, Document(S))
  /\ txn' = Marked(S, Len(doc'))
  /\ NotPosted(S)
  /\ UNCHANGED <<owner, open, closed, claim, call>>

------------------------------------------------------------------------------
(* Accounts and their owner.                                               *)

\* CreateAccount, or EnsureDefaultAccounts, which does not look again: two of
\* them may make two accounts of a type.
OpenAccount(a) ==
  /\ owner /\ a \notin open \cup closed
  /\ open' = open \cup {a}
  /\ UNCHANGED <<owner, closed, balance, txn, claim, doc, call>>

\* CountByUserAndType: a is the only open account of its type.
LastOfType(a) == {b \in open : Type(b) = Type(a)} = {a}

\* HasTransactionsByAccount
HasHistory(a) == \E i \in Rows : txn[i].on = a

\* DeleteAccount: one transaction.
CloseAccount(a) ==
  /\ a \in open
  /\ ~LastOfType(a) /\ ~HasHistory(a)
  /\ open' = open \ {a} /\ closed' = closed \cup {a}
  /\ UNCHANGED <<owner, balance, txn, claim, doc, call>>

\* deleteUserData: one transaction.  Rows go one by one and an overflow on the
\* way rolls everything back, which is a stutter; in the reverse of the order
\* in which they came there is none, so the deletion can always succeed.
DeleteUser ==
  /\ owner
  /\ Unpost(Rows)
  /\ owner' = FALSE /\ open' = {} /\ closed' = {}
  /\ txn' = <<>> /\ doc' = <<>>
  /\ claim' = [k \in Key |-> NoRequest]
  /\ UNCHANGED call

Next ==
  \/ \E c \in Call :
       \/ \E k \in Key \cup {NoKey}, r \in Request : StartCreate(c, k, r)
       \/ Prepare(c) \/ Create(c) \/ Replay(c) \/ Fail(c)
       \/ \E i \in Rows, mark \in {"reimb", "uploaded", "settled"} : StartToggle(c, i, mark)
       \/ FinishToggle(c)
  \/ \E S \in SUBSET Rows : CreateReimbursement(S)
  \/ \E a \in Account : OpenAccount(a) \/ CloseAccount(a)
  \/ DeleteUser

Spec == Init /\ [][Next]_vars

------------------------------------------------------------------------------

TxnRow == [on : Account, effect : Int, key : Key \cup {NoKey},
           reimb : {"none", "pending", "reimbursed"}, doc : Nat,
           uploaded : BOOLEAN, reported : BOOLEAN, settled : BOOLEAN]
CallStates ==
  [at : {"idle"}]
  \cup [at : {"asked"}, key : Key \cup {NoKey}, req : Request, expect : Nat]
  \cup [at : {"ready"}, key : Key \cup {NoKey}, req : Request, account : Account]
  \cup [at : {"answered"}, key : Key \cup {NoKey}, req : Request, txn : Nat \ {0}]
  \cup [at : {"toggle"}, row : Nat \ {0}, mark : {"reimb"}, saw : {"pending", "reimbursed"}]
  \cup [at : {"toggle"}, row : Nat \ {0}, mark : {"uploaded", "settled"}, saw : BOOLEAN]

TypeOK ==
  /\ owner \in BOOLEAN
  /\ open \subseteq Account /\ closed \subseteq Account \ open
  /\ balance \in [Account -> Balances]
  /\ txn \in Seq(TxnRow) /\ Len(txn) <= MaxTxn
  /\ doc \in Seq([items : SUBSET (1 .. MaxTxn), total : Nat])
  /\ claim \in [Key -> Request \cup {NoRequest}]
  /\ call \in [Call -> CallStates]

(* The cached balance of an account is what its transactions add up to, and   *)
(* fits its column; no transaction is on an account that has been closed, so  *)
(* none is out of sight ("deleting an account with history would make its     *)
(* balance and statements disappear").                                        *)
BooksBalance ==
  \A a \in Account :
    /\ balance[a] = SumOn(a, Rows) /\ balance[a] \in Balances
    /\ a \in open \/ \A i \in Rows : txn[i].on # a

(* A key that is taken has booked exactly one transaction, and the one its    *)
(* request asked for; a key that is free has booked none.  However often and  *)
(* however concurrently a creation is sent, it is booked once, and a creation *)
(* that failed leaves its key free.                                           *)
OneBookingPerKey ==
  \A k \in Key :
    IF claim[k] = NoRequest THEN RowsOf(k) = {}
    ELSE \E i \in Rows : /\ RowsOf(k) = {i}
                         /\ txn[i].effect = claim[k].effect
                         /\ claim[k].account \in {txn[i].on, Type(txn[i].on)}

(* "changing one item would corrupt that reimbursement's item/total audit     *)
(* trail": the items of a reimbursement are the transactions that name it,    *)
(* all reimbursed, no item is in two, and its total is their sum.             *)
ReimbursementsStayWhole ==
  /\ \A d \in DOMAIN doc :
       /\ doc[d].items = {i \in Rows : txn[i].doc = d}
       /\ \A i \in doc[d].items : txn[i].reimb = "reimbursed"
       /\ doc[d].total = SumFunctionOnSet(Spent, doc[d].items)
  /\ \A i \in Rows : txn[i].doc \in 0 .. Len(doc)

(* What was paid back one by one or settled had been reported before, however *)
(* the toggles of several clients interleave.                                 *)
FlowIsOrdered ==
  \A i \in Rows :
    (txn[i].reimb = "reimbursed" /\ txn[i].doc = 0) \/ txn[i].settled => txn[i].reported

------------------------------------------------------------------------------
(* IdempotentCreation, which the books implement.                          *)

\* What a key stands for, and what the client of a call was last told under one.
Stored == [k \in Key |-> [asked |-> claim[k], booked |-> RowsOf(k)]]
Heard(state) ==
  IF state.at = "answered" /\ state.key # NoKey
  THEN [key |-> state.key, of |-> [asked |-> state.req, booked |-> {state.txn}]]
  ELSE [key |-> NoKey, of |-> [asked |-> NoRequest, booked |-> {}]]
Told == [c \in Call |-> Heard(call[c])]

Promise == INSTANCE IdempotentCreation
             WITH stored <- Stored, told <- Told, gone <- ~owner, Transaction <- 1 .. MaxTxn

(* However handlers of one key race, fail, answer again or lose their user,   *)
(* the key is booked once, by a transaction no other key has, and keeps it;   *)
(* every answer under it goes to a call that asked the same and names that    *)
(* transaction; a key whose creation failed is as it was.                     *)
ImplementsIdempotentCreation == Promise!Spec
=============================================================================
