---------------------------- MODULE ActionTokens ----------------------------
(***************************************************************************)
(* Accounts and the one-time links that act on them: AuthService with the  *)
(* users and action_requests tables.                                       *)
(*                                                                         *)
(* A request that checks a password reads the account first, outside any   *)
(* transaction, because hashing is slow; its transaction runs later and    *)
(* rereads the account.  A link is mailed after its transaction committed, *)
(* so it may be lost, late, or dead on arrival.  Transactions are          *)
(* serialized (_txlock=immediate) and are one action each.                 *)
(*                                                                         *)
(* Time is abstract: a link may lapse at any moment, and an unverified     *)
(* registration may become overdue (older than 24 hours) at any moment.    *)
(* Addresses that differ in case only are one address, and the unique      *)
(* username of an account is treated like its address.  The server is one  *)
(* that requires verified addresses (emailReq).                            *)
(***************************************************************************)
EXTENDS Naturals, FiniteSets

CONSTANTS User, Email, Link, Call, NoUser, NoEmail, NoLink,
          MaxVersion    \* bound: changes of credentials of one account

ASSUME NothingApart == NoUser \notin User /\ NoEmail \notin Email /\ NoLink \notin Link
ASSUME MaxVersionNat == MaxVersion \in Nat

VARIABLES
  user,    \* users rows
  link,    \* action_requests rows, and where each link was mailed
  call,    \* requests in flight
  listed   \* the ids that DeleteExpiredUnverifiedUsers has collected

vars == <<user, link, call, listed>>

Actions == {"verify", "reset", "email_old", "email_new", "delete", "backup", "recover"}

CredentialBound == {"reset", "email_old", "email_new", "delete", "backup", "recover"}

\* ver is pwd_version; pwd stands for the password hash.
UserRow == [st : {"unused", "unverified", "verified", "deleted"},
            email : Email \cup {NoEmail}, pending : Email \cup {NoEmail},
            pwd : Nat, ver : Nat, overdue : BOOLEAN]
\* ver and box record the credentials a link was issued under and the address
\* it goes to; the code does not store them.
LinkRow == [st : {"unused", "pending", "completed", "expired", "deleted"},
            owner : User \cup {NoUser}, act : Actions, meta : Email \cup {NoEmail},
            ver : Nat, box : Email \cup {NoEmail}, sent : BOOLEAN, lapsed : BOOLEAN]
\* seen is the account as the request read it before its transaction.
CallState == [op : {"idle", "purge", "create", "issue", "password", "reserve", "send"},
              act : Actions, who : User \cup {NoUser}, seen : UserRow,
              mail : Email \cup {NoEmail}, lnk : Link \cup {NoLink}]

UnusedUser == [st |-> "unused", email |-> NoEmail, pending |-> NoEmail,
               pwd |-> 0, ver |-> 0, overdue |-> FALSE]
UnusedLink == [st |-> "unused", owner |-> NoUser, act |-> "verify", meta |-> NoEmail,
               ver |-> 0, box |-> NoEmail, sent |-> FALSE, lapsed |-> FALSE]
Idle == [op |-> "idle", act |-> "verify", who |-> NoUser, seen |-> UnusedUser,
         mail |-> NoEmail, lnk |-> NoLink]

Account(st, e) == [UnusedUser EXCEPT !.st = st, !.email = e]
Exists(rows, u) == u \in User /\ rows[u].st \in {"unverified", "verified"}
Taken(e) == \E u \in User : Exists(user, u) /\ user[u].email = e

\* Any database in which no link is outstanding.
Init ==
  /\ \E owner \in [Email -> User \cup {NoUser}] :
       /\ \A e, f \in Email : owner[e] = owner[f] /\ owner[e] # NoUser => e = f
       /\ user = [u \in User |-> IF \E e \in Email : owner[e] = u
                                 THEN Account("verified", CHOOSE e \in Email : owner[e] = u)
                                 ELSE UnusedUser]
  /\ link = [l \in Link |-> UnusedLink]
  /\ call = [c \in Call |-> Idle]
  /\ listed = {}

------------------------------------------------------------------------------
(* Rows.                                                                   *)

\* ExpirePendingActionRequestsForUser, for each of the given actions.
Expire(rows, u, acts) ==
  [l \in Link |-> IF rows[l].owner = u /\ rows[l].act \in acts /\ rows[l].st = "pending"
                  THEN [rows[l] EXCEPT !.st = "expired"] ELSE rows[l]]

\* ConsumeActionRequest
Consume(l) == [link EXCEPT ![l].st = "completed"]

\* Mutant: the links are left to point to nobody.
DeleteUsersOnly(gone) ==
  /\ user' = [u \in User |-> IF u \in gone THEN [UnusedUser EXCEPT !.st = "deleted"] ELSE user[u]]
  /\ UNCHANGED link

\* deleteUserData, for the tables of this module.
DeleteUsers(gone) ==
  /\ user' = [u \in User |-> IF u \in gone THEN [UnusedUser EXCEPT !.st = "deleted"] ELSE user[u]]
  /\ link' = [l \in Link |-> IF link[l].owner \in gone THEN [UnusedLink EXCEPT !.st = "deleted"]
                             ELSE link[l]]

\* pwd_version = pwd_version + 1
NextVersion(v) == v + 1

SetPassword(row) ==
  [row EXCEPT !.pwd = @ + 1, !.ver = NextVersion(@), !.pending = NoEmail]
SetEmail(row, e) ==
  [row EXCEPT !.email = e, !.ver = NextVersion(@), !.pending = NoEmail]

\* sameCredentialState
SameCredentials(seen, row) ==
  /\ seen.email = row.email /\ seen.pwd = row.pwd
  /\ seen.ver = row.ver /\ seen.st = row.st

Reply(c) == call' = [call EXCEPT ![c] = Idle]
Goto(c, op, act, u, e) ==
  call' = [call EXCEPT ![c] = [op |-> op, act |-> act, who |-> u,
             seen |-> IF u \in User THEN user[u] ELSE UnusedUser, mail |-> e, lnk |-> NoLink]]
Hold(c, op, l) ==
  call' = [call EXCEPT ![c] = [op |-> op, act |-> "verify", who |-> NoUser, seen |-> UnusedUser,
                               mail |-> NoEmail, lnk |-> l]]

\* verifyAndLoadAction succeeds for a link that somebody has received.
Usable(l, act) ==
  link[l].sent /\ link[l].st = "pending" /\ link[l].act = act /\ ~link[l].lapsed

------------------------------------------------------------------------------
(* Registration.                                                           *)

\* An overdue unverified occupant of the address is to be purged first.
Register(c, e) ==
  /\ call[c].op = "idle"
  /\ \/ \E u \in User : /\ Exists(user, u) /\ user[u].email = e
                        /\ user[u].st = "unverified" /\ user[u].overdue
                        /\ Goto(c, "purge", "verify", u, e)
     \/ /\ ~\E u \in User : /\ Exists(user, u) /\ user[u].email = e
                            /\ user[u].st = "unverified" /\ user[u].overdue
        /\ Goto(c, "create", "verify", NoUser, e)
  /\ UNCHANGED <<user, link, listed>>

\* DeleteUser by id; that the user is gone already is ignored.
Purge(c) ==
  /\ call[c].op = "purge"
  /\ DeleteUsers({call[c].who} \cap {u \in User : Exists(user, u)})
  /\ call' = [call EXCEPT ![c].op = "create"]
  /\ UNCHANGED listed

Create(c, u) ==
  /\ call[c].op = "create"
  /\ ~Taken(call[c].mail)
  /\ user[u].st = "unused"
  /\ user' = [user EXCEPT ![u] = Account("unverified", call[c].mail)]
  /\ call' = [call EXCEPT ![c] = [op |-> "issue", act |-> "verify", who |-> u,
                seen |-> user'[u], mail |-> NoEmail, lnk |-> NoLink]]
  /\ UNCHANGED <<link, listed>>

CreateTaken(c) ==
  /\ call[c].op = "create"
  /\ Taken(call[c].mail)
  /\ Reply(c)
  /\ UNCHANGED <<user, link, listed>>

------------------------------------------------------------------------------
(* Asking for a link.                                                      *)

\* The read before the transaction: by address without a session, or by the
\* owner of a session, who has a verified address and knows the password.
Ask(c, u, act) ==
  /\ call[c].op = "idle"
  /\ act \in {"verify", "reset", "delete", "backup", "recover"}
  /\ user[u].st = IF act = "verify" THEN "unverified" ELSE "verified"
  /\ Goto(c, "issue", act, u, NoEmail)
  /\ UNCHANGED <<user, link, listed>>

AskEmailChange(c, u, e) ==
  /\ call[c].op = "idle"
  /\ user[u].st = "verified" /\ user[u].email # e
  /\ Goto(c, "issue", "email_old", u, e)
  /\ UNCHANGED <<user, link, listed>>

\* Links that a new one replaces.
Superseded(act) ==
  CASE act = "delete" -> {"delete"} [] act = "email_old" -> {"email_old", "email_new"} [] OTHER -> {}

\* A verification link is not issued in a transaction: its row only needs its user.
MayIssue(c) ==
  /\ Exists(user, call[c].who)
  /\ call[c].act = "verify" \/ SameCredentials(call[c].seen, user[call[c].who])
  /\ call[c].act = "email_old" => ~Taken(call[c].mail)

\* Mutant: the authorization goes to the address that is to be proved.
RequestedAddress(c) == IF call[c].mail = NoEmail THEN call[c].seen.email ELSE call[c].mail

\* The mail goes to the account's address as the transaction has read it.
Address(c) == IF call[c].act = "verify" THEN call[c].seen.email ELSE user[call[c].who].email

NewLink(u, act, e, box) ==
  [st |-> "pending", owner |-> u, act |-> act, meta |-> e,
   ver |-> user[u].ver, box |-> box, sent |-> FALSE, lapsed |-> FALSE]

Issue(c, l) ==
  /\ call[c].op = "issue" /\ MayIssue(c)
  /\ link[l].st = "unused"
  /\ LET u == call[c].who act == call[c].act IN
       /\ link' = [Expire(link, u, Superseded(act)) EXCEPT
                     ![l] = NewLink(u, act, call[c].mail, Address(c))]
       /\ user' = IF act = "email_old" THEN [user EXCEPT ![u].pending = call[c].mail] ELSE user
  /\ Hold(c, "send", l)
  /\ UNCHANGED listed

IssueRefused(c) ==
  /\ call[c].op = "issue" /\ ~MayIssue(c)
  /\ Reply(c)
  /\ UNCHANGED <<user, link, listed>>

\* The mail arrives, or for a grant the response does.
Send(c) ==
  /\ call[c].op = "send"
  /\ link' = [link EXCEPT ![call[c].lnk].sent = TRUE]
  /\ Reply(c)
  /\ UNCHANGED <<user, listed>>

\* A cancelled request, a failing mail service, a restart of the server.
Drop(c) ==
  /\ call[c].op # "idle"
  /\ Reply(c)
  /\ UNCHANGED <<user, link, listed>>

------------------------------------------------------------------------------
(* Using a link.                                                           *)

VerifyEmail(l) ==
  /\ Usable(l, "verify")
  /\ user' = [user EXCEPT ![link[l].owner].st = "verified", ![link[l].owner].overdue = FALSE]
  /\ link' = Consume(l)
  /\ UNCHANGED <<call, listed>>

\* ResetPassword checks the link twice; only the check inside the
\* transaction decides.
ResetPassword(l) ==
  /\ Usable(l, "reset")
  /\ LET u == link[l].owner IN
       /\ user[u].ver < MaxVersion
       /\ link' = Expire(Consume(l), u, CredentialBound)
       /\ user' = [user EXCEPT ![u] = SetPassword(@)]
  /\ UNCHANGED <<call, listed>>

TargetIsPending(l) == link[l].meta # NoEmail /\ user[link[l].owner].pending = link[l].meta

ConfirmOldEmail(c, l, m) ==
  /\ call[c].op = "idle"
  /\ Usable(l, "email_old") /\ TargetIsPending(l) /\ link[m].st = "unused"
  /\ ~Taken(link[l].meta)
  /\ LET u == link[l].owner IN
       link' = [Expire(Consume(l), u, {"email_old", "email_new"}) EXCEPT
                  ![m] = NewLink(u, "email_new", link[l].meta, link[l].meta)]
  /\ Hold(c, "send", m)
  /\ UNCHANGED <<user, listed>>

\* An address taken in the meantime rolls the transaction back.
ConfirmEmailChange(l) ==
  /\ Usable(l, "email_new") /\ TargetIsPending(l)
  /\ ~Taken(link[l].meta)
  /\ LET u == link[l].owner IN
       /\ user[u].ver < MaxVersion
       /\ link' = Expire(Consume(l), u, CredentialBound)
       /\ user' = [user EXCEPT ![u] = SetEmail(@, link[l].meta)]
  /\ UNCHANGED <<call, listed>>

UseBackupGrant(l) ==
  /\ Usable(l, "backup")
  /\ link' = Consume(l)
  /\ UNCHANGED <<user, call, listed>>

\* A recovery verifies its grant, and reserves it in a later transaction.
VerifyRecovery(c, l) ==
  /\ call[c].op = "idle"
  /\ Usable(l, "recover")
  /\ Hold(c, "reserve", l)
  /\ UNCHANGED <<user, link, listed>>

\* Mutant: the grant was verified, so it is not read again.
ReservableOnce(l) == link[l].act = "recover" /\ link[l].st \in {"pending", "expired"}
Reservable(l) == link[l].act = "recover" /\ link[l].st = "pending" /\ ~link[l].lapsed

ReserveRecovery(c) ==
  /\ call[c].op = "reserve"
  /\ IF Reservable(call[c].lnk) THEN link' = Consume(call[c].lnk) ELSE UNCHANGED link
  /\ Reply(c)
  /\ UNCHANGED <<user, listed>>

\* ConfirmAccountDeletion: consume, queue the files, delete everything.
ConfirmDeletion(l) ==
  /\ Usable(l, "delete")
  /\ DeleteUsers({link[l].owner})
  /\ UNCHANGED <<call, listed>>

\* A check outside a transaction stores that the links of its action lapsed.
ExpireLapsed(act) ==
  /\ act \in {"reset", "delete", "recover"}
  /\ \E l \in Link : link[l].sent /\ link[l].act = act /\ link[l].st = "pending" /\ link[l].lapsed
  /\ link' = [l \in Link |-> IF link[l].act = act /\ link[l].st = "pending" /\ link[l].lapsed
                             THEN [link[l] EXCEPT !.st = "expired"] ELSE link[l]]
  /\ UNCHANGED <<user, call, listed>>

------------------------------------------------------------------------------
(* Changing the password, the clean-up worker, time.                       *)

AskPassword(c, u) ==
  /\ call[c].op = "idle"
  /\ user[u].st = "verified"
  /\ Goto(c, "password", "verify", u, NoEmail)
  /\ UNCHANGED <<user, link, listed>>

\* Only the hash is compared: a change of address in between does not matter.
ChangePassword(c) ==
  /\ call[c].op = "password"
  /\ LET u == call[c].who IN
       /\ Exists(user, u) /\ user[u].pwd = call[c].seen.pwd
       /\ user[u].ver < MaxVersion
       /\ link' = Expire(link, u, CredentialBound)
       /\ user' = [user EXCEPT ![u] = SetPassword(@)]
  /\ Reply(c)
  /\ UNCHANGED listed

ChangeRefused(c) ==
  /\ call[c].op = "password"
  /\ ~(Exists(user, call[c].who) /\ user[call[c].who].pwd = call[c].seen.pwd)
  /\ Reply(c)
  /\ UNCHANGED <<user, link, listed>>

\* Mutant: registrations that got a link are spared.
OverdueWithoutLink ==
  {u \in User : user[u].st = "unverified" /\ user[u].overdue /\ \A l \in Link : link[l].owner # u}
Overdue == {u \in User : user[u].st = "unverified" /\ user[u].overdue}

\* DeleteExpiredUnverifiedUsers collects the ids outside its transaction ...
ListOverdue ==
  /\ listed = {} /\ Overdue # {}
  /\ listed' = Overdue
  /\ UNCHANGED <<user, link, call>>

\* ... and rolls it back when one of them is gone.
DeleteListed ==
  /\ listed # {}
  /\ IF \A u \in listed : Exists(user, u) THEN DeleteUsers(listed) ELSE UNCHANGED <<user, link>>
  /\ listed' = {}
  /\ UNCHANGED call

Age(u) ==
  /\ user[u].st = "unverified" /\ ~user[u].overdue
  /\ user' = [user EXCEPT ![u].overdue = TRUE]
  /\ UNCHANGED <<link, call, listed>>

Lapse(l) ==
  /\ link[l].st = "pending" /\ ~link[l].lapsed
  /\ link' = [link EXCEPT ![l].lapsed = TRUE]
  /\ UNCHANGED <<user, call, listed>>

Request(c) ==
  \/ \E e \in Email : Register(c, e)
  \/ \E u \in User : AskPassword(c, u) \/ \E act \in Actions : Ask(c, u, act)
  \/ \E u \in User, e \in Email : AskEmailChange(c, u, e)
Continue(c) ==
  \/ Purge(c) \/ CreateTaken(c) \/ \E u \in User : Create(c, u)
  \/ IssueRefused(c) \/ \E l \in Link : Issue(c, l)
  \/ ReserveRecovery(c) \/ ChangePassword(c) \/ ChangeRefused(c) \/ Send(c) \/ Drop(c)
UseLink ==
  \/ \E l \in Link : \/ VerifyEmail(l) \/ ResetPassword(l) \/ ConfirmEmailChange(l)
                     \/ UseBackupGrant(l) \/ ConfirmDeletion(l)
  \/ \E c \in Call, l, m \in Link : ConfirmOldEmail(c, l, m)
  \/ \E c \in Call, l \in Link : VerifyRecovery(c, l)

Next ==
  \/ \E c \in Call : Request(c) \/ Continue(c)
  \/ UseLink
  \/ \E act \in Actions : ExpireLapsed(act)
  \/ ListOverdue \/ DeleteListed
  \/ \E u \in User : Age(u)
  \/ \E l \in Link : Lapse(l)

\* The hourly worker keeps running; nothing is assumed of anybody else.
Spec == Init /\ [][Next]_vars /\ WF_vars(ListOverdue) /\ WF_vars(DeleteListed)
------------------------------------------------------------------------------
\* Types of the rows, of the requests in flight and of the worker's list.
TypeOK ==
  /\ user \in [User -> UserRow]
  /\ link \in [Link -> LinkRow]
  /\ call \in [Call -> CallState]
  /\ listed \subseteq User

\* Every pending link has its account, and one that is not the verification of
\* a registration was issued under the credentials the account has now: no
\* change of credentials leaves an older link alive
\* (expireCredentialBoundActions, auth_service.go:36-56).
PendingLinksAreCurrent ==
  \A l \in Link : link[l].st = "pending" =>
    /\ Exists(user, link[l].owner)
    /\ link[l].act # "verify" => link[l].ver = user[link[l].owner].ver

\* One change of address at a time: of the two halves of all the requests an
\* account has made, at most one link lives, and it is for the address the
\* account waits for ("prevents an older link from surviving a new request").
OneEmailChange ==
  \A l \in Link : (link[l].st = "pending" /\ link[l].act \in {"email_old", "email_new"}) =>
    /\ link[l].meta = user[link[l].owner].pending
    /\ \A m \in Link \ {l} : (link[m].st = "pending" /\ link[m].act \in {"email_old", "email_new"})
         => link[m].owner # link[l].owner

\* Of all links that change credentials, one at most wins under the same
\* credentials: two resets, or a reset and a change of address, never both.
OneWinnerPerVersion ==
  \A l, m \in Link :
    (/\ l # m /\ link[l].owner = link[m].owner
     /\ link[l].st = "completed" /\ link[m].st = "completed"
     /\ link[l].act \in {"reset", "email_new"} /\ link[m].act \in {"reset", "email_new"})
      => link[l].ver # link[m].ver

\* A link acts only when the account still has the credentials it was issued
\* under, whatever happened between its verification and its use.
LinksActUnderTheirCredentials ==
  [][\A l \in Link : (link[l].st # "completed" /\ link'[l].st = "completed" /\ link[l].act # "verify")
       => link[l].ver = user[link[l].owner].ver]_vars

\* The address of an account changes only after a link mailed to the old
\* address and then one mailed to the new address were used, both issued for
\* this target under the credentials that end here.
AddressChangesByBothOwners ==
  [][\A u \in User : (Exists(user, u) /\ Exists(user', u) /\ user'[u].email # user[u].email) =>
       \E l, m \in Link :
         /\ link[l].act = "email_old" /\ link[l].st = "completed" /\ link[l].sent
         /\ link[m].act = "email_new" /\ link'[m].st = "completed" /\ link[m].sent
         /\ link[l].owner = u /\ link[l].ver = user[u].ver /\ link[l].box = user[u].email
         /\ link[m].owner = u /\ link[m].ver = user[u].ver /\ link[m].box = user'[u].email
         /\ link[l].meta = user'[u].email]_vars

\* Registrations that nobody verifies do not accumulate.
OverdueRegistrationsGo ==
  \A u \in User :
    (user[u].st = "unverified" /\ user[u].overdue) ~> (user[u].st # "unverified")

\* "CleanupExpiredUnverified removes all unverified users whose registration
\* is older than 24 hours" (auth_service.go:907-908): when the worker's
\* transaction is over, an account that had been verified by then is still there.
WorkerSparesVerified ==
  [][(listed # {} /\ listed' = {}) =>
       \A u \in listed : user[u].st = "verified" => user'[u].st = "verified"]_vars
=============================================================================
