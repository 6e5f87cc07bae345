------------------------ MODULE ActionTokensProofs ------------------------
(* Proofs about ActionTokens, for any number of accounts, addresses, links  *)
(* and requests, and any bound on the changes of credentials.               *)
EXTENDS ActionTokens, TLAPS

RowTypes == user \in [User -> UserRow] /\ link \in [Link -> LinkRow]
CallTypes == call \in [Call -> CallState] /\ listed \subseteq User

(* A link that is neither free nor deleted belongs to an account that exists. *)
Owned ==
  \A l \in Link :
    \/ link[l].st \in {"unused", "deleted"} /\ link[l].owner = NoUser
    \/ link[l].st \in {"pending", "completed", "expired"} /\ Exists(user, link[l].owner)

(* A link that changed the credentials was issued under older ones.          *)
Spent ==
  \A l \in Link :
    (link[l].st = "completed" /\ link[l].act \in {"reset", "email_new"}) =>
      link[l].ver < user[link[l].owner].ver

(* An authorization has been mailed to the address the account still has.    *)
FirstHalf ==
  \A l \in Link :
    (link[l].st = "pending" /\ link[l].act = "email_old") =>
      link[l].box = user[link[l].owner].email

(* A verification of a new address has been mailed to it, and rests on a used *)
(* authorization by the address the account still has.                       *)
Authorizes(l, m) ==
  /\ link[l].st = "completed" /\ link[l].act = "email_old" /\ link[l].sent
  /\ link[l].owner = link[m].owner /\ link[l].meta = link[m].meta
  /\ link[l].ver = link[m].ver /\ link[l].box = user[link[m].owner].email
SecondHalf ==
  \A m \in Link :
    (link[m].st = "pending" /\ link[m].act = "email_new") =>
      /\ link[m].box = link[m].meta
      /\ \E l \in Link : Authorizes(l, m)

(* What the fields of a request in flight hold when it needs them.           *)
Ready(r, rows) ==
  /\ r.act # "email_new"
  /\ r.op \in {"purge", "issue", "password"} => r.who \in User
  /\ r.op \in {"purge", "create"} => r.mail \in Email
  /\ r.op \in {"reserve", "send"} => r.lnk \in Link
  /\ r.op = "send" => rows[r.lnk].st # "unused"
CallsInOrder == \A c \in Call : Ready(call[c], link)

RowInv ==
  /\ RowTypes /\ Owned /\ PendingLinksAreCurrent /\ OneEmailChange /\ Spent
  /\ OneWinnerPerVersion /\ FirstHalf /\ SecondHalf
CallInv == CallTypes /\ CallsInOrder
IInv == RowInv /\ CallInv

------------------------------------------------------------------------------
(* The operators on rows.                                                    *)

LEMMA UserEdits ==
  ASSUME NEW r \in UserRow
  PROVE  /\ SetPassword(r) \in UserRow
         /\ SetPassword(r).ver = r.ver + 1 /\ SetPassword(r).st = r.st
         /\ \A e \in Email : /\ SetEmail(r, e) \in UserRow
                             /\ SetEmail(r, e).ver = r.ver + 1 /\ SetEmail(r, e).st = r.st
         /\ \A e \in Email : [r EXCEPT !.pending = e] \in UserRow
         /\ [r EXCEPT !.overdue = TRUE] \in UserRow
         /\ [r EXCEPT !.st = "verified", !.overdue = FALSE] \in UserRow
<1>1. PICK p \in Nat, v \in Nat : p = r.pwd + 1 /\ v = r.ver + 1
  BY DEF UserRow
<1>2. /\ SetPassword(r) \in UserRow
      /\ SetPassword(r).ver = r.ver + 1 /\ SetPassword(r).st = r.st
  <2>1. SetPassword(r) = [r EXCEPT !.pwd = p, !.ver = v, !.pending = NoEmail]
    BY <1>1 DEF SetPassword, NextVersion
  <2>2. SetPassword(r) \in UserRow
    BY <2>1 DEF UserRow
  <2>3. SetPassword(r).ver = v /\ SetPassword(r).st = r.st
    BY <2>1 DEF UserRow
  <2> QED BY <1>1, <2>2, <2>3
<1>3. ASSUME NEW e \in Email
      PROVE  SetEmail(r, e) = [r EXCEPT !.email = e, !.ver = v, !.pending = NoEmail]
  BY <1>1 DEF SetEmail, NextVersion
<1>4. ASSUME NEW e \in Email
      PROVE  /\ SetEmail(r, e) \in UserRow
             /\ SetEmail(r, e).ver = r.ver + 1 /\ SetEmail(r, e).st = r.st
  <2>1. SetEmail(r, e) \in UserRow
    BY <1>3 DEF UserRow
  <2>2. SetEmail(r, e).ver = v /\ SetEmail(r, e).st = r.st
    BY <1>3 DEF UserRow
  <2> QED BY <1>1, <2>1, <2>2
<1>5. \A e \in Email : [r EXCEPT !.pending = e] \in UserRow
  BY DEF UserRow
<1>6. [r EXCEPT !.overdue = TRUE] \in UserRow
  BY DEF UserRow
<1>7. [r EXCEPT !.st = "verified", !.overdue = FALSE] \in UserRow
  BY DEF UserRow
<1> QED BY <1>2, <1>4, <1>5, <1>6, <1>7

LEMMA UserRows ==
  /\ UnusedUser \in UserRow /\ [UnusedUser EXCEPT !.st = "deleted"] \in UserRow
  /\ \A e \in Email : Account("unverified", e) \in UserRow /\ Account("verified", e) \in UserRow
BY DEF UserRow, UnusedUser, Account

LEMMA LinkEdits ==
  ASSUME NEW r \in LinkRow
  PROVE  /\ \A st \in {"completed", "expired"} : [r EXCEPT !.st = st] \in LinkRow
         /\ [r EXCEPT !.sent = TRUE] \in LinkRow
         /\ [r EXCEPT !.lapsed = TRUE] \in LinkRow
BY DEF LinkRow

LEMMA LinkRows ==
  UnusedLink \in LinkRow /\ [UnusedLink EXCEPT !.st = "deleted"] \in LinkRow
BY DEF LinkRow, UnusedLink, Actions

(* Links keep everything but their state and whether they arrived.           *)
SameLink(k) ==
  /\ link'[k].owner = link[k].owner /\ link'[k].act = link[k].act
  /\ link'[k].meta = link[k].meta /\ link'[k].ver = link[k].ver
  /\ link'[k].box = link[k].box

Expired(old, new, u, acts) ==
  /\ new.owner = old.owner /\ new.act = old.act /\ new.meta = old.meta
  /\ new.ver = old.ver /\ new.box = old.box /\ new.sent = old.sent
  /\ new.st = IF old.owner = u /\ old.act \in acts /\ old.st = "pending"
              THEN "expired" ELSE old.st

LEMMA ExpireEffect ==
  ASSUME NEW rows \in [Link -> LinkRow], NEW u, NEW acts
  PROVE  /\ Expire(rows, u, acts) \in [Link -> LinkRow]
         /\ \A k \in Link : Expired(rows[k], Expire(rows, u, acts)[k], u, acts)
<1>1. \A k \in Link : rows[k] \in LinkRow
  OBVIOUS
<1>2. \A k \in Link : [rows[k] EXCEPT !.st = "expired"] \in LinkRow
  BY <1>1, LinkEdits
<1>3. Expire(rows, u, acts) \in [Link -> LinkRow]
  BY <1>1, <1>2 DEF Expire
<1>4. ASSUME NEW k \in Link
      PROVE  Expired(rows[k], Expire(rows, u, acts)[k], u, acts)
  BY <1>1 DEF Expire, Expired, LinkRow
<1> QED BY <1>3, <1>4

------------------------------------------------------------------------------
(* The steps on rows.                                                        *)

(* Most steps leave the credentials alone, and end links that change none.   *)
LEMMA LinksEnd ==
  ASSUME RowInv, RowTypes',
         \A u \in User : /\ user'[u].email = user[u].email /\ user'[u].ver = user[u].ver
                         /\ user'[u].pending = user[u].pending
                         /\ Exists(user, u) => Exists(user', u),
         \A k \in Link : /\ SameLink(k) /\ (link[k].sent => link'[k].sent)
                         /\ \/ link'[k].st = link[k].st
                            \/ /\ link[k].st = "pending"
                               /\ \/ link'[k].st = "expired"
                                  \/ /\ link'[k].st = "completed"
                                     /\ link[k].act \notin {"reset", "email_new"}
  PROVE  RowInv'
<1>1. Owned'
  BY DEF RowInv, Owned, SameLink, Exists
<1>2. PendingLinksAreCurrent'
  BY <1>1 DEF RowInv, Owned, PendingLinksAreCurrent, SameLink, Exists
<1>3. OneEmailChange'
  BY DEF RowInv, Owned, OneEmailChange, SameLink, Exists
<1>4. Spent'
  BY DEF RowInv, Owned, Spent, SameLink, Exists
<1>5. OneWinnerPerVersion'
  BY DEF RowInv, OneWinnerPerVersion, SameLink
<1>6. FirstHalf'
  BY DEF RowInv, Owned, FirstHalf, SameLink, Exists
<1>7. SecondHalf'
  BY DEF RowInv, Owned, SecondHalf, Authorizes, SameLink, Exists
<1> QED BY <1>1, <1>2, <1>3, <1>4, <1>5, <1>6, <1>7 DEF RowInv

(* New credentials end every link of the account that depends on them; at    *)
(* most one of these has won.                                                *)
LEMMA CredentialChangeKeeps ==
  ASSUME RowInv, NEW u \in User, Exists(user, u), NEW row \in UserRow,
         row.ver = user[u].ver + 1, row.st = user[u].st,
         NEW won \in SUBSET Link, \A l, m \in won : l = m,
         \A l \in won : /\ link[l].st = "pending" /\ link[l].owner = u
                        /\ link[l].act \in {"reset", "email_new"},
         user' = [user EXCEPT ![u] = row],
         NEW rows \in [Link -> LinkRow],
         rows = [k \in Link |-> IF k \in won THEN [link[k] EXCEPT !.st = "completed"] ELSE link[k]],
         link' = Expire(rows, u, CredentialBound)
  PROVE  RowInv'
<1>1. RowTypes'
  BY ExpireEffect DEF RowInv, RowTypes
<1>2. \A k \in Link : link[k] \in LinkRow
  BY DEF RowInv, RowTypes
<1>3. \A k \in Link : /\ SameLink(k) /\ link'[k].sent = link[k].sent
                      /\ link'[k].st = IF k \in won THEN "completed"
                           ELSE IF link[k].owner = u /\ link[k].act # "verify" /\ link[k].st = "pending"
                           THEN "expired" ELSE link[k].st
  <2> SUFFICES ASSUME NEW k \in Link
               PROVE  /\ SameLink(k) /\ link'[k].sent = link[k].sent
                      /\ link'[k].st = IF k \in won THEN "completed"
                           ELSE IF link[k].owner = u /\ link[k].act # "verify" /\ link[k].st = "pending"
                           THEN "expired" ELSE link[k].st
    OBVIOUS
  <2>1. /\ rows[k].owner = link[k].owner /\ rows[k].act = link[k].act /\ rows[k].meta = link[k].meta
        /\ rows[k].ver = link[k].ver /\ rows[k].box = link[k].box /\ rows[k].sent = link[k].sent
        /\ rows[k].st = IF k \in won THEN "completed" ELSE link[k].st
    BY <1>2 DEF LinkRow
  <2>2. link[k].act \in CredentialBound <=> link[k].act # "verify"
    BY <1>2 DEF LinkRow, Actions, CredentialBound
  <2>3. Expired(rows[k], link'[k], u, CredentialBound)
    BY ExpireEffect
  <2> QED BY <2>1, <2>2, <2>3 DEF SameLink, Expired
<1>4. /\ user'[u].ver = user[u].ver + 1 /\ Exists(user', u)
      /\ \A v \in User \ {u} : user'[v] = user[v]
      /\ \A v \in User : user[v].ver \in Nat
  BY DEF RowInv, RowTypes, UserRow, Exists
<1>5. Owned'
  BY <1>3, <1>4 DEF RowInv, Owned, SameLink, Exists
<1>6. PendingLinksAreCurrent'
  BY <1>3, <1>4, <1>5 DEF RowInv, Owned, PendingLinksAreCurrent, SameLink, Exists
<1>7. OneEmailChange'
  BY <1>3, <1>4 DEF RowInv, Owned, OneEmailChange, SameLink, Exists
<1>8. Spent'
  <2> SUFFICES ASSUME NEW l \in Link, link'[l].st = "completed",
                      link'[l].act \in {"reset", "email_new"}
               PROVE  link'[l].ver < user'[link'[l].owner].ver
    BY DEF Spent
  <2>1. CASE l \in won
    BY <2>1, <1>3, <1>4 DEF RowInv, PendingLinksAreCurrent, SameLink
  <2>2. CASE l \notin won
    <3>1. link[l].st = "completed" /\ link[l].act \in {"reset", "email_new"} /\ link[l].owner \in User
      BY <2>2, <1>3 DEF SameLink, RowInv, Owned, Exists
    <3>2. link[l].ver \in Nat /\ link[l].ver < user[link[l].owner].ver
      BY <3>1, <1>2 DEF RowInv, Spent, LinkRow
    <3> QED BY <3>1, <3>2, <1>3, <1>4 DEF SameLink
  <2> QED BY <2>1, <2>2
<1>9. OneWinnerPerVersion'
  <2> SUFFICES ASSUME NEW l \in Link, NEW m \in Link, l # m, link'[l].owner = link'[m].owner,
                      link'[l].st = "completed", link'[m].st = "completed",
                      link'[l].act \in {"reset", "email_new"}, link'[m].act \in {"reset", "email_new"}
               PROVE  link'[l].ver # link'[m].ver
    BY DEF OneWinnerPerVersion
  <2>1. \A k \in {l, m} : \/ k \in won /\ link[k].ver = user[u].ver /\ link[k].owner = u
                          \/ k \notin won /\ link[k].st = "completed" /\ link[k].ver < user[link[k].owner].ver
    BY <1>3 DEF RowInv, PendingLinksAreCurrent, Spent, SameLink
  <2>2. \A k \in {l, m} : link[k].ver \in Nat
    BY <1>2 DEF LinkRow
  <2> QED BY <2>1, <2>2, <1>3, <1>4 DEF SameLink, RowInv, OneWinnerPerVersion
<1>10. FirstHalf'
  BY <1>3, <1>4 DEF RowInv, Owned, FirstHalf, SameLink, Exists
<1>11. SecondHalf'
  <2> SUFFICES ASSUME NEW m \in Link, link'[m].st = "pending", link'[m].act = "email_new"
               PROVE  link'[m].box = link'[m].meta /\ \E l \in Link : Authorizes(l, m)'
    BY DEF SecondHalf
  <2>1. link[m].st = "pending" /\ link[m].act = "email_new" /\ link[m].owner \in User \ {u}
    BY <1>3 DEF SameLink, RowInv, Owned, Exists
  <2>2. PICK l \in Link : Authorizes(l, m)
    BY <2>1 DEF RowInv, SecondHalf
  <2>3. link'[l].st = "completed"
    BY <2>2, <1>3 DEF Authorizes
  <2>4. Authorizes(l, m)'
    BY <2>1, <2>2, <2>3, <1>3, <1>4 DEF Authorizes, SameLink
  <2> QED BY <2>1, <2>4, <1>3 DEF RowInv, SecondHalf, SameLink
<1> QED BY <1>1, <1>5, <1>6, <1>7, <1>8, <1>9, <1>10, <1>11 DEF RowInv

(* Deleting accounts takes their links with them.                            *)
LEMMA DeletionKeeps ==
  ASSUME RowInv, NEW gone \in SUBSET User, DeleteUsers(gone)
  PROVE  RowInv'
<1>1. RowTypes'
  BY UserRows, LinkRows DEF DeleteUsers, RowInv, RowTypes
<1>2. /\ \A u \in User \ gone : user'[u] = user[u]
      /\ \A k \in Link : \/ link'[k] = link[k] /\ link[k].owner \notin gone
                         \/ link'[k].st = "deleted" /\ link'[k].owner = NoUser
  BY DEF DeleteUsers, RowInv, RowTypes, UnusedLink
<1>3. Owned'
  BY <1>2 DEF RowInv, Owned, Exists
<1>4. PendingLinksAreCurrent'
  BY <1>2 DEF RowInv, Owned, PendingLinksAreCurrent, Exists
<1>5. OneEmailChange'
  BY <1>2 DEF RowInv, Owned, OneEmailChange, Exists
<1>6. Spent'
  BY <1>2 DEF RowInv, Owned, Spent, Exists
<1>7. OneWinnerPerVersion'
  BY <1>2 DEF RowInv, OneWinnerPerVersion
<1>8. FirstHalf'
  BY <1>2 DEF RowInv, Owned, FirstHalf, Exists
<1>9. SecondHalf'
  <2> SUFFICES ASSUME NEW m \in Link, link'[m].st = "pending", link'[m].act = "email_new"
               PROVE  link'[m].box = link'[m].meta /\ \E l \in Link : Authorizes(l, m)'
    BY DEF SecondHalf
  <2>1. link'[m] = link[m] /\ link[m].owner \in User \ gone
    BY <1>2 DEF RowInv, Owned, Exists
  <2>2. PICK l \in Link : Authorizes(l, m)
    BY <2>1 DEF RowInv, SecondHalf
  <2>3. link'[l] = link[l]
    BY <2>1, <2>2, <1>2 DEF Authorizes, DeleteUsers, RowInv, RowTypes
  <2>4. Authorizes(l, m)'
    BY <2>1, <2>2, <2>3, <1>2 DEF Authorizes
  <2> QED BY <2>1, <2>4 DEF RowInv, SecondHalf
<1> QED BY <1>1, <1>3, <1>4, <1>5, <1>6, <1>7, <1>8, <1>9 DEF RowInv

(* A new account has no links yet.                                           *)
LEMMA CreationKeeps ==
  ASSUME RowInv, NEW u \in User, NEW e \in Email, user[u].st = "unused",
         user' = [user EXCEPT ![u] = Account("unverified", e)], UNCHANGED link
  PROVE  RowInv'
<1>1. RowTypes'
  BY UserRows DEF RowInv, RowTypes
<1>2. \A v \in User \ {u} : user'[v] = user[v]
  BY DEF RowInv, RowTypes
<1>3. \A k \in Link : link'[k] = link[k] /\ (Exists(user, link[k].owner) => link[k].owner \in User \ {u})
  BY DEF Exists
<1>4. Owned'
  BY <1>2, <1>3 DEF RowInv, Owned, Exists
<1>5. PendingLinksAreCurrent'
  BY <1>2, <1>3 DEF RowInv, Owned, PendingLinksAreCurrent, Exists
<1>6. OneEmailChange'
  BY <1>2, <1>3 DEF RowInv, Owned, OneEmailChange
<1>7. Spent'
  BY <1>2, <1>3 DEF RowInv, Owned, Spent
<1>8. OneWinnerPerVersion'
  BY DEF RowInv, OneWinnerPerVersion
<1>9. FirstHalf'
  BY <1>2, <1>3 DEF RowInv, Owned, FirstHalf
<1>10. SecondHalf'
  BY <1>2, <1>3 DEF RowInv, Owned, SecondHalf, Authorizes
<1> QED BY <1>1, <1>4, <1>5, <1>6, <1>7, <1>8, <1>9, <1>10 DEF RowInv

------------------------------------------------------------------------------
(* The actions that change rows.                                             *)

LEMMA RowsStay ==
  ASSUME RowInv, UNCHANGED <<user, link>>
  PROVE  RowInv'
<1>1. RowTypes'
  BY DEF RowInv, RowTypes
<1> QED BY <1>1, LinksEnd DEF SameLink, Exists

LEMMA VerifyEmailKeeps ==
  ASSUME RowInv, NEW l \in Link, VerifyEmail(l)
  PROVE  RowInv'
<1> DEFINE u == link[l].owner
<1>1. u \in User /\ user[u] \in UserRow /\ link[l] \in LinkRow
      /\ link[l].st = "pending" /\ link[l].act = "verify"
  BY DEF RowInv, RowTypes, Owned, Exists, VerifyEmail, Usable
<1>2. user' = [user EXCEPT ![u] = [user[u] EXCEPT !.st = "verified", !.overdue = FALSE]]
  BY <1>1 DEF VerifyEmail, RowInv, RowTypes, UserRow
<1>3. link' = [link EXCEPT ![l] = [link[l] EXCEPT !.st = "completed"]]
  BY DEF VerifyEmail, Consume
<1>4. RowTypes'
  BY <1>1, <1>2, <1>3, UserEdits, LinkEdits DEF RowInv, RowTypes
<1>5. \A v \in User : /\ user'[v].email = user[v].email /\ user'[v].ver = user[v].ver
                      /\ user'[v].pending = user[v].pending
                      /\ Exists(user, v) => Exists(user', v)
  BY <1>1, <1>2 DEF RowInv, RowTypes, UserRow, Exists
<1>6. \A k \in Link : /\ SameLink(k) /\ (link[k].sent => link'[k].sent)
                      /\ link'[k].st = IF k = l THEN "completed" ELSE link[k].st
  BY <1>1, <1>3 DEF RowInv, RowTypes, LinkRow, SameLink
<1> QED BY <1>1, <1>4, <1>5, <1>6, LinksEnd

LEMMA ConsumeKeeps ==
  ASSUME RowInv, NEW l \in Link, link[l].st = "pending", link[l].act \notin {"reset", "email_new"},
         link' = Consume(l), UNCHANGED user
  PROVE  RowInv'
<1>1. link' = [link EXCEPT ![l] = [link[l] EXCEPT !.st = "completed"]]
  BY DEF Consume
<1>2. RowTypes'
  BY <1>1, LinkEdits DEF RowInv, RowTypes
<1>3. \A k \in Link : /\ SameLink(k) /\ (link[k].sent => link'[k].sent)
                      /\ link'[k].st = IF k = l THEN "completed" ELSE link[k].st
  BY <1>1 DEF RowInv, RowTypes, LinkRow, SameLink
<1> QED BY <1>2, <1>3, LinksEnd DEF Exists

LEMMA SendKeeps ==
  ASSUME RowInv, NEW l \in Link, link' = [link EXCEPT ![l].sent = TRUE], UNCHANGED user
  PROVE  RowInv'
<1>1. link' = [link EXCEPT ![l] = [link[l] EXCEPT !.sent = TRUE]]
  OBVIOUS
<1>2. RowTypes'
  BY <1>1, LinkEdits DEF RowInv, RowTypes
<1>3. \A k \in Link : /\ SameLink(k) /\ (link[k].sent => link'[k].sent)
                      /\ link'[k].st = link[k].st
  BY <1>1 DEF RowInv, RowTypes, LinkRow, SameLink
<1> QED BY <1>2, <1>3, LinksEnd DEF Exists

LEMMA LapseKeeps ==
  ASSUME RowInv, NEW l \in Link, Lapse(l)
  PROVE  RowInv'
<1>1. link' = [link EXCEPT ![l] = [link[l] EXCEPT !.lapsed = TRUE]]
  BY DEF Lapse
<1>2. RowTypes'
  BY <1>1, LinkEdits DEF RowInv, RowTypes, Lapse
<1>3. \A k \in Link : /\ SameLink(k) /\ (link[k].sent => link'[k].sent)
                      /\ link'[k].st = link[k].st
  BY <1>1 DEF RowInv, RowTypes, LinkRow, SameLink
<1> QED BY <1>2, <1>3, LinksEnd DEF Exists, Lapse

LEMMA ExpireLapsedKeeps ==
  ASSUME RowInv, NEW act \in Actions, ExpireLapsed(act)
  PROVE  RowInv'
<1>1. \A k \in Link : link[k] \in LinkRow
  BY DEF RowInv, RowTypes
<1>2. \A k \in Link : \/ link'[k] = link[k]
                      \/ link'[k] = [link[k] EXCEPT !.st = "expired"] /\ link[k].st = "pending"
  BY DEF ExpireLapsed
<1>3. RowTypes'
  BY <1>1, <1>2, LinkEdits DEF ExpireLapsed, RowInv, RowTypes
<1>4. \A k \in Link : /\ SameLink(k) /\ (link[k].sent => link'[k].sent)
                      /\ \/ link'[k].st = link[k].st
                         \/ link'[k].st = "expired" /\ link[k].st = "pending"
  <2> SUFFICES ASSUME NEW k \in Link
               PROVE  /\ SameLink(k) /\ (link[k].sent => link'[k].sent)
                      /\ \/ link'[k].st = link[k].st
                         \/ link'[k].st = "expired" /\ link[k].st = "pending"
    OBVIOUS
  <2>1. CASE link'[k] = link[k]
    BY <2>1 DEF SameLink
  <2>2. CASE link'[k] = [link[k] EXCEPT !.st = "expired"] /\ link[k].st = "pending"
    BY <2>2, <1>1 DEF LinkRow, SameLink
  <2> QED BY <2>1, <2>2, <1>2
<1>5. user' = user
  BY DEF ExpireLapsed
<1> QED BY <1>3, <1>4, <1>5, LinksEnd DEF Exists

LEMMA AgeKeeps ==
  ASSUME RowInv, NEW u \in User, Age(u)
  PROVE  RowInv'
<1>1. user' = [user EXCEPT ![u] = [user[u] EXCEPT !.overdue = TRUE]]
  BY DEF Age
<1>2. RowTypes'
  BY <1>1, UserEdits DEF RowInv, RowTypes, Age
<1>3. \A v \in User : /\ user'[v].email = user[v].email /\ user'[v].ver = user[v].ver
                      /\ user'[v].pending = user[v].pending
                      /\ Exists(user, v) => Exists(user', v)
  BY <1>1 DEF RowInv, RowTypes, UserRow, Exists
<1> QED BY <1>2, <1>3, LinksEnd DEF Age, SameLink

LEMMA ResetPasswordKeeps ==
  ASSUME RowInv, NEW l \in Link, ResetPassword(l)
  PROVE  RowInv'
<1> DEFINE u == link[l].owner
<1>1. u \in User /\ Exists(user, u) /\ user[u] \in UserRow
      /\ link[l].st = "pending" /\ link[l].act = "reset"
  BY DEF RowInv, RowTypes, Owned, Exists, ResetPassword, Usable
<1>2. Consume(l) \in [Link -> LinkRow]
  BY LinkEdits DEF Consume, RowInv, RowTypes
<1>3. Consume(l) = [k \in Link |-> IF k \in {l} THEN [link[k] EXCEPT !.st = "completed"] ELSE link[k]]
  BY DEF Consume, RowInv, RowTypes
<1>4. user' = [user EXCEPT ![u] = SetPassword(user[u])] /\ link' = Expire(Consume(l), u, CredentialBound)
  BY DEF ResetPassword
<1> DEFINE row == SetPassword(user[u])
           rows == Consume(l)
           won == {l}
<1>6. row \in UserRow /\ row.ver = user[u].ver + 1 /\ row.st = user[u].st
  BY <1>1, UserEdits
<1>7. /\ won \in SUBSET Link /\ \A k, m \in won : k = m
      /\ \A k \in won : /\ link[k].st = "pending" /\ link[k].owner = u
                        /\ link[k].act \in {"reset", "email_new"}
  BY <1>1
<1>8. /\ rows \in [Link -> LinkRow]
      /\ rows = [k \in Link |-> IF k \in won THEN [link[k] EXCEPT !.st = "completed"] ELSE link[k]]
  BY <1>2, <1>3
<1>9. user' = [user EXCEPT ![u] = row] /\ link' = Expire(rows, u, CredentialBound)
  BY <1>4
<1> HIDE DEF u, row, rows, won
<1> QED BY <1>1, <1>6, <1>7, <1>8, <1>9, CredentialChangeKeeps

LEMMA ConfirmEmailChangeKeeps ==
  ASSUME RowInv, NEW l \in Link, ConfirmEmailChange(l)
  PROVE  RowInv'
<1> DEFINE u == link[l].owner
<1>1. u \in User /\ Exists(user, u) /\ user[u] \in UserRow /\ link[l].meta \in Email
      /\ link[l].st = "pending" /\ link[l].act = "email_new"
  BY DEF RowInv, RowTypes, LinkRow, Owned, Exists, ConfirmEmailChange, Usable, TargetIsPending
<1>2. Consume(l) \in [Link -> LinkRow]
  BY LinkEdits DEF Consume, RowInv, RowTypes
<1>3. Consume(l) = [k \in Link |-> IF k \in {l} THEN [link[k] EXCEPT !.st = "completed"] ELSE link[k]]
  BY DEF Consume, RowInv, RowTypes
<1>4. user' = [user EXCEPT ![u] = SetEmail(user[u], link[l].meta)]
      /\ link' = Expire(Consume(l), u, CredentialBound)
  BY DEF ConfirmEmailChange
<1> DEFINE row == SetEmail(user[u], link[l].meta)
           rows == Consume(l)
           won == {l}
<1>6. row \in UserRow /\ row.ver = user[u].ver + 1 /\ row.st = user[u].st
  BY <1>1, UserEdits
<1>7. /\ won \in SUBSET Link /\ \A k, m \in won : k = m
      /\ \A k \in won : /\ link[k].st = "pending" /\ link[k].owner = u
                        /\ link[k].act \in {"reset", "email_new"}
  BY <1>1
<1>8. /\ rows \in [Link -> LinkRow]
      /\ rows = [k \in Link |-> IF k \in won THEN [link[k] EXCEPT !.st = "completed"] ELSE link[k]]
  BY <1>2, <1>3
<1>9. user' = [user EXCEPT ![u] = row] /\ link' = Expire(rows, u, CredentialBound)
  BY <1>4
<1> HIDE DEF u, row, rows, won
<1> QED BY <1>1, <1>6, <1>7, <1>8, <1>9, CredentialChangeKeeps

LEMMA ChangePasswordKeeps ==
  ASSUME RowInv, CallInv, NEW c \in Call, ChangePassword(c)
  PROVE  RowInv'
<1> DEFINE u == call[c].who
<1>1. u \in User /\ Exists(user, u) /\ user[u] \in UserRow
  BY DEF RowInv, RowTypes, CallInv, CallsInOrder, Ready, ChangePassword
<1>2. link \in [Link -> LinkRow]
      /\ link = [k \in Link |-> IF k \in {} THEN [link[k] EXCEPT !.st = "completed"] ELSE link[k]]
  BY DEF RowInv, RowTypes
<1>3. user' = [user EXCEPT ![u] = SetPassword(user[u])] /\ link' = Expire(link, u, CredentialBound)
  BY DEF ChangePassword
<1> DEFINE row == SetPassword(user[u])
           rows == link
           won == {}
<1>6. row \in UserRow /\ row.ver = user[u].ver + 1 /\ row.st = user[u].st
  BY <1>1, UserEdits
<1>7. /\ won \in SUBSET Link /\ \A k, m \in won : k = m
      /\ \A k \in won : /\ link[k].st = "pending" /\ link[k].owner = u
                        /\ link[k].act \in {"reset", "email_new"}
  BY <1>1
<1>8. /\ rows \in [Link -> LinkRow]
      /\ rows = [k \in Link |-> IF k \in won THEN [link[k] EXCEPT !.st = "completed"] ELSE link[k]]
  BY <1>2
<1>9. user' = [user EXCEPT ![u] = row] /\ link' = Expire(rows, u, CredentialBound)
  BY <1>3
<1> HIDE DEF u, row, rows, won
<1> QED BY <1>1, <1>6, <1>7, <1>8, <1>9, CredentialChangeKeeps

(* A link is issued under the current credentials; one that authorizes a     *)
(* change of address replaces both halves of the change before.              *)
LEMMA IssueKeeps ==
  ASSUME RowInv, CallInv, NEW c \in Call, NEW l \in Link, Issue(c, l)
  PROVE  RowInv'
<1> DEFINE u == call[c].who
           act == call[c].act
           new == NewLink(u, act, call[c].mail, Address(c))
           rows == Expire(link, u, Superseded(act))
<1>1. /\ call[c] \in CallState /\ u \in User /\ Exists(user, u) /\ act \in Actions \ {"email_new"}
      /\ user \in [User -> UserRow] /\ link \in [Link -> LinkRow] /\ user[u] \in UserRow
      /\ link[l].st = "unused"
  BY DEF RowInv, RowTypes, CallInv, CallTypes, CallState, CallsInOrder, Ready, Issue, MayIssue
<1>2. call[c].mail \in Email \cup {NoEmail} /\ Address(c) \in Email \cup {NoEmail} /\ user[u].ver \in Nat
  BY <1>1 DEF CallState, UserRow, Address
<1>3. /\ new \in LinkRow
      /\ new.st = "pending" /\ new.owner = u /\ new.act = act /\ new.meta = call[c].mail
      /\ new.ver = user[u].ver /\ new.box = Address(c)
  <2> HIDE DEF u, act
  <2>1. act \in Actions
    BY <1>1 DEF Actions
  <2> QED BY <1>1, <1>2, <2>1 DEF NewLink, LinkRow
<1>4. rows \in [Link -> LinkRow] /\ \A k \in Link : Expired(link[k], rows[k], u, Superseded(act))
  BY <1>1, ExpireEffect
<1>5. link' = [rows EXCEPT ![l] = new]
  BY DEF Issue
<1>6. user' = IF act = "email_old" THEN [user EXCEPT ![u] = [user[u] EXCEPT !.pending = call[c].mail]]
              ELSE user
  BY DEF Issue
<1>7. [user[u] EXCEPT !.pending = call[c].mail] \in UserRow
  BY <1>1, <1>2 DEF UserRow
<1> HIDE DEF new, rows, u, act
<1>8. RowTypes'
  BY <1>1, <1>3, <1>4, <1>5, <1>6, <1>7 DEF RowTypes
<1>9. /\ \A v \in User : /\ user'[v].email = user[v].email /\ user'[v].ver = user[v].ver
                         /\ Exists(user, v) => Exists(user', v)
                         /\ user'[v].pending = IF act = "email_old" /\ v = u THEN call[c].mail
                                               ELSE user[v].pending
  BY <1>1, <1>6 DEF UserRow, Exists
<1>10. /\ link'[l] = new
       /\ \A k \in Link \ {l} : Expired(link[k], link'[k], u, Superseded(act))
  BY <1>1, <1>3, <1>4, <1>5
<1>11. Owned'
  BY <1>1, <1>3, <1>9, <1>10 DEF RowInv, Owned, Expired, Exists
<1>12. PendingLinksAreCurrent'
  BY <1>1, <1>3, <1>9, <1>10, <1>11 DEF RowInv, Owned, PendingLinksAreCurrent, Expired, Exists
<1>13. OneEmailChange'
  <2>1. CASE act = "email_old"
    <3>1. \A k \in Link \ {l} : (link'[k].st = "pending" /\ link'[k].act \in {"email_old", "email_new"}) =>
             link[k].st = "pending" /\ link'[k].owner # u
      BY <2>1, <1>10 DEF Expired, Superseded
    <3> QED BY <2>1, <3>1, <1>1, <1>3, <1>9, <1>10 DEF RowInv, Owned, OneEmailChange, Expired, Exists
  <2>2. CASE act # "email_old"
    BY <2>2, <1>1, <1>3, <1>9, <1>10 DEF RowInv, Owned, OneEmailChange, Expired, Exists
  <2> QED BY <2>1, <2>2
<1>14. Spent'
  BY <1>1, <1>3, <1>9, <1>10 DEF RowInv, Owned, Spent, Expired, Exists
<1>15. OneWinnerPerVersion'
  BY <1>3, <1>10 DEF RowInv, OneWinnerPerVersion, Expired
<1>16. FirstHalf'
  <2>1. act = "email_old" => new.box = user[u].email
    BY <1>3 DEF Address, u, act
  <2> QED BY <2>1, <1>1, <1>3, <1>9, <1>10 DEF RowInv, Owned, FirstHalf, Expired, Exists
<1>17. SecondHalf'
  <2> SUFFICES ASSUME NEW m \in Link, link'[m].st = "pending", link'[m].act = "email_new"
               PROVE  link'[m].box = link'[m].meta /\ \E k \in Link : Authorizes(k, m)'
    BY DEF SecondHalf
  <2>1. m # l /\ link[m].st = "pending" /\ link[m].act = "email_new" /\ link[m].owner \in User
    BY <1>1, <1>3, <1>10 DEF Expired, RowInv, Owned, Exists
  <2>2. PICK k \in Link : Authorizes(k, m)
    BY <2>1 DEF RowInv, SecondHalf
  <2>3. k # l /\ link'[k].st = "completed"
    BY <2>2, <1>1, <1>10 DEF Authorizes, Expired
  <2>4. Authorizes(k, m)'
    BY <2>1, <2>2, <2>3, <1>9, <1>10 DEF Authorizes, Expired
  <2> QED BY <2>1, <2>4, <1>10 DEF RowInv, SecondHalf, Expired
<1> QED BY <1>8, <1>11, <1>12, <1>13, <1>14, <1>15, <1>16, <1>17 DEF RowInv

(* The first half of a change of address is used up when the second begins.  *)
LEMMA ConfirmOldEmailKeeps ==
  ASSUME RowInv, NEW c \in Call, NEW l \in Link, NEW m \in Link, ConfirmOldEmail(c, l, m)
  PROVE  RowInv'
<1> DEFINE u == link[l].owner
           e == link[l].meta
           new == NewLink(u, "email_new", e, e)
           rows == Expire(Consume(l), u, {"email_old", "email_new"})
<1>1. /\ u \in User /\ Exists(user, u)
      /\ user \in [User -> UserRow] /\ link \in [Link -> LinkRow] /\ user[u] \in UserRow
      /\ link[l].st = "pending" /\ link[l].act = "email_old" /\ link[l].sent /\ link[m].st = "unused"
      /\ user[u].pending = e /\ link[l] \in LinkRow /\ l # m
  BY DEF RowInv, RowTypes, Owned, Exists, ConfirmOldEmail, Usable, TargetIsPending
<1>2. e \in Email \cup {NoEmail} /\ user[u].ver \in Nat
  BY <1>1 DEF LinkRow, UserRow
<1>3. /\ new \in LinkRow
      /\ new.st = "pending" /\ new.owner = u /\ new.act = "email_new" /\ new.meta = e
      /\ new.ver = user[u].ver /\ new.box = e
  <2> HIDE DEF u, e
  <2>1. "email_new" \in Actions
    BY <1>1 DEF Actions
  <2> QED BY <1>1, <1>2, <2>1 DEF NewLink, LinkRow
<1>4. /\ Consume(l) \in [Link -> LinkRow]
      /\ \A k \in Link \ {l} : Consume(l)[k] = link[k]
      /\ Consume(l)[l] = [link[l] EXCEPT !.st = "completed"]
  BY <1>1, LinkEdits DEF Consume
<1>5. rows \in [Link -> LinkRow]
      /\ \A k \in Link : Expired(Consume(l)[k], rows[k], u, {"email_old", "email_new"})
  BY <1>4, ExpireEffect
<1>6. link' = [rows EXCEPT ![m] = new] /\ user' = user
  BY DEF ConfirmOldEmail
<1> HIDE DEF new, rows, u, e
<1>7. RowTypes'
  BY <1>1, <1>3, <1>5, <1>6 DEF RowTypes
<1>8. /\ link'[m] = new
      /\ \A k \in Link \ {l, m} : Expired(link[k], link'[k], u, {"email_old", "email_new"})
  BY <1>1, <1>3, <1>4, <1>5, <1>6
<1>9. SameLink(l) /\ link'[l].st = "completed" /\ link'[l].sent
  <2>1. Expired([link[l] EXCEPT !.st = "completed"], link'[l], u, {"email_old", "email_new"})
    BY <1>1, <1>4, <1>5, <1>6
  <2> QED BY <2>1, <1>1 DEF Expired, SameLink, LinkRow
<1>10. link'[l].act = "email_old" /\ link'[l].owner = u /\ link'[l].meta = e
       /\ link'[l].ver = user[u].ver /\ link'[l].box = user[u].email
  BY <1>1, <1>9 DEF SameLink, RowInv, PendingLinksAreCurrent, FirstHalf, u, e
<1>11. Owned'
  BY <1>1, <1>3, <1>6, <1>8, <1>9, <1>10 DEF RowInv, Owned, Expired, Exists
<1>12. PendingLinksAreCurrent'
  BY <1>1, <1>3, <1>6, <1>8, <1>9 DEF RowInv, Owned, PendingLinksAreCurrent, Expired, Exists
<1>13. OneEmailChange'
  <2>1. \A k \in Link \ {m} : (link'[k].st = "pending" /\ link'[k].act \in {"email_old", "email_new"}) =>
             link[k].st = "pending" /\ link'[k].owner # u /\ k # l
    BY <1>8, <1>9 DEF Expired
  <2> QED BY <2>1, <1>1, <1>3, <1>6, <1>8 DEF RowInv, Owned, OneEmailChange, Expired, Exists
<1>14. Spent'
  BY <1>1, <1>3, <1>6, <1>8, <1>9, <1>10 DEF RowInv, Owned, Spent, Expired, Exists
<1>15. OneWinnerPerVersion'
  BY <1>3, <1>8, <1>9, <1>10 DEF RowInv, OneWinnerPerVersion, Expired
<1>16. FirstHalf'
  BY <1>1, <1>3, <1>6, <1>8, <1>9 DEF RowInv, Owned, FirstHalf, Expired, Exists
<1>17. SecondHalf'
  <2> SUFFICES ASSUME NEW k \in Link, link'[k].st = "pending", link'[k].act = "email_new"
               PROVE  link'[k].box = link'[k].meta /\ \E j \in Link : Authorizes(j, k)'
    BY DEF SecondHalf
  <2>1. CASE k = m
    <3>1. Authorizes(l, m)'
      BY <1>3, <1>6, <1>8, <1>9, <1>10 DEF Authorizes
    <3> QED BY <2>1, <3>1, <1>3, <1>8
  <2>2. CASE k # m
    <3>1. k # l /\ link[k].st = "pending" /\ link[k].act = "email_new" /\ link[k].owner \in User
      BY <2>2, <1>8, <1>9 DEF Expired, RowInv, Owned, Exists
    <3>2. PICK j \in Link : Authorizes(j, k)
      BY <3>1 DEF RowInv, SecondHalf
    <3>3. j \notin {l, m} /\ link'[j].st = "completed"
      BY <3>2, <1>1, <1>8 DEF Authorizes, Expired
    <3>4. Authorizes(j, k)'
      BY <2>2, <3>1, <3>2, <3>3, <1>6, <1>8 DEF Authorizes, Expired
    <3> QED BY <2>2, <3>1, <3>4, <1>8 DEF RowInv, SecondHalf, Expired
  <2> QED BY <2>1, <2>2
<1> QED BY <1>7, <1>11, <1>12, <1>13, <1>14, <1>15, <1>16, <1>17 DEF RowInv

------------------------------------------------------------------------------
(* The requests in flight.                                                   *)

(* A link that was issued never becomes free again.                          *)
LinksStayUsed == \A k \in Link : link[k].st # "unused" => link'[k].st # "unused"

LEMMA CallsStay ==
  ASSUME CallInv, UNCHANGED call, listed' \subseteq User, LinksStayUsed
  PROVE  CallInv'
<1>1. CallTypes'
  BY DEF CallInv, CallTypes
<1>2. ASSUME NEW d \in Call PROVE Ready(call'[d], link')
  BY DEF CallInv, CallsInOrder, Ready, LinksStayUsed
<1> QED BY <1>1, <1>2 DEF CallInv, CallsInOrder

LEMMA CallMoves ==
  ASSUME CallInv, NEW c \in Call, NEW r \in CallState, Ready(r, link'),
         call' = [call EXCEPT ![c] = r], listed' \subseteq User, LinksStayUsed
  PROVE  CallInv'
<1>1. CallTypes'
  BY DEF CallInv, CallTypes
<1>2. call'[c] = r /\ \A d \in Call \ {c} : call'[d] = call[d]
  BY DEF CallInv, CallTypes
<1>3. ASSUME NEW d \in Call PROVE Ready(call'[d], link')
  BY <1>2 DEF CallInv, CallsInOrder, Ready, LinksStayUsed
<1> QED BY <1>1, <1>3 DEF CallInv, CallsInOrder

LEMMA ReplyKeeps ==
  ASSUME CallInv, NEW c \in Call, Reply(c), listed' \subseteq User, LinksStayUsed
  PROVE  CallInv'
<1>1. Idle \in CallState /\ Ready(Idle, link')
  BY UserRows DEF Idle, CallState, Actions, Ready
<1> QED BY <1>1, CallMoves DEF Reply

LEMMA HoldKeeps ==
  ASSUME CallInv, NEW c \in Call, NEW op \in {"send", "reserve"}, NEW l \in Link, Hold(c, op, l),
         link'[l].st # "unused", listed' \subseteq User, LinksStayUsed
  PROVE  CallInv'
<1> DEFINE r == [op |-> op, act |-> "verify", who |-> NoUser, seen |-> UnusedUser,
                 mail |-> NoEmail, lnk |-> l]
<1>1. r \in CallState /\ Ready(r, link')
  BY UserRows DEF CallState, Actions, Ready
<1>2. call' = [call EXCEPT ![c] = r]
  BY DEF Hold
<1> HIDE DEF r
<1> QED BY <1>1, <1>2, CallMoves

LEMMA GotoKeeps ==
  ASSUME IInv, NEW c \in Call, NEW op \in {"purge", "create", "issue", "password"},
         NEW act \in Actions \ {"email_new"}, NEW u \in User \cup {NoUser}, NEW e \in Email \cup {NoEmail},
         op # "create" => u \in User, op \in {"purge", "create"} => e \in Email,
         Goto(c, op, act, u, e), UNCHANGED <<link, listed>>
  PROVE  CallInv'
<1> DEFINE row == IF u \in User THEN user[u] ELSE UnusedUser
           r == [op |-> op, act |-> act, who |-> u, seen |-> row, mail |-> e, lnk |-> NoLink]
<1>1. row \in UserRow
  BY UserRows DEF IInv, RowInv, RowTypes
<1>2. call' = [call EXCEPT ![c] = r]
  BY DEF Goto
<1> HIDE DEF row
<1>3. r \in CallState /\ Ready(r, link')
  BY <1>1 DEF CallState, Ready
<1>4. listed' \subseteq User /\ LinksStayUsed
  BY DEF IInv, CallInv, CallTypes, LinksStayUsed
<1> HIDE DEF r
<1> QED BY <1>2, <1>3, <1>4, CallMoves DEF IInv

LEMMA DeletionKeepsUsed ==
  ASSUME NEW gone \in SUBSET User, DeleteUsers(gone)
  PROVE  LinksStayUsed
BY DEF DeleteUsers, LinksStayUsed, UnusedLink

LEMMA ExpireKeepsUsed ==
  ASSUME NEW rows \in [Link -> LinkRow], NEW u, NEW acts, link' = Expire(rows, u, acts),
         \A k \in Link : link[k].st # "unused" => rows[k].st # "unused"
  PROVE  LinksStayUsed
BY ExpireEffect DEF LinksStayUsed, Expired

LEMMA ConsumeUses ==
  ASSUME RowInv, NEW l \in Link
  PROVE  /\ Consume(l) \in [Link -> LinkRow]
         /\ \A k \in Link : link[k].st # "unused" => Consume(l)[k].st # "unused"
<1>1. [link[l] EXCEPT !.st = "completed"] \in LinkRow /\ [link[l] EXCEPT !.st = "completed"].st = "completed"
  BY LinkEdits DEF RowInv, RowTypes, LinkRow
<1> QED BY <1>1 DEF Consume, RowInv, RowTypes

------------------------------------------------------------------------------
(* The steps.                                                                *)

LEMMA InitKeeps == Init => IInv
<1> SUFFICES ASSUME Init PROVE IInv
  OBVIOUS
<1>1. PICK owner \in [Email -> User \cup {NoUser}] :
        user = [u \in User |-> IF \E e \in Email : owner[e] = u
                               THEN Account("verified", CHOOSE e \in Email : owner[e] = u)
                               ELSE UnusedUser]
  BY DEF Init
<1>2. \A u \in User : (\E e \in Email : owner[e] = u) => (CHOOSE e \in Email : owner[e] = u) \in Email
  OBVIOUS
<1>3. user \in [User -> UserRow]
  BY <1>1, <1>2, UserRows
<1>4. link \in [Link -> LinkRow] /\ \A l \in Link : link[l].st = "unused" /\ link[l].owner = NoUser
  BY LinkRows DEF Init, UnusedLink
<1>5. Idle \in CallState /\ Ready(Idle, link)
  BY UserRows DEF Idle, CallState, Actions, Ready
<1>6. CallInv
  BY <1>5 DEF Init, CallInv, CallTypes, CallsInOrder
<1>7. RowInv
  BY <1>3, <1>4 DEF RowInv, RowTypes, Owned, PendingLinksAreCurrent, OneEmailChange, Spent,
                    OneWinnerPerVersion, FirstHalf, SecondHalf
<1> QED BY <1>6, <1>7 DEF IInv

LEMMA RequestKeeps ==
  ASSUME IInv, NEW c \in Call, Request(c)
  PROVE  IInv'
<1>1. UNCHANGED <<user, link, listed>>
  BY DEF Request, Register, AskPassword, Ask, AskEmailChange
<1>2. RowInv'
  BY <1>1, RowsStay DEF IInv
<1>3. "verify" \in Actions \ {"email_new"} /\ "email_old" \in Actions \ {"email_new"}
  BY DEF Actions
<1>4. CallInv'
  <2>1. ASSUME NEW e \in Email, Register(c, e) PROVE CallInv'
    <3>1. CASE \E u \in User : Goto(c, "purge", "verify", u, e)
      BY <1>1, <1>3, <3>1, GotoKeeps
    <3>2. CASE Goto(c, "create", "verify", NoUser, e)
      BY <1>1, <1>3, <3>2, GotoKeeps
    <3> QED BY <2>1, <3>1, <3>2 DEF Register
  <2>2. ASSUME NEW u \in User, AskPassword(c, u) PROVE CallInv'
    BY <1>1, <1>3, <2>2, GotoKeeps DEF AskPassword
  <2>3. ASSUME NEW u \in User, NEW act \in Actions, Ask(c, u, act) PROVE CallInv'
    <3>1. act \in Actions \ {"email_new"}
      BY <2>3 DEF Ask
    <3> QED BY <1>1, <2>3, <3>1, GotoKeeps DEF Ask
  <2>4. ASSUME NEW u \in User, NEW e \in Email, AskEmailChange(c, u, e) PROVE CallInv'
    BY <1>1, <1>3, <2>4, GotoKeeps DEF AskEmailChange
  <2> QED BY <2>1, <2>2, <2>3, <2>4 DEF Request
<1> QED BY <1>2, <1>4 DEF IInv

LEMMA ContinueKeeps ==
  ASSUME IInv, NEW c \in Call, Continue(c)
  PROVE  IInv'
<1>0. /\ RowInv /\ CallInv /\ call[c] \in CallState /\ Ready(call[c], link)
      /\ listed \subseteq User /\ link \in [Link -> LinkRow] /\ user \in [User -> UserRow]
  BY DEF IInv, RowInv, RowTypes, CallInv, CallTypes, CallsInOrder
<1>1. ASSUME Purge(c) PROVE IInv'
  <2> DEFINE gone == {call[c].who} \cap {u \in User : Exists(user, u)}
             r == [call[c] EXCEPT !.op = "create"]
  <2>1. gone \in SUBSET User /\ DeleteUsers(gone) /\ call' = [call EXCEPT ![c] = r] /\ listed' = listed
    BY <1>1 DEF Purge
  <2>2. r \in CallState /\ Ready(r, link')
    BY <1>0, <1>1 DEF CallState, Ready, Purge
  <2> HIDE DEF gone, r
  <2> QED BY <1>0, <2>1, <2>2, DeletionKeeps, DeletionKeepsUsed, CallMoves DEF IInv
<1>2. ASSUME CreateTaken(c) \/ IssueRefused(c) \/ ChangeRefused(c) \/ Drop(c) PROVE IInv'
  <2>1. Reply(c) /\ UNCHANGED <<user, link, listed>>
    BY <1>2 DEF CreateTaken, IssueRefused, ChangeRefused, Drop
  <2> QED BY <1>0, <2>1, RowsStay, ReplyKeeps DEF IInv, LinksStayUsed
<1>3. ASSUME NEW u \in User, Create(c, u) PROVE IInv'
  <2> DEFINE new == Account("unverified", call[c].mail)
             r == [op |-> "issue", act |-> "verify", who |-> u, seen |-> new,
                   mail |-> NoEmail, lnk |-> NoLink]
  <2>1. call[c].mail \in Email /\ new \in UserRow
    BY <1>0, <1>3, UserRows DEF Create, Ready
  <2>2. /\ user[u].st = "unused" /\ user' = [user EXCEPT ![u] = new]
        /\ UNCHANGED <<link, listed>>
    BY <1>3 DEF Create
  <2>3. user'[u] = new
    BY <1>0, <2>2
  <2>4. call' = [call EXCEPT ![c] = r]
    BY <1>3, <2>3 DEF Create
  <2> HIDE DEF new
  <2>5. r \in CallState /\ Ready(r, link')
    BY <2>1 DEF CallState, Actions, Ready
  <2> HIDE DEF r
  <2>6. CallInv'
    BY <1>0, <2>2, <2>4, <2>5, CallMoves DEF LinksStayUsed
  <2>7. RowInv'
    BY <1>0, <2>1, <2>2, CreationKeeps DEF new
  <2> QED BY <2>6, <2>7 DEF IInv
<1>4. ASSUME NEW l \in Link, Issue(c, l) PROVE IInv'
  <2>1. RowInv'
    BY <1>0, <1>4, IssueKeeps
  <2>2. \A k \in Link : link[k].st # "unused" => Expire(link, call[c].who, Superseded(call[c].act))[k].st # "unused"
    BY <1>0, ExpireEffect DEF Expired
  <2>3. LinksStayUsed /\ link'[l].st # "unused"
    <3> DEFINE rows == Expire(link, call[c].who, Superseded(call[c].act))
               new == NewLink(call[c].who, call[c].act, call[c].mail, Address(c))
    <3>1. rows \in [Link -> LinkRow]
      BY <1>0, ExpireEffect
    <3>2. link' = [rows EXCEPT ![l] = new]
      BY <1>4 DEF Issue
    <3>3. new.st = "pending"
      BY DEF NewLink
    <3>4. \A k \in Link : link[k].st # "unused" => rows[k].st # "unused"
      BY <2>2
    <3> HIDE DEF rows, new
    <3> QED BY <3>1, <3>2, <3>3, <3>4 DEF LinksStayUsed
  <2>4. Hold(c, "send", l) /\ listed' = listed
    BY <1>4 DEF Issue
  <2> QED BY <1>0, <2>1, <2>3, <2>4, HoldKeeps DEF IInv
<1>5. ASSUME ReserveRecovery(c) PROVE IInv'
  <2>1. call[c].lnk \in Link /\ Reply(c) /\ UNCHANGED <<user, listed>>
    BY <1>0, <1>5 DEF ReserveRecovery, Ready
  <2>2. CASE UNCHANGED link
    BY <1>0, <2>1, <2>2, RowsStay, ReplyKeeps DEF IInv, LinksStayUsed
  <2>3. CASE Reservable(call[c].lnk) /\ link' = Consume(call[c].lnk)
    <3>1. LinksStayUsed
      BY <1>0, <2>1, <2>3, ConsumeUses DEF LinksStayUsed
    <3>2. CallInv'
      BY <1>0, <2>1, <3>1, ReplyKeeps
    <3>3. link[call[c].lnk].act = "recover"
      BY <2>3 DEF Reservable
    <3> QED BY <1>0, <2>1, <2>3, <3>2, <3>3, ConsumeKeeps DEF IInv, Reservable
  <2> QED BY <1>5, <2>2, <2>3 DEF ReserveRecovery
<1>6. ASSUME ChangePassword(c) PROVE IInv'
  <2>1. RowInv'
    BY <1>0, <1>6, ChangePasswordKeeps
  <2>2. LinksStayUsed
    BY <1>0, <1>6, ExpireKeepsUsed DEF ChangePassword
  <2> QED BY <1>0, <1>6, <2>1, <2>2, ReplyKeeps DEF IInv, ChangePassword
<1>7. ASSUME Send(c) PROVE IInv'
  <2>1. /\ call[c].lnk \in Link /\ link' = [link EXCEPT ![call[c].lnk].sent = TRUE]
        /\ Reply(c) /\ UNCHANGED <<user, listed>>
    BY <1>0, <1>7 DEF Send, Ready
  <2>2. LinksStayUsed
    BY <1>0, <2>1 DEF LinksStayUsed, LinkRow
  <2> QED BY <1>0, <2>1, <2>2, SendKeeps, ReplyKeeps DEF IInv
<1> QED BY <1>1, <1>2, <1>3, <1>4, <1>5, <1>6, <1>7 DEF Continue

LEMMA UseLinkKeeps ==
  ASSUME IInv, UseLink
  PROVE  IInv'
<1>0. RowInv /\ CallInv /\ listed \subseteq User /\ link \in [Link -> LinkRow]
  BY DEF IInv, RowInv, RowTypes, CallInv, CallTypes
<1>1. ASSUME NEW l \in Link, VerifyEmail(l) PROVE IInv'
  <2>1. LinksStayUsed
    BY <1>0, <1>1, ConsumeUses DEF VerifyEmail, LinksStayUsed
  <2> QED BY <1>0, <1>1, <2>1, VerifyEmailKeeps, CallsStay DEF IInv, VerifyEmail
<1>2. ASSUME NEW l \in Link, ResetPassword(l) PROVE IInv'
  <2>1. LinksStayUsed
    BY <1>0, <1>2, ConsumeUses, ExpireKeepsUsed DEF ResetPassword
  <2> QED BY <1>0, <1>2, <2>1, ResetPasswordKeeps, CallsStay DEF IInv, ResetPassword
<1>3. ASSUME NEW l \in Link, ConfirmEmailChange(l) PROVE IInv'
  <2>1. LinksStayUsed
    BY <1>0, <1>3, ConsumeUses, ExpireKeepsUsed DEF ConfirmEmailChange
  <2> QED BY <1>0, <1>3, <2>1, ConfirmEmailChangeKeeps, CallsStay DEF IInv, ConfirmEmailChange
<1>4. ASSUME NEW l \in Link, UseBackupGrant(l) PROVE IInv'
  <2>1. LinksStayUsed
    BY <1>0, <1>4, ConsumeUses DEF UseBackupGrant, LinksStayUsed
  <2> QED BY <1>0, <1>4, <2>1, ConsumeKeeps, CallsStay DEF IInv, UseBackupGrant, Usable
<1>5. ASSUME NEW l \in Link, ConfirmDeletion(l) PROVE IInv'
  <2>1. {link[l].owner} \in SUBSET User
    BY <1>0, <1>5 DEF ConfirmDeletion, Usable, RowInv, Owned, Exists
  <2> QED BY <1>0, <1>5, <2>1, DeletionKeeps, DeletionKeepsUsed, CallsStay DEF IInv, ConfirmDeletion
<1>6. ASSUME NEW c \in Call, NEW l \in Link, NEW m \in Link, ConfirmOldEmail(c, l, m) PROVE IInv'
  <2> DEFINE u == link[l].owner
             rows == Expire(Consume(l), u, {"email_old", "email_new"})
             new == NewLink(u, "email_new", link[l].meta, link[l].meta)
  <2>1. RowInv'
    BY <1>0, <1>6, ConfirmOldEmailKeeps
  <2>2. rows \in [Link -> LinkRow] /\ \A k \in Link : link[k].st # "unused" => rows[k].st # "unused"
    BY <1>0, ConsumeUses, ExpireEffect DEF Expired
  <2>3. link' = [rows EXCEPT ![m] = new] /\ Hold(c, "send", m) /\ listed' = listed
    BY <1>6 DEF ConfirmOldEmail
  <2>4. new.st = "pending"
    BY DEF NewLink
  <2> HIDE DEF rows, new
  <2>5. LinksStayUsed /\ link'[m].st # "unused"
    BY <2>2, <2>3, <2>4 DEF LinksStayUsed
  <2> QED BY <1>0, <2>1, <2>3, <2>5, HoldKeeps DEF IInv
<1>7. ASSUME NEW c \in Call, NEW l \in Link, VerifyRecovery(c, l) PROVE IInv'
  <2>1. Hold(c, "reserve", l) /\ UNCHANGED <<user, link, listed>> /\ link[l].st = "pending"
    BY <1>7 DEF VerifyRecovery, Usable
  <2> QED BY <1>0, <2>1, RowsStay, HoldKeeps DEF IInv, LinksStayUsed
<1> QED BY <1>1, <1>2, <1>3, <1>4, <1>5, <1>6, <1>7 DEF UseLink

LEMMA NextKeeps == IInv /\ [Next]_vars => IInv'
<1> SUFFICES ASSUME IInv, [Next]_vars PROVE IInv'
  OBVIOUS
<1>0. RowInv /\ CallInv /\ listed \subseteq User /\ link \in [Link -> LinkRow]
  BY DEF IInv, RowInv, RowTypes, CallInv, CallTypes
<1>1. ASSUME NEW c \in Call, Request(c) \/ Continue(c) PROVE IInv'
  BY <1>1, RequestKeeps, ContinueKeeps
<1>2. CASE UseLink
  BY <1>2, UseLinkKeeps
<1>3. ASSUME NEW act \in Actions, ExpireLapsed(act) PROVE IInv'
  <2>1. LinksStayUsed
    BY <1>0, <1>3 DEF ExpireLapsed, LinksStayUsed, LinkRow
  <2> QED BY <1>0, <1>3, <2>1, ExpireLapsedKeeps, CallsStay DEF IInv, ExpireLapsed
<1>4. CASE ListOverdue
  <2>1. UNCHANGED <<user, link, call>> /\ listed' \subseteq User
    BY <1>4 DEF ListOverdue, Overdue
  <2> QED BY <1>0, <2>1, RowsStay, CallsStay DEF IInv, LinksStayUsed
<1>5. CASE DeleteListed
  <2>1. listed \in SUBSET User /\ listed' \subseteq User /\ UNCHANGED call
    BY <1>0, <1>5 DEF DeleteListed
  <2>2. CASE DeleteUsers(listed)
    BY <1>0, <2>1, <2>2, DeletionKeeps, DeletionKeepsUsed, CallsStay DEF IInv
  <2>3. CASE UNCHANGED <<user, link>>
    BY <1>0, <2>1, <2>3, RowsStay, CallsStay DEF IInv, LinksStayUsed
  <2> QED BY <1>5, <2>2, <2>3 DEF DeleteListed
<1>6. ASSUME NEW u \in User, Age(u) PROVE IInv'
  BY <1>0, <1>6, AgeKeeps, CallsStay DEF IInv, Age, LinksStayUsed
<1>7. ASSUME NEW l \in Link, Lapse(l) PROVE IInv'
  <2>1. LinksStayUsed
    BY <1>0, <1>7 DEF Lapse, LinksStayUsed, LinkRow
  <2> QED BY <1>0, <1>7, <2>1, LapseKeeps, CallsStay DEF IInv, Lapse
<1>8. CASE UNCHANGED vars
  BY <1>0, <1>8, RowsStay, CallsStay DEF IInv, vars, LinksStayUsed
<1> QED BY <1>1, <1>2, <1>3, <1>4, <1>5, <1>6, <1>7, <1>8 DEF Next

------------------------------------------------------------------------------
(* The theorems.                                                             *)

(* Types, ownership, credentials, single winners and both halves of a change *)
(* of address, together, hold in every reachable state.                      *)
THEOREM InductiveInvariant == Spec => []IInv
<1> QED BY InitKeeps, NextKeeps, PTL DEF Spec

(* Rows and requests have their types.                                       *)
THEOREM TypeCorrect == Spec => []TypeOK
<1>1. IInv => TypeOK
  BY DEF IInv, RowInv, RowTypes, CallInv, CallTypes, TypeOK
<1> QED BY <1>1, InductiveInvariant, PTL

(* No link outlives its account, or the credentials it was issued under.     *)
THEOREM LinksCurrent == Spec => []PendingLinksAreCurrent
<1>1. IInv => PendingLinksAreCurrent
  BY DEF IInv, RowInv
<1> QED BY <1>1, InductiveInvariant, PTL

(* An account never has two halves of changes of address pending.            *)
THEOREM OneChangeAtATime == Spec => []OneEmailChange
<1>1. IInv => OneEmailChange
  BY DEF IInv, RowInv
<1> QED BY <1>1, InductiveInvariant, PTL

(* Two links never both change the same credentials.                         *)
THEOREM OneWinner == Spec => []OneWinnerPerVersion
<1>1. IInv => OneWinnerPerVersion
  BY DEF IInv, RowInv
<1> QED BY <1>1, InductiveInvariant, PTL

(* A completed link was pending, and a pending one is current.               *)
THEOREM UseIsCurrent == Spec => LinksActUnderTheirCredentials
<1> DEFINE Acts == \A l \in Link :
             (link[l].st # "completed" /\ link'[l].st = "completed" /\ link[l].act # "verify")
               => link[l].ver = user[link[l].owner].ver
<1>1. IInv /\ [Next]_vars => [Acts]_vars
  <2> SUFFICES ASSUME IInv, Next, NEW l \in Link, link[l].st # "completed",
                      link'[l].st = "completed", link[l].act # "verify"
               PROVE  link[l].ver = user[link[l].owner].ver
    OBVIOUS
  <2>0. link \in [Link -> LinkRow] /\ CallInv
    BY DEF IInv, RowInv, RowTypes
  <2>1. link[l].st = "pending"
    <3>1. ASSUME NEW c \in Call, Continue(c) PROVE link[l].st = "pending"
      <4>1. CASE Purge(c)
        BY <4>1, <2>0 DEF Purge, DeleteUsers, UnusedLink
      <4>2. CASE \E k \in Link : Issue(c, k)
        <5>1. PICK k \in Link : Issue(c, k)
          BY <4>2
        <5>2. link' = [Expire(link, call[c].who, Superseded(call[c].act)) EXCEPT
                         ![k] = NewLink(call[c].who, call[c].act, call[c].mail, Address(c))]
          BY <5>1 DEF Issue
        <5>3. Expired(link[l], Expire(link, call[c].who, Superseded(call[c].act))[l],
                      call[c].who, Superseded(call[c].act))
          BY <2>0, ExpireEffect
        <5>4. Expire(link, call[c].who, Superseded(call[c].act)) \in [Link -> LinkRow]
          BY <2>0, ExpireEffect
        <5>5. NewLink(call[c].who, call[c].act, call[c].mail, Address(c)).st = "pending"
          BY DEF NewLink
        <5> QED BY <5>2, <5>3, <5>4, <5>5 DEF Expired
      <4>3. CASE ReserveRecovery(c)
        BY <4>3, <2>0 DEF ReserveRecovery, Reservable, Consume
      <4>4. CASE ChangePassword(c)
        BY <4>4, <2>0, ExpireEffect DEF ChangePassword, Expired
      <4>5. CASE Send(c)
        BY <4>5, <2>0 DEF Send, LinkRow
      <4>6. CASE CreateTaken(c) \/ IssueRefused(c) \/ ChangeRefused(c) \/ Drop(c) \/ \E u \in User : Create(c, u)
        BY <4>6 DEF CreateTaken, IssueRefused, ChangeRefused, Drop, Create
      <4> QED BY <3>1, <4>1, <4>2, <4>3, <4>4, <4>5, <4>6 DEF Continue
    <3>2. ASSUME UseLink PROVE link[l].st = "pending"
      <4>1. ASSUME NEW k \in Link, VerifyEmail(k) \/ UseBackupGrant(k) PROVE link[l].st = "pending"
        BY <4>1, <2>0 DEF VerifyEmail, UseBackupGrant, Consume, Usable
      <4>2. ASSUME NEW k \in Link, link[k].st = "pending", NEW rows, rows = Consume(k)
            PROVE  rows \in [Link -> LinkRow] /\ (link[l].st = "pending" \/ rows[l] = link[l])
        BY <2>0, <4>2, ConsumeUses DEF Consume, IInv
      <4>3. ASSUME NEW k \in Link, NEW u, NEW acts, link[k].st = "pending",
                   link' = Expire(Consume(k), u, acts)
            PROVE  link[l].st = "pending"
        BY <4>2, <4>3, ExpireEffect DEF Expired
      <4>4. ASSUME NEW k \in Link, ResetPassword(k) PROVE link[l].st = "pending"
        BY <4>3, <4>4 DEF ResetPassword, Usable
      <4>5. ASSUME NEW k \in Link, ConfirmEmailChange(k) PROVE link[l].st = "pending"
        BY <4>3, <4>5 DEF ConfirmEmailChange, Usable
      <4>6. ASSUME NEW k \in Link, ConfirmDeletion(k) PROVE link[l].st = "pending"
        BY <4>6, <2>0 DEF ConfirmDeletion, DeleteUsers, UnusedLink
      <4>7. ASSUME NEW c \in Call, NEW k \in Link, NEW m \in Link, ConfirmOldEmail(c, k, m)
            PROVE  link[l].st = "pending"
        <5> DEFINE rows == Expire(Consume(k), link[k].owner, {"email_old", "email_new"})
                   new == NewLink(link[k].owner, "email_new", link[k].meta, link[k].meta)
        <5>1. link[k].st = "pending" /\ link' = [rows EXCEPT ![m] = new]
          BY <4>7 DEF ConfirmOldEmail, Usable
        <5>2. new.st = "pending"
          BY DEF NewLink
        <5>3. /\ rows \in [Link -> LinkRow]
              /\ Expired(Consume(k)[l], rows[l], link[k].owner, {"email_old", "email_new"})
          BY <5>1, <4>2, ExpireEffect
        <5> HIDE DEF rows, new
        <5>4. rows[l].st = "completed"
          BY <5>1, <5>2, <5>3
        <5>5. Consume(k)[l].st = "completed"
          BY <5>3, <5>4 DEF Expired
        <5> QED BY <5>1, <5>5, <4>2
      <4>8. ASSUME NEW c \in Call, NEW k \in Link, VerifyRecovery(c, k) PROVE link[l].st = "pending"
        BY <4>8 DEF VerifyRecovery
      <4> QED BY <3>2, <4>1, <4>4, <4>5, <4>6, <4>7, <4>8 DEF UseLink
    <3>3. ASSUME NEW c \in Call, Request(c) PROVE link[l].st = "pending"
      BY <3>3 DEF Request, Register, AskPassword, Ask, AskEmailChange
    <3>4. ASSUME NEW act \in Actions, ExpireLapsed(act) PROVE link[l].st = "pending"
      BY <3>4, <2>0 DEF ExpireLapsed, LinkRow
    <3>5. CASE ListOverdue
      BY <3>5 DEF ListOverdue
    <3>6. CASE DeleteListed
      BY <3>6, <2>0 DEF DeleteListed, DeleteUsers, UnusedLink
    <3>7. ASSUME NEW u \in User, Age(u) PROVE link[l].st = "pending"
      BY <3>7 DEF Age
    <3>8. ASSUME NEW k \in Link, Lapse(k) PROVE link[l].st = "pending"
      BY <3>8, <2>0 DEF Lapse, LinkRow
    <3> QED BY <3>1, <3>2, <3>3, <3>4, <3>5, <3>6, <3>7, <3>8 DEF Next
  <2> QED BY <2>1 DEF IInv, RowInv, PendingLinksAreCurrent
<1> QED BY <1>1, InductiveInvariant, PTL DEF Spec, LinksActUnderTheirCredentials

(* The only step that gives an account another address uses its second link, *)
(* which rests on the first.                                                 *)
THEOREM BothOwnersAgree == Spec => AddressChangesByBothOwners
<1> DEFINE Agreed == \A u \in User :
             (Exists(user, u) /\ Exists(user', u) /\ user'[u].email # user[u].email) =>
               \E l, m \in Link :
                 /\ link[l].act = "email_old" /\ link[l].st = "completed" /\ link[l].sent
                 /\ link[m].act = "email_new" /\ link'[m].st = "completed" /\ link[m].sent
                 /\ link[l].owner = u /\ link[l].ver = user[u].ver /\ link[l].box = user[u].email
                 /\ link[m].owner = u /\ link[m].ver = user[u].ver /\ link[m].box = user'[u].email
                 /\ link[l].meta = user'[u].email
<1>1. IInv /\ [Next]_vars => [Agreed]_vars
  <2> SUFFICES ASSUME IInv, Next, NEW u \in User, Exists(user, u), Exists(user', u),
                      user'[u].email # user[u].email
               PROVE  \E l, m \in Link :
                 /\ link[l].act = "email_old" /\ link[l].st = "completed" /\ link[l].sent
                 /\ link[m].act = "email_new" /\ link'[m].st = "completed" /\ link[m].sent
                 /\ link[l].owner = u /\ link[l].ver = user[u].ver /\ link[l].box = user[u].email
                 /\ link[m].owner = u /\ link[m].ver = user[u].ver /\ link[m].box = user'[u].email
                 /\ link[l].meta = user'[u].email
    OBVIOUS
  <2>0. user \in [User -> UserRow] /\ link \in [Link -> LinkRow]
    BY DEF IInv, RowInv, RowTypes
  <2>1. \E m \in Link : ConfirmEmailChange(m) /\ link[m].owner = u
    <3>1. ASSUME NEW gone \in SUBSET User, DeleteUsers(gone) PROVE FALSE
      BY <3>1, <2>0 DEF DeleteUsers, Exists, UnusedUser
    <3>2. ASSUME UNCHANGED user PROVE FALSE
      BY <3>2
    <3>3. ASSUME NEW v, user' = [user EXCEPT ![v] = SetPassword(@)] PROVE FALSE
      BY <3>3, <2>0 DEF SetPassword, UserRow
    <3>4. ASSUME NEW c \in Call, Continue(c) PROVE FALSE
      <4>1. CASE Purge(c)
        BY <4>1, <3>1 DEF Purge
      <4>2. CASE \E v \in User : Create(c, v)
        BY <4>2, <2>0 DEF Create, Account, Exists
      <4>3. CASE \E k \in Link : Issue(c, k)
        BY <4>3, <2>0 DEF Issue, UserRow
      <4>4. CASE ChangePassword(c)
        BY <4>4, <3>3 DEF ChangePassword
      <4>5. CASE CreateTaken(c) \/ IssueRefused(c) \/ ReserveRecovery(c) \/ ChangeRefused(c) \/ Send(c) \/ Drop(c)
        BY <4>5, <3>2 DEF CreateTaken, IssueRefused, ReserveRecovery, ChangeRefused, Send, Drop
      <4> QED BY <3>4, <4>1, <4>2, <4>3, <4>4, <4>5 DEF Continue
    <3>5. ASSUME UseLink PROVE \E m \in Link : ConfirmEmailChange(m) /\ link[m].owner = u
      <4>1. ASSUME NEW k \in Link, VerifyEmail(k) PROVE FALSE
        BY <4>1, <2>0 DEF VerifyEmail, UserRow
      <4>2. ASSUME NEW k \in Link, ResetPassword(k) PROVE FALSE
        BY <4>2, <3>3 DEF ResetPassword
      <4>3. ASSUME NEW k \in Link, ConfirmEmailChange(k) PROVE link[k].owner = u
        BY <4>3, <2>0 DEF ConfirmEmailChange
      <4>4. ASSUME NEW k \in Link, UseBackupGrant(k) PROVE FALSE
        BY <4>4, <3>2 DEF UseBackupGrant
      <4>5. ASSUME NEW k \in Link, ConfirmDeletion(k) PROVE FALSE
        <5>1. {link[k].owner} \in SUBSET User
          BY <4>5 DEF ConfirmDeletion, Usable, IInv, RowInv, Owned, Exists
        <5> QED BY <4>5, <5>1, <3>1 DEF ConfirmDeletion
      <4>6. ASSUME NEW c \in Call, NEW k \in Link, NEW m \in Link, ConfirmOldEmail(c, k, m) PROVE FALSE
        BY <4>6, <3>2 DEF ConfirmOldEmail
      <4>7. ASSUME NEW c \in Call, NEW k \in Link, VerifyRecovery(c, k) PROVE FALSE
        BY <4>7, <3>2 DEF VerifyRecovery
      <4> QED BY <3>5, <4>1, <4>2, <4>3, <4>4, <4>5, <4>6, <4>7 DEF UseLink
    <3>6. ASSUME NEW c \in Call, Request(c) PROVE FALSE
      BY <3>6, <3>2 DEF Request, Register, AskPassword, Ask, AskEmailChange
    <3>7. ASSUME NEW act \in Actions, ExpireLapsed(act) PROVE FALSE
      BY <3>7, <3>2 DEF ExpireLapsed
    <3>8. ASSUME ListOverdue PROVE FALSE
      BY <3>8, <3>2 DEF ListOverdue
    <3>9. ASSUME DeleteListed PROVE FALSE
      <4>1. listed \in SUBSET User
        BY DEF IInv, CallInv, CallTypes
      <4> QED BY <3>9, <4>1, <3>1, <3>2 DEF DeleteListed
    <3>10. ASSUME NEW v \in User, Age(v) PROVE FALSE
      BY <3>10, <2>0 DEF Age, UserRow
    <3>11. ASSUME NEW k \in Link, Lapse(k) PROVE FALSE
      BY <3>11, <3>2 DEF Lapse
    <3> QED BY <3>4, <3>5, <3>6, <3>7, <3>8, <3>9, <3>10, <3>11 DEF Next
  <2>2. PICK m \in Link : ConfirmEmailChange(m) /\ link[m].owner = u
    BY <2>1
  <2>3. link[m].st = "pending" /\ link[m].act = "email_new" /\ link[m].sent
    BY <2>2 DEF ConfirmEmailChange, Usable
  <2>4. PICK l \in Link : Authorizes(l, m)
    BY <2>3 DEF IInv, RowInv, SecondHalf
  <2>5. link[m].box = link[m].meta /\ link[m].ver = user[u].ver
    BY <2>2, <2>3 DEF IInv, RowInv, SecondHalf, PendingLinksAreCurrent
  <2>6. user'[u].email = link[m].meta
    BY <2>0, <2>2 DEF ConfirmEmailChange, SetEmail, UserRow
  <2>7. link'[m].st = "completed"
    <3>1. Consume(m) \in [Link -> LinkRow] /\ Consume(m)[m].st = "completed"
      BY <2>0, ConsumeUses DEF Consume, LinkRow, IInv
    <3>2. Expired(Consume(m)[m], link'[m], u, CredentialBound)
      BY <2>2, <3>1, ExpireEffect DEF ConfirmEmailChange
    <3> QED BY <3>1, <3>2 DEF Expired
  <2> QED BY <2>2, <2>3, <2>4, <2>5, <2>6, <2>7 DEF Authorizes
<1> QED BY <1>1, InductiveInvariant, PTL DEF Spec, AddressChangesByBothOwners
=============================================================================
