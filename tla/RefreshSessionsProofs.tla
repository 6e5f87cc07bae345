------------------------ MODULE RefreshSessionsProofs ------------------------
(***************************************************************************)
(* Proofs about RefreshSessions for every set of sessions, tokens and      *)
(* calls and every duration.  The inductive invariant adds to the checked  *)
(* invariants what they need: stored tokens belong to existing sessions,   *)
(* unused tokens are unknown to everybody, and the clock a call has read   *)
(* is recent enough for the grace of its token's predecessor.              *)
(***************************************************************************)
EXTENDS RefreshSessions, FiniteSetTheorems, WellFoundedInduction, TLAPS

StoredHasRow == \A t \in Token : Stored(t) => token[t].sid \in Rows

UnusedIsUnknown ==
  /\ \A t \in known : token[t].st # "unused"
  /\ \A c \in Call : call[c].tok \in Token => token[call[c].tok].st # "unused"

\* A call that carries a token carries a real one.
CallsCarryTokens ==
  \A c \in Call : call[c].ph \in {"created", "refresh", "replied"} => call[c].tok \in Token

\* No call has read a future clock, and a call that presents a token read the
\* clock after the predecessor of that token was consumed.
ClocksRead ==
  /\ \A c \in Call : call[c].now <= clock
  /\ \A t \in Token : token[t].st = "consumed" => token[t].retry <= clock + RetryGrace
  /\ \A c \in Call, t \in Token :
       (call[c].ph = "refresh" /\ token[t].st = "consumed" /\ token[t].next = call[c].tok)
         => token[t].retry <= call[c].now + RetryGrace

IInv == /\ TypeOK
        /\ StoredHasRow /\ UnusedIsUnknown /\ CallsCarryTokens /\ ClocksRead
        /\ OneActiveGeneration /\ ConsumedHasSuccessor /\ GraceNeverShrinks
        /\ NoLiveSessionWithOldCredentials /\ ExpiryWithinSession /\ SuccessorOutlivesGrace
------------------------------------------------------------------------------
LEMMA InitEstablishes == Init => IInv
<1> SUFFICES ASSUME Init PROVE IInv
  OBVIOUS
<1>1. TypeOK
  BY DEF Init, TypeOK, SessionRow, TokenRow, CallState, Idle, Request,
         UnusedSession, UnusedToken, Reasons
<1>2. \A t \in Token : token[t].st = "unused"
  BY DEF Init, UnusedToken
<1>3. StoredHasRow /\ OneActiveGeneration /\ ConsumedHasSuccessor /\ GraceNeverShrinks
      /\ ExpiryWithinSession /\ SuccessorOutlivesGrace
  BY <1>2 DEF StoredHasRow, OneActiveGeneration, ConsumedHasSuccessor, GraceNeverShrinks,
              ExpiryWithinSession, SuccessorOutlivesGrace, Stored
<1>4. UnusedIsUnknown /\ CallsCarryTokens
  BY NamesApart DEF Init, UnusedIsUnknown, CallsCarryTokens, Idle, Request
<1>5. ClocksRead
  BY <1>2 DEF Init, ClocksRead, Idle, Request
<1>6. NoLiveSessionWithOldCredentials
  BY DEF Init, NoLiveSessionWithOldCredentials, UnusedSession
<1> QED
  BY <1>1, <1>3, <1>4, <1>5, <1>6 DEF IInv

\* What the rows of a session and of a stored token look like.
LEMMA FamilyRowTyped ==
  ASSUME IInv, NEW t \in Token, Stored(t)
  PROVE  /\ token[t].sid \in Session
         /\ session[token[t].sid] \in SessionRow
         /\ token[t] \in TokenRow
BY DEF IInv, TypeOK, StoredHasRow, Rows

\* A step that leaves every token alone, and weakens sessions at most by
\* revoking live ones, preserves the invariant when the record it gives to a
\* call is well formed and no live session is left behind by the users row.
LEMMA TokensKept ==
  ASSUME IInv,
         clock' \in Nat, clock <= clock',
         user' \in [st : {"active", "deleted"}, pv : Nat],
         token' = token,
         session' \in [Session -> SessionRow],
         \A s \in Session : /\ session'[s].abs = session[s].abs
                            /\ session'[s].pv = session[s].pv
                            /\ \/ session'[s].st = session[s].st
                               \/ session[s].st = "live" /\ session'[s].st = "revoked",
         NoLiveSessionWithOldCredentials',
         known' \subseteq Token,
         \A t \in known' : token[t].st # "unused",
         call' \in [Call -> CallState],
         \A c \in Call : call'[c] = call[c]
                         \/ /\ call'[c].now <= clock
                            /\ call'[c].tok \in Token => token[call'[c].tok].st # "unused"
                            /\ call'[c].tok \in Token \/ call'[c].ph \in {"idle", "login"}
                            /\ call'[c].ph = "refresh" => call'[c].now = clock
  PROVE  IInv'
<1>1. TypeOK'
  BY DEF IInv, TypeOK
<1>2. StoredHasRow'
  BY DEF IInv, TypeOK, TokenRow, StoredHasRow, Stored, Rows
<1>3. UnusedIsUnknown' /\ CallsCarryTokens'
  BY DEF IInv, UnusedIsUnknown, CallsCarryTokens
<1>4. ClocksRead'
  <2>1. RetryGrace \in Nat /\ clock \in Nat
    BY DurationsPositive DEF IInv, TypeOK
  <2>2. \A t \in Token : token[t].retry \in Nat
    BY DEF IInv, TypeOK, TokenRow
  <2>3. \A c \in Call : call[c].now \in Nat /\ call'[c].now \in Nat
    BY DEF IInv, TypeOK, CallState
  <2>4. \A c \in Call : call'[c].now <= clock'
    BY <2>1, <2>3 DEF IInv, ClocksRead
  <2>5. \A t \in Token : token[t].st = "consumed" => token[t].retry <= clock' + RetryGrace
    BY <2>1, <2>2 DEF IInv, ClocksRead
  <2>6. ASSUME NEW c \in Call, NEW t \in Token, call'[c].ph = "refresh",
               token[t].st = "consumed", token[t].next = call'[c].tok
        PROVE  token[t].retry <= call'[c].now + RetryGrace
    <3>1. CASE call'[c] = call[c]
      BY <2>6, <3>1 DEF IInv, ClocksRead
    <3>2. CASE call'[c].now = clock
      BY <2>6, <3>2 DEF IInv, ClocksRead
    <3> QED BY <2>6, <3>1, <3>2
  <2> QED BY <2>4, <2>5, <2>6 DEF ClocksRead
<1>5. OneActiveGeneration' /\ ConsumedHasSuccessor' /\ GraceNeverShrinks'
  BY DEF IInv, OneActiveGeneration, ConsumedHasSuccessor, GraceNeverShrinks, Stored, Family
<1>6. ExpiryWithinSession'
  BY DEF IInv, StoredHasRow, Rows, ExpiryWithinSession, Stored
<1>7. SuccessorOutlivesGrace'
  <2>1. \A t \in Token : token[t].st = "consumed" => token[t].sid \in Session
    BY FamilyRowTyped DEF Stored
  <2> QED BY <2>1 DEF IInv, SuccessorOutlivesGrace
<1> QED
  BY <1>1, <1>2, <1>3, <1>4, <1>5, <1>6, <1>7 DEF IInv

\* Revoking a row changes at most its state and its reason.
LEMMA RevokeWeakens ==
  ASSUME NEW row \in SessionRow, NEW why \in Reasons
  PROVE  /\ Revoke(row, why) \in SessionRow
         /\ Revoke(row, why).abs = row.abs
         /\ Revoke(row, why).pv = row.pv
         /\ \/ Revoke(row, why).st = row.st
            \/ row.st = "live" /\ Revoke(row, why).st = "revoked"
         /\ Revoke(row, why).st # "live"
BY DEF Revoke, SessionRow

\* Requests that touch nothing but their own record.
CallOnly == UNCHANGED <<clock, user, session, token, known>>

LEMMA CallOnlyPreserves ==
  ASSUME IInv, CallOnly, NEW c \in Call, NEW r \in CallState,
         r.now <= clock,
         r.tok \in Token => token[r.tok].st # "unused",
         r.tok \in Token \/ r.ph \in {"idle", "login"},
         r.ph = "refresh" => r.now = clock,
         call' = [call EXCEPT ![c] = r]
  PROVE  IInv'
<1>1. \A d \in Call : call'[d] = call[d] \/ call'[d] = r
  BY DEF IInv, TypeOK
<1>2. call' \in [Call -> CallState]
  BY DEF IInv, TypeOK
<1>3. NoLiveSessionWithOldCredentials'
  BY DEF IInv, CallOnly, NoLiveSessionWithOldCredentials
<1>4. /\ clock' \in Nat /\ clock <= clock'
      /\ user' \in [st : {"active", "deleted"}, pv : Nat]
      /\ session' \in [Session -> SessionRow]
      /\ known' \subseteq Token
      /\ \A t \in known' : token[t].st # "unused"
  BY DEF IInv, TypeOK, CallOnly, UnusedIsUnknown
<1> QED
  BY <1>1, <1>2, <1>3, <1>4, TokensKept DEF CallOnly

LEMMA IdleRecord ==
  /\ Idle \in CallState
  /\ Idle.now = 0 /\ Idle.tok \notin Token /\ Idle.ph = "idle"
BY NamesApart DEF Idle, Request, CallState

LEMMA IdlePreserves ==
  ASSUME IInv, CallOnly, NEW c \in Call, call' = [call EXCEPT ![c] = Idle]
  PROVE  IInv'
<1>1. 0 <= clock
  BY DEF IInv, TypeOK
<1> QED
  BY <1>1, IdleRecord, CallOnlyPreserves

LEMMA LoginPreserves ==
  ASSUME IInv, NEW c \in Call, Login(c)
  PROVE  IInv'
<1> DEFINE r == Request("login", NoToken, clock, user.pv)
<1>1. r \in CallState /\ r.now = clock /\ r.tok \notin Token /\ r.ph = "login" /\ clock <= clock
  BY NamesApart DEF IInv, TypeOK, Idle, Request, CallState
<1>2. CallOnly /\ call' = [call EXCEPT ![c] = r]
  BY DEF Login, CallOnly
<1> HIDE DEF r
<1> QED
  BY <1>1, <1>2, CallOnlyPreserves

LEMMA StartRefreshPreserves ==
  ASSUME IInv, NEW c \in Call, NEW t \in Token, StartRefresh(c, t)
  PROVE  IInv'
<1> DEFINE r == Request("refresh", t, clock, 0)
<1>1. /\ r \in CallState /\ r.now = clock /\ r.tok = t /\ clock <= clock
      /\ token[t].st # "unused"
  BY DEF IInv, TypeOK, Idle, Request, CallState, UnusedIsUnknown, StartRefresh
<1>2. CallOnly /\ call' = [call EXCEPT ![c] = r]
  BY DEF StartRefresh, CallOnly, ReadClock
<1> HIDE DEF r
<1> QED
  BY <1>1, <1>2, CallOnlyPreserves

LEMMA RecoverSuccessorPreserves ==
  ASSUME IInv, NEW c \in Call, RecoverSuccessor(c)
  PROVE  IInv'
<1>1. PICK t \in Token : token[t].st = "active" /\ Reply(c, t)
  BY DEF RecoverSuccessor, Family
<1> DEFINE r == Request("replied", t, 0, 0)
<1>2. /\ r \in CallState /\ r.now <= clock /\ r.ph # "refresh" /\ token[r.tok].st # "unused"
      /\ r.tok \in Token
  BY <1>1 DEF IInv, TypeOK, Idle, Request, CallState
<1>3. CallOnly /\ call' = [call EXCEPT ![c] = r]
  BY <1>1 DEF RecoverSuccessor, CallOnly, Reply
<1> HIDE DEF r
<1> QED
  BY <1>2, <1>3, CallOnlyPreserves

------------------------------------------------------------------------------
(* Steps that revoke.                                                      *)

\* One session row is revoked and at most one call forgets its request.
LEMMA RevocationPreserves ==
  ASSUME IInv, NEW s \in Session, NEW why \in Reasons,
         session' = [session EXCEPT ![s] = Revoke(@, why)],
         UNCHANGED <<clock, user, token, known>>,
         call' \in [Call -> CallState],
         \A c \in Call : call'[c] = call[c] \/ call'[c] = Idle
  PROVE  IInv'
<1>1. /\ session' \in [Session -> SessionRow]
      /\ \A x \in Session : /\ session'[x].abs = session[x].abs
                            /\ session'[x].pv = session[x].pv
                            /\ \/ session'[x].st = session[x].st
                               \/ session[x].st = "live" /\ session'[x].st = "revoked"
  BY RevokeWeakens DEF IInv, TypeOK
<1>2. NoLiveSessionWithOldCredentials'
  BY <1>1 DEF IInv, NoLiveSessionWithOldCredentials
<1>3. /\ clock' \in Nat /\ clock <= clock' /\ 0 <= clock
      /\ user' \in [st : {"active", "deleted"}, pv : Nat]
      /\ known' \subseteq Token
      /\ \A t \in known' : token[t].st # "unused"
  BY DEF IInv, TypeOK, UnusedIsUnknown
<1>4. \A c \in Call : call'[c] = call[c]
                         \/ /\ call'[c].now <= clock
                            /\ call'[c].tok \in Token => token[call'[c].tok].st # "unused"
                            /\ call'[c].tok \in Token \/ call'[c].ph \in {"idle", "login"}
                            /\ call'[c].ph = "refresh" => call'[c].now = clock
  BY <1>3, IdleRecord
<1> QED
  BY <1>1, <1>2, <1>3, <1>4, TokensKept

LEMMA RejectPreserves ==
  ASSUME IInv, NEW c \in Call, Loaded(c), NEW why \in Reasons, Reject(c, why)
  PROVE  IInv'
<1>1. call[c].tok \in Token
  BY DEF IInv, CallsCarryTokens, Loaded
<1>2. Requested(c).sid \in Session
  BY <1>1, FamilyRowTyped DEF Loaded, Requested
<1>3. /\ call' \in [Call -> CallState]
      /\ \A d \in Call : call'[d] = call[d] \/ call'[d] = Idle
  BY IdleRecord DEF Reject, IInv, TypeOK
<1> QED
  BY <1>2, <1>3, RevocationPreserves DEF Reject

\* No session is touched when the token names no stored row.
LEMMA NothingRevokedPreserves ==
  ASSUME IInv, UNCHANGED <<clock, user, session, token, known>>,
         NEW c \in Call, call' = [call EXCEPT ![c] = Idle]
  PROVE  IInv'
BY IdlePreserves DEF CallOnly

LEMMA AccessIssueFailedPreserves ==
  ASSUME IInv, NEW c \in Call, AccessIssueFailed(c)
  PROVE  IInv'
<1>1. /\ call' \in [Call -> CallState]
      /\ \A d \in Call : call'[d] = call[d] \/ call'[d] = Idle
  BY IdleRecord DEF AccessIssueFailed, IInv, TypeOK
<1>2. CASE Stored(call[c].tok)
  <2>1. call[c].tok \in Token
    BY DEF AccessIssueFailed, IInv, CallsCarryTokens
  <2>2. token[call[c].tok].sid \in Session
    BY <1>2, <2>1, FamilyRowTyped
  <2> QED
    BY <1>1, <1>2, <2>2, RevocationPreserves DEF AccessIssueFailed, RevokeFamilyOf, Reasons
<1>3. CASE ~Stored(call[c].tok)
  BY <1>3, NothingRevokedPreserves DEF AccessIssueFailed, RevokeFamilyOf
<1> QED
  BY <1>2, <1>3

LEMMA StutterPreserves == ASSUME IInv, UNCHANGED vars PROVE IInv'
BY DEF vars, IInv, TypeOK, StoredHasRow, UnusedIsUnknown, CallsCarryTokens, ClocksRead,
       OneActiveGeneration, ConsumedHasSuccessor, GraceNeverShrinks,
       NoLiveSessionWithOldCredentials, ExpiryWithinSession, SuccessorOutlivesGrace,
       Stored, Family, Rows

LEMMA LogoutPreserves ==
  ASSUME IInv, NEW t \in Token, Logout(t)
  PROVE  IInv'
<1>1. CASE Stored(t)
  <2>1. token[t].sid \in Session
    BY <1>1, FamilyRowTyped
  <2>2. call' \in [Call -> CallState] /\ \A d \in Call : call'[d] = call[d]
    BY DEF Logout, IInv, TypeOK
  <2> QED
    BY <1>1, <2>1, <2>2, RevocationPreserves DEF Logout, RevokeFamilyOf, Reasons
<1>2. CASE ~Stored(t)
  BY <1>2, StutterPreserves DEF Logout, RevokeFamilyOf, vars
<1> QED
  BY <1>1, <1>2

LEMMA ChangeCredentialsPreserves == ASSUME IInv, ChangeCredentials PROVE IInv'
<1>1. /\ session' \in [Session -> SessionRow]
      /\ \A x \in Session : /\ session'[x].abs = session[x].abs
                            /\ session'[x].pv = session[x].pv
                            /\ \/ session'[x].st = session[x].st
                               \/ session[x].st = "live" /\ session'[x].st = "revoked"
                            /\ session'[x].st # "live"
  BY RevokeWeakens DEF IInv, TypeOK, ChangeCredentials, Reasons
<1>2. NoLiveSessionWithOldCredentials'
  BY <1>1 DEF NoLiveSessionWithOldCredentials
<1>3. /\ clock' \in Nat /\ clock <= clock'
      /\ user' \in [st : {"active", "deleted"}, pv : Nat]
      /\ known' \subseteq Token
      /\ \A t \in known' : token[t].st # "unused"
      /\ token' = token
      /\ call' \in [Call -> CallState]
      /\ \A c \in Call : call'[c] = call[c]
  BY DEF IInv, TypeOK, UnusedIsUnknown, ChangeCredentials
<1> QED
  BY <1>1, <1>2, <1>3, TokensKept

LEMMA TickPreserves == ASSUME IInv, Tick PROVE IInv'
<1>1. NoLiveSessionWithOldCredentials'
  BY DEF IInv, NoLiveSessionWithOldCredentials, Tick
<1>2. /\ clock' \in Nat /\ clock <= clock'
      /\ user' \in [st : {"active", "deleted"}, pv : Nat]
      /\ session' \in [Session -> SessionRow]
      /\ session' = session
      /\ known' \subseteq Token
      /\ \A t \in known' : token[t].st # "unused"
      /\ token' = token
      /\ call' \in [Call -> CallState]
      /\ \A c \in Call : call'[c] = call[c]
  BY DEF IInv, TypeOK, UnusedIsUnknown, Tick
<1> QED
  BY <1>1, <1>2, TokensKept

LEMMA DeliverPreserves ==
  ASSUME IInv, NEW c \in Call, Deliver(c)
  PROVE  IInv'
<1>1. NoLiveSessionWithOldCredentials'
  BY DEF IInv, NoLiveSessionWithOldCredentials, Deliver
<1>2. call[c].tok \in Token /\ token[call[c].tok].st # "unused"
  BY DEF IInv, CallsCarryTokens, UnusedIsUnknown, Deliver
<1>3. /\ clock' \in Nat /\ clock <= clock' /\ 0 <= clock
      /\ user' \in [st : {"active", "deleted"}, pv : Nat]
      /\ session' \in [Session -> SessionRow]
      /\ session' = session
      /\ known' \subseteq Token
      /\ \A t \in known' : token[t].st # "unused"
      /\ token' = token
  BY <1>2 DEF IInv, TypeOK, UnusedIsUnknown, Deliver
<1>4. call' \in [Call -> CallState] /\ \A d \in Call : call'[d] = call[d] \/ call'[d] = Idle
  BY IdleRecord DEF Deliver, IInv, TypeOK
<1> QED
  BY <1>1, <1>3, <1>4, IdleRecord, TokensKept

------------------------------------------------------------------------------
(* Steps that insert or delete tokens.                                     *)

LEMMA NewTokenTyped ==
  ASSUME NEW s \in Session, NEW g \in Nat, NEW e \in Nat
  PROVE  /\ NewToken(s, g, e) \in TokenRow
         /\ NewToken(s, g, e).st = "active"
         /\ NewToken(s, g, e).sid = s
         /\ NewToken(s, g, e).gen = g
         /\ NewToken(s, g, e).exp = e
BY DEF NewToken, TokenRow

\* A brand-new session has no tokens yet, so its first token cannot fork it.
LEMMA CreateSessionPreserves ==
  ASSUME IInv, NEW c \in Call, NEW s \in Session, NEW t \in Token, CreateSession(c, s, t)
  PROVE  IInv'
<1>1. PICK now \in call[c].now .. clock :
        /\ session' = [session EXCEPT ![s] =
             [st |-> "live", reason |-> "none", pv |-> call[c].pv, abs |-> now + AbsoluteTTL]]
        /\ token' = [token EXCEPT ![t] =
             NewToken(s, 0, Least(now + RefreshTTL, now + AbsoluteTTL))]
  BY DEF CreateSession
<1> DEFINE e == Least(now + RefreshTTL, now + AbsoluteTTL)
           n == NewToken(s, 0, e)
           row == [st |-> "live", reason |-> "none", pv |-> call[c].pv, abs |-> now + AbsoluteTTL]
<1>2. /\ now \in Nat /\ AbsoluteTTL \in Nat /\ RefreshTTL \in Nat
      /\ clock \in Nat /\ call[c].pv \in Nat
  BY DurationsPositive DEF IInv, TypeOK, CallState
<1>3. e \in Nat /\ e <= now + AbsoluteTTL
  BY <1>2 DEF Least
<1>4. row \in SessionRow /\ row.st = "live" /\ row.abs = now + AbsoluteTTL /\ row.pv = call[c].pv
  BY <1>2 DEF SessionRow, Reasons
<1>5. n \in TokenRow /\ n.st = "active" /\ n.sid = s /\ n.gen = 0 /\ n.exp = e
  BY <1>3, NewTokenTyped
<1> HIDE DEF e, n, row
<1>6. /\ session' = [session EXCEPT ![s] = row] /\ token' = [token EXCEPT ![t] = n]
      /\ call' = [call EXCEPT ![c] = Request("created", t, 0, 0)]
      /\ UNCHANGED <<clock, user, known>>
      /\ session[s].st = "unused" /\ token[t].st = "unused" /\ CredentialsCurrent(call[c].pv)
  BY <1>1 DEF CreateSession, e, n, row
<1>7. Request("created", t, 0, 0) \in CallState
  BY DEF Request, CallState
<1>8. TypeOK'
  BY <1>4, <1>5, <1>6, <1>7 DEF IInv, TypeOK
<1>9. \A u \in Token : u # t => token'[u] = token[u]
  BY <1>6 DEF IInv, TypeOK
<1>10. token'[t] = n /\ session'[s] = row /\ \A x \in Session : x # s => session'[x] = session[x]
  BY <1>6 DEF IInv, TypeOK
<1>11. \A u \in Token : Stored(u) => token[u].sid # s
  BY <1>6 DEF IInv, StoredHasRow, Rows
<1>12. StoredHasRow'
  BY <1>4, <1>5, <1>9, <1>10, <1>11 DEF IInv, StoredHasRow, Rows, Stored
<1>13. \A d \in Call : call'[d] = IF d = c THEN Request("created", t, 0, 0) ELSE call[d]
  BY <1>6 DEF IInv, TypeOK
<1>14. UnusedIsUnknown'
  BY <1>5, <1>6, <1>9, <1>10, <1>13 DEF IInv, UnusedIsUnknown, Request
<1>15. CallsCarryTokens'
  BY <1>13 DEF IInv, CallsCarryTokens, Request
<1>16. ClocksRead'
  <2>1. \A d \in Call : call'[d].now <= clock'
    BY <1>2, <1>6, <1>13 DEF IInv, ClocksRead, Request
  <2>2. \A u \in Token : token'[u].st = "consumed" => u # t /\ token'[u] = token[u]
    BY <1>5, <1>9, <1>10
  <2>3. \A d \in Call : call'[d].ph = "refresh" => call'[d] = call[d]
    BY <1>13 DEF Request
  <2> QED
    BY <1>6, <2>1, <2>2, <2>3 DEF IInv, ClocksRead
<1>17. OneActiveGeneration'
  BY <1>5, <1>9, <1>10, <1>11 DEF IInv, OneActiveGeneration, Stored
<1>18. ConsumedHasSuccessor' /\ GraceNeverShrinks'
  <2>1. \A u \in Token : token'[u].st = "consumed" => u # t /\ token'[u] = token[u]
    BY <1>5, <1>9, <1>10
  <2>2. \A u \in Token : token[u].st = "consumed" => token[u].next # t
    BY <1>6 DEF IInv, ConsumedHasSuccessor, Family, Stored
  <2>3. ConsumedHasSuccessor'
    BY <2>1, <2>2, <1>9 DEF IInv, ConsumedHasSuccessor, Family, Stored
  <2>4. GraceNeverShrinks'
    BY <2>1, <2>2, <1>9 DEF IInv, GraceNeverShrinks
  <2> QED BY <2>3, <2>4
<1>19. NoLiveSessionWithOldCredentials'
  BY <1>4, <1>6, <1>10 DEF IInv, NoLiveSessionWithOldCredentials, CredentialsCurrent
<1>20. ExpiryWithinSession'
  BY <1>3, <1>4, <1>5, <1>9, <1>10, <1>11 DEF IInv, ExpiryWithinSession, StoredHasRow, Rows, Stored
<1>21. SuccessorOutlivesGrace'
  <2> SUFFICES ASSUME NEW x \in Token, token'[x].st = "consumed"
               PROVE  \/ token'[x].retry < token'[token'[x].next].exp
                      \/ token'[token'[x].next].exp = session'[token'[x].sid].abs
    BY DEF SuccessorOutlivesGrace
  <2>1. x # t /\ token'[x] = token[x]
    BY <1>5, <1>9, <1>10
  <2>2. token[x].next \in Token /\ token[x].next # t /\ token[x].sid # s
        /\ token[x].sid \in Session
    BY <2>1, <1>6, <1>11, FamilyRowTyped DEF IInv, ConsumedHasSuccessor, Family, Stored
  <2> QED BY <2>1, <2>2, <1>9, <1>10 DEF IInv, SuccessorOutlivesGrace
<1> QED
  BY <1>8, <1>12, <1>14, <1>15, <1>16, <1>17, <1>18, <1>19, <1>20, <1>21 DEF IInv

\* The presented token is the newest of its family, so its successor is too;
\* its predecessor's grace ends no later, by ClocksRead.
LEMMA RotateFreshPreserves ==
  ASSUME IInv, NEW c \in Call, NEW u \in Token, RotateFresh(c, u)
  PROVE  IInv'
<1>1. /\ call[c].tok \in Token /\ Stored(call[c].tok) /\ token[call[c].tok].st = "active"
      /\ call[c].ph = "refresh"
      /\ token[u].st = "unused"
      /\ token' = [token EXCEPT
           ![call[c].tok] = Consume(@, u, call[c].now),
           ![u] = NewToken(token[call[c].tok].sid, token[call[c].tok].gen + 1, SuccessorExpiry(c))]
      /\ call' = [call EXCEPT ![c] = Request("replied", u, 0, 0)]
      /\ UNCHANGED <<clock, user, session, known>>
  BY DEF RotateFresh, Active, Loaded, Requested, Reply, IInv, CallsCarryTokens
<1>2. PICK t \in Token : t = call[c].tok
  BY <1>1
<1>3. PICK s \in Session : s = token[t].sid /\ session[s] \in SessionRow /\ token[t] \in TokenRow
  BY <1>1, <1>2, FamilyRowTyped
<1>4. PICK now \in Nat : now = call[c].now
  BY DEF IInv, TypeOK, CallState
<1>5. /\ clock \in Nat /\ RefreshTTL \in Nat /\ RetryGrace \in Nat /\ token[t].gen \in Nat
      /\ session[s].abs \in Nat /\ t # u
  BY <1>1, <1>2, <1>3, DurationsPositive DEF IInv, TypeOK, TokenRow, SessionRow
<1>6. PICK e \in Nat : /\ e = SuccessorExpiry(c) /\ e <= session[s].abs
                       /\ now + RetryGrace < e \/ e = session[s].abs
  BY <1>2, <1>3, <1>4, <1>5, DurationsPositive DEF SuccessorExpiry, Least, FamilyRow, Requested
<1>7. PICK old \in TokenRow :
        /\ old = Consume(token[t], u, now)
        /\ old.st = "consumed" /\ old.sid = s /\ old.gen = token[t].gen
        /\ old.exp = token[t].exp /\ old.next = u /\ old.retry = now + RetryGrace
  <2>1. /\ Consume(token[t], u, now) \in TokenRow
        /\ Consume(token[t], u, now).st = "consumed"
        /\ Consume(token[t], u, now).sid = s
        /\ Consume(token[t], u, now).gen = token[t].gen
        /\ Consume(token[t], u, now).exp = token[t].exp
        /\ Consume(token[t], u, now).next = u
        /\ Consume(token[t], u, now).retry = now + RetryGrace
    BY <1>3, <1>5 DEF Consume, TokenRow
  <2> QED BY <2>1
<1>8. PICK new \in TokenRow :
        /\ new = NewToken(s, token[t].gen + 1, e)
        /\ new.st = "active" /\ new.sid = s /\ new.gen = token[t].gen + 1 /\ new.exp = e
  BY <1>5, NewTokenTyped
<1>9. /\ Stored(t) /\ token[t].st = "active" /\ call[c].ph = "refresh" /\ token[u].st = "unused"
      /\ UNCHANGED <<clock, user, session, known>>
      /\ s = token[t].sid /\ now <= clock
  BY <1>1, <1>2, <1>3, <1>4 DEF IInv, ClocksRead
<1>10. token' = [token EXCEPT ![t] = old, ![u] = new]
  BY <1>1, <1>2, <1>3, <1>4, <1>6, <1>7, <1>8
<1>11. /\ token'[t] = old /\ token'[u] = new
       /\ \A x \in Token : x # t /\ x # u => token'[x] = token[x]
  BY <1>5, <1>10 DEF IInv, TypeOK
<1>12. \A d \in Call : call'[d] = IF d = c THEN Request("replied", u, 0, 0) ELSE call[d]
  BY <1>1 DEF IInv, TypeOK
<1>13. TypeOK'
  <2>1. Request("replied", u, 0, 0) \in CallState
    BY DEF Request, CallState
  <2> QED BY <1>9, <1>10, <1>1, <2>1 DEF IInv, TypeOK
<1>14. StoredHasRow'
  BY <1>9, <1>7, <1>8, <1>11 DEF IInv, StoredHasRow, Rows, Stored
<1>15. UnusedIsUnknown'
  BY <1>9, <1>7, <1>8, <1>11, <1>12 DEF IInv, TypeOK, UnusedIsUnknown, Request
<1>16. CallsCarryTokens'
  BY <1>12 DEF IInv, CallsCarryTokens, Request
<1>17. \A x \in Token : token[x].st = "consumed" => token[x].next # u
  BY <1>9 DEF IInv, ConsumedHasSuccessor, Family, Stored
<1>18. ClocksRead'
  <2>1. \A d \in Call : call'[d].now <= clock'
    BY <1>9, <1>5, <1>12 DEF IInv, ClocksRead, Request
  <2>2. \A d \in Call : call'[d].ph = "refresh" => call'[d] = call[d] /\ call[d].tok # u
    BY <1>9, <1>12 DEF Request, IInv, UnusedIsUnknown
  <2>3. \A x \in Token : token'[x].st = "consumed" => token'[x].retry <= clock' + RetryGrace
    BY <1>9, <1>5, <1>7, <1>8, <1>11 DEF IInv, ClocksRead
  <2>4. ASSUME NEW d \in Call, NEW x \in Token, call'[d].ph = "refresh",
               token'[x].st = "consumed", token'[x].next = call'[d].tok
        PROVE  token'[x].retry <= call'[d].now + RetryGrace
    <3>1. x # u /\ x # t
      BY <2>2, <2>4, <1>7, <1>8, <1>11
    <3> QED
      BY <2>2, <2>4, <3>1, <1>11 DEF IInv, ClocksRead
  <2> QED
    BY <2>1, <2>3, <2>4 DEF ClocksRead
<1>19. OneActiveGeneration'
  <2> SUFFICES ASSUME NEW x \in Token, NEW y \in Token, Stored(x)', Stored(y)', x # y,
                      token'[x].sid = token'[y].sid, token'[x].st = "active"
               PROVE  token'[y].gen < token'[x].gen
    BY DEF OneActiveGeneration
  <2>1. \A z \in Token : token[z] \in TokenRow
    BY DEF IInv, TypeOK
  <2>2. x # t
    BY <1>7, <1>11
  <2>3. CASE x = u
    <3>1. CASE y = t
      BY <2>3, <3>1, <1>5, <1>7, <1>8, <1>11, <2>1 DEF TokenRow
    <3>2. CASE y # t
      <4>1. Stored(y) /\ token[y].sid = s /\ token'[y].gen = token[y].gen
        BY <2>3, <3>2, <1>8, <1>11 DEF Stored
      <4>2. token[y].gen < token[t].gen
        BY <3>2, <4>1, <1>9 DEF IInv, OneActiveGeneration
      <4> QED BY <2>3, <4>1, <4>2, <1>8, <1>11, <2>1 DEF TokenRow
    <3> QED BY <3>1, <3>2
  <2>4. CASE x # u
    <3>1. token[x].st = "active" /\ token'[x] = token[x]
      BY <2>2, <2>4, <1>11
    <3>2. token[x].sid # s
      <4>1. SUFFICES ASSUME token[x].sid = s PROVE FALSE
        OBVIOUS
      <4>2. token[x].gen < token[t].gen /\ token[t].gen < token[x].gen
        BY <4>1, <3>1, <2>2, <1>9 DEF IInv, OneActiveGeneration, Stored
      <4> QED BY <4>2, <2>1, <1>9 DEF TokenRow
    <3>3. y # t /\ y # u
      BY <3>1, <3>2, <1>7, <1>8, <1>11
    <3> QED
      BY <3>1, <3>3, <1>11 DEF IInv, OneActiveGeneration, Stored
  <2> QED BY <2>3, <2>4
<1>20. ConsumedHasSuccessor'
  <2> SUFFICES ASSUME NEW x \in Token, token'[x].st = "consumed"
               PROVE  /\ token'[x].next \in Family(token[x].sid)'
                      /\ token'[token'[x].next].gen = token'[x].gen + 1
                      /\ token'[x].sid = token[x].sid
    BY DEF ConsumedHasSuccessor, Family
  <2>1. CASE x = t
    BY <2>1, <1>7, <1>8, <1>11, <1>9 DEF Family, Stored
  <2>2. CASE x # t
    <3>1. token'[x] = token[x] /\ token[x].st = "consumed"
      BY <2>2, <1>8, <1>11
    <3>2. token[x].next \in Token /\ Stored(token[x].next) /\ token[x].next # u
          /\ token[token[x].next].sid = token[x].sid
          /\ token[token[x].next].gen = token[x].gen + 1
      BY <3>1, <1>17 DEF IInv, ConsumedHasSuccessor, Family
    <3>3. CASE token[x].next = t
      BY <3>1, <3>2, <3>3, <1>7, <1>9, <1>11 DEF Family, Stored
    <3>4. CASE token[x].next # t
      BY <3>1, <3>2, <3>4, <1>11 DEF Family, Stored
    <3> QED BY <3>3, <3>4
  <2> QED BY <2>1, <2>2
<1>21. GraceNeverShrinks'
  <2> SUFFICES ASSUME NEW x \in Token, token'[x].st = "consumed", token'[x].next \in Token,
                      token'[token'[x].next].st = "consumed"
               PROVE  token'[x].retry <= token'[token'[x].next].retry
    BY DEF GraceNeverShrinks
  <2>1. x # u /\ x # t
    BY <1>7, <1>8, <1>11
  <2>2. token'[x] = token[x] /\ token[x].st = "consumed" /\ token[x].next # u
    BY <2>1, <1>11, <1>17
  <2>3. CASE token[x].next = t
    BY <2>2, <2>3, <1>2, <1>4, <1>9, <1>7, <1>11 DEF IInv, ClocksRead
  <2>4. CASE token[x].next # t
    BY <2>2, <2>4, <1>11 DEF IInv, GraceNeverShrinks
  <2> QED BY <2>3, <2>4
<1>22. NoLiveSessionWithOldCredentials'
  BY <1>9 DEF IInv, NoLiveSessionWithOldCredentials
<1>23. ExpiryWithinSession'
  BY <1>9, <1>6, <1>7, <1>8, <1>11 DEF IInv, ExpiryWithinSession, Stored
<1>24. SuccessorOutlivesGrace'
  <2> SUFFICES ASSUME NEW x \in Token, token'[x].st = "consumed"
               PROVE  \/ token'[x].retry < token'[token'[x].next].exp
                      \/ token'[token'[x].next].exp = session[token'[x].sid].abs
    BY <1>9 DEF SuccessorOutlivesGrace
  <2>1. CASE x = t
    BY <2>1, <1>6, <1>7, <1>8, <1>11
  <2>2. CASE x # t
    <3>1. token'[x] = token[x] /\ token[x].st = "consumed"
      BY <2>2, <1>8, <1>11
    <3>2. token[x].next \in Token /\ token[x].next # u
      BY <3>1, <1>17 DEF IInv, ConsumedHasSuccessor, Family
    <3>3. token'[token[x].next].exp = token[token[x].next].exp
      BY <3>2, <1>7, <1>11
    <3> QED BY <3>1, <3>3 DEF IInv, SuccessorOutlivesGrace
  <2> QED BY <2>1, <2>2
<1> QED
  BY <1>13, <1>14, <1>15, <1>16, <1>18, <1>19, <1>20, <1>21, <1>22, <1>23, <1>24 DEF IInv

\* Deleting whole families, whatever else erases sealed successors.
LEMMA DeletionPreserves ==
  ASSUME IInv,
         NEW gone \in SUBSET Rows, NEW rows \in [Token -> TokenRow],
         \A t \in Token : /\ rows[t].st = token[t].st /\ rows[t].sid = token[t].sid
                          /\ rows[t].gen = token[t].gen /\ rows[t].exp = token[t].exp
                          /\ rows[t].next = token[t].next /\ rows[t].retry = token[t].retry,
         DeleteSessions(gone, rows),
         user' \in [st : {"active", "deleted"}, pv : Nat],
         user' = user \/ gone = Rows,
         UNCHANGED <<clock, call, known>>
  PROVE  IInv'
<1>1. gone \subseteq Session
  BY DEF Rows
<1>2. \A s \in Session :
        /\ session'[s].abs = session[s].abs /\ session'[s].pv = session[s].pv
        /\ s \in gone => session'[s].st = "deleted"
        /\ s \notin gone => session'[s] = session[s]
  BY DEF DeleteSessions, IInv, TypeOK, SessionRow
<1>3. \A t \in Token :
        /\ token'[t].sid = token[t].sid /\ token'[t].gen = token[t].gen
        /\ token'[t].exp = token[t].exp /\ token'[t].next = token[t].next
        /\ token'[t].retry = token[t].retry
        /\ token'[t].st = IF token[t].sid \in gone THEN "deleted" ELSE token[t].st
  BY DEF DeleteSessions, IInv, TypeOK, TokenRow
<1>4. session' \in [Session -> SessionRow]
  <2>1. \A s \in Session : [session[s] EXCEPT !.st = "deleted"] \in SessionRow
    BY DEF IInv, TypeOK, SessionRow
  <2> QED BY <2>1 DEF DeleteSessions, IInv, TypeOK
<1>5. token' \in [Token -> TokenRow]
  <2>1. \A t \in Token : [rows[t] EXCEPT !.st = "deleted"] \in TokenRow
    BY DEF TokenRow
  <2> QED BY <2>1 DEF DeleteSessions
<1>6. TypeOK'
  BY <1>4, <1>5 DEF IInv, TypeOK
<1>7. \A t \in Token : Stored(t)' => Stored(t) /\ token[t].sid \notin gone
                                     /\ token'[t].st = token[t].st
  BY <1>3 DEF Stored
<1>8. StoredHasRow'
  BY <1>2, <1>3, <1>7 DEF IInv, StoredHasRow, Rows
<1>9. UnusedIsUnknown' /\ CallsCarryTokens'
  BY <1>3 DEF IInv, TypeOK, UnusedIsUnknown, CallsCarryTokens
<1>10. ClocksRead'
  BY <1>3 DEF IInv, ClocksRead
<1>11. OneActiveGeneration'
  BY <1>3, <1>7 DEF IInv, OneActiveGeneration
<1>12. ConsumedHasSuccessor'
  BY <1>3 DEF IInv, ConsumedHasSuccessor, Family, Stored
<1>13. GraceNeverShrinks'
  BY <1>3 DEF IInv, GraceNeverShrinks
<1>14. NoLiveSessionWithOldCredentials'
  BY <1>2 DEF IInv, NoLiveSessionWithOldCredentials, Rows
<1>15. ExpiryWithinSession'
  BY <1>2, <1>3, <1>7 DEF IInv, ExpiryWithinSession, StoredHasRow, Rows
<1>16. SuccessorOutlivesGrace'
  <2> SUFFICES ASSUME NEW x \in Token, token'[x].st = "consumed"
               PROVE  \/ token'[x].retry < token'[token'[x].next].exp
                      \/ token'[token'[x].next].exp = session'[token'[x].sid].abs
    BY DEF SuccessorOutlivesGrace
  <2>1. token[x].st = "consumed"
    BY <1>3
  <2>2. token[x].next \in Token /\ token[x].sid \in Session
    BY <2>1, FamilyRowTyped DEF IInv, ConsumedHasSuccessor, Family, Stored
  <2> QED BY <2>1, <2>2, <1>2, <1>3 DEF IInv, SuccessorOutlivesGrace
<1> QED
  BY <1>6, <1>8, <1>9, <1>10, <1>11, <1>12, <1>13, <1>14, <1>15, <1>16 DEF IInv

LEMMA DeleteAccountPreserves == ASSUME IInv, DeleteAccount PROVE IInv'
<1>1. token \in [Token -> TokenRow] /\ user' \in [st : {"active", "deleted"}, pv : Nat]
  BY DEF IInv, TypeOK, DeleteAccount
<1> QED
  BY <1>1, DeletionPreserves DEF DeleteAccount

\* The clean-up changes of a row nothing but its sealed successor.
LEMMA ErasedRows ==
  ASSUME TypeOK, NEW rows, rows = [t \in Token |-> EraseRecovery(token[t])]
  PROVE  /\ rows \in [Token -> TokenRow]
         /\ \A t \in Token : /\ rows[t].st = token[t].st /\ rows[t].sid = token[t].sid
                             /\ rows[t].gen = token[t].gen /\ rows[t].exp = token[t].exp
                             /\ rows[t].next = token[t].next /\ rows[t].retry = token[t].retry
<1>1. ASSUME NEW row \in TokenRow
      PROVE  /\ EraseRecovery(row) \in TokenRow
             /\ LET r == EraseRecovery(row) IN
                  /\ r.st = row.st /\ r.sid = row.sid /\ r.gen = row.gen
                  /\ r.exp = row.exp /\ r.next = row.next /\ r.retry = row.retry
  <2>1. [row EXCEPT !.sealed = FALSE] \in TokenRow
    BY DEF TokenRow
  <2> QED BY <2>1 DEF EraseRecovery, TokenRow
<1>2. \A t \in Token : token[t] \in TokenRow
  BY DEF TypeOK
<1> QED BY <1>1, <1>2

LEMMA DeleteExpiredPreserves == ASSUME IInv, DeleteExpired PROVE IInv'
<1> DEFINE rows == [t \in Token |-> EraseRecovery(token[t])]
<1>1. /\ rows \in [Token -> TokenRow]
      /\ \A t \in Token : /\ rows[t].st = token[t].st /\ rows[t].sid = token[t].sid
                          /\ rows[t].gen = token[t].gen /\ rows[t].exp = token[t].exp
                          /\ rows[t].next = token[t].next /\ rows[t].retry = token[t].retry
  BY ErasedRows DEF IInv
<1>2. /\ ExpiredSessions \in SUBSET Rows /\ DeleteSessions(ExpiredSessions, rows)
      /\ UNCHANGED <<clock, user, call, known>>
  BY DEF ExpiredSessions, DeleteExpired
<1>3. user' \in [st : {"active", "deleted"}, pv : Nat]
  BY <1>2 DEF IInv, TypeOK
<1> HIDE DEF rows
<1> QED
  BY <1>1, <1>2, <1>3, DeletionPreserves

------------------------------------------------------------------------------
LEMMA RotatePreserves == ASSUME IInv, NEW c \in Call, Rotate(c) PROVE IInv'
<1>1. CASE RotateUnknown(c)
  BY <1>1, IdlePreserves DEF RotateUnknown, CallOnly
<1>2. CASE RotateInvalid(c)
  <2>1. InvalidReason(c) \in Reasons
    BY DEF InvalidReason, Reasons
  <2> QED BY <1>2, <2>1, RejectPreserves DEF RotateInvalid
<1>3. CASE RecoverSuccessor(c)
  BY <1>3, RecoverSuccessorPreserves
<1>5. CASE RecoverTooLong(c)
  BY <1>5, IdlePreserves DEF RecoverTooLong, CallOnly
<1>6. CASE ReplayDetected(c)
  BY <1>6, RejectPreserves DEF ReplayDetected, Consumed, Reasons
<1>7. CASE RotateExpired(c)
  BY <1>7, RejectPreserves DEF RotateExpired, Active, Reasons
<1>8. CASE \E u \in Token : RotateFresh(c, u)
  BY <1>8, RotateFreshPreserves
<1> QED
  BY <1>1, <1>2, <1>3, <1>5, <1>6, <1>7, <1>8 DEF Rotate

LEMMA NextPreserves == IInv /\ [Next]_vars => IInv'
<1> SUFFICES ASSUME IInv, [Next]_vars PROVE IInv'
  OBVIOUS
<1>1. CASE UNCHANGED vars
  BY <1>1, StutterPreserves
<1>2. ASSUME NEW c \in Call,
             \/ Login(c) \/ CreateRejected(c) \/ AccessIssueFailed(c)
             \/ \E s \in Session, t \in Token : CreateSession(c, s, t)
             \/ \E t \in Token : StartRefresh(c, t)
             \/ Rotate(c) \/ Deliver(c) \/ Lose(c)
      PROVE  IInv'
  <2>1. CASE Login(c)
    BY <2>1, LoginPreserves
  <2>2. CASE CreateRejected(c)
    BY <2>2, IdlePreserves DEF CreateRejected, CallOnly
  <2>3. CASE AccessIssueFailed(c)
    BY <2>3, AccessIssueFailedPreserves
  <2>4. CASE \E s \in Session, t \in Token : CreateSession(c, s, t)
    BY <2>4, CreateSessionPreserves
  <2>5. CASE \E t \in Token : StartRefresh(c, t)
    BY <2>5, StartRefreshPreserves
  <2>6. CASE Rotate(c)
    BY <2>6, RotatePreserves
  <2>7. CASE Deliver(c)
    BY <2>7, DeliverPreserves
  <2>8. CASE Lose(c)
    BY <2>8, IdlePreserves DEF Lose, CallOnly
  <2> QED
    BY <1>2, <2>1, <2>2, <2>3, <2>4, <2>5, <2>6, <2>7, <2>8
<1>3. CASE \E t \in Token : Logout(t)
  BY <1>3, LogoutPreserves
<1>4. CASE ChangeCredentials
  BY <1>4, ChangeCredentialsPreserves
<1>5. CASE DeleteAccount
  BY <1>5, DeleteAccountPreserves
<1>6. CASE DeleteExpired
  BY <1>6, DeleteExpiredPreserves
<1>7. CASE Tick
  BY <1>7, TickPreserves
<1> QED
  BY <1>1, <1>2, <1>3, <1>4, <1>5, <1>6, <1>7 DEF Next

\* The strengthened invariant holds in every reachable state.
THEOREM InductiveInvariant == Spec => []IInv
BY InitEstablishes, NextPreserves, PTL DEF Spec

\* Every row, call and clock keeps its type: the code never writes a row the
\* schema of migration 22 does not describe.
THEOREM TypeCorrect == Spec => []TypeOK
<1>1. IInv => TypeOK
  BY DEF IInv
<1> QED BY <1>1, InductiveInvariant, PTL

\* Concurrent rotations never fork a family (SQLiteRefreshTokenRepository.Rotate).
THEOREM NoFork == Spec => []OneActiveGeneration
<1>1. IInv => OneActiveGeneration
  BY DEF IInv
<1> QED BY <1>1, InductiveInvariant, PTL

\* The successor chain that Rotate walks for a retry is never broken by cleanup.
THEOREM ChainUnbroken == Spec => []ConsumedHasSuccessor
<1>1. IInv => ConsumedHasSuccessor
  BY DEF IInv
<1> QED BY <1>1, InductiveInvariant, PTL

\* Grace periods are monotone along the chain although the clocks were read
\* before the rotations were serialized.
THEOREM GraceMonotone == Spec => []GraceNeverShrinks
<1>1. IInv => GraceNeverShrinks
  BY DEF IInv
<1> QED BY <1>1, InductiveInvariant, PTL

\* A login that raced a change of credentials leaves no live session behind.
THEOREM CredentialsEnforced == Spec => []NoLiveSessionWithOldCredentials
<1>1. IInv => NoLiveSessionWithOldCredentials
  BY DEF IInv
<1> QED BY <1>1, InductiveInvariant, PTL

\* No rotation extends a token beyond the absolute end of its session.
THEOREM LifetimeBounded == Spec => []ExpiryWithinSession
<1>1. IInv => ExpiryWithinSession
  BY DEF IInv
<1> QED BY <1>1, InductiveInvariant, PTL

\* A retry inside the grace never meets an expired successor: the durations
\* checked by NewSessionService leave the branch of Rotate dead.
THEOREM RecoveryInTime == Spec => []SuccessorOutlivesGrace
<1>1. IInv => SuccessorOutlivesGrace
  BY DEF IInv
<1> QED BY <1>1, InductiveInvariant, PTL

------------------------------------------------------------------------------
(* Revocation is final.                                                    *)

StaysRevoked(s) ==
  session[s].st = "revoked" =>
    /\ session'[s].st \in {"revoked", "deleted"}
    /\ session'[s].reason = session[s].reason
    /\ \A t \in Token : (token'[t].st = "active" /\ token'[t].sid = s) => token[t].st = "active"

LEMMA RevokeKeepsFirstReason ==
  ASSUME TypeOK, NEW s \in Session, NEW why,
         session' = session \/ session' = [session EXCEPT ![s] = Revoke(@, why)],
         token' = token
  PROVE  \A x \in Session : StaysRevoked(x)
BY DEF TypeOK, Revoke, StaysRevoked

LEMMA FamilyRevocationKeepsFirstReason ==
  ASSUME TypeOK, StoredHasRow, NEW t, t \in Token \/ ~Stored(t), NEW why,
         session' = RevokeFamilyOf(t, why), token' = token
  PROVE  \A x \in Session : StaysRevoked(x)
<1>1. CASE Stored(t)
  <2>1. token[t].sid \in Session
    BY <1>1 DEF StoredHasRow, Rows
  <2> QED BY <1>1, <2>1, RevokeKeepsFirstReason DEF RevokeFamilyOf
<1>2. CASE ~Stored(t)
  BY <1>2 DEF RevokeFamilyOf, StaysRevoked
<1> QED BY <1>1, <1>2

LEMMA DeletionKeepsReasons ==
  ASSUME TypeOK, NEW gone, NEW rows \in [Token -> TokenRow],
         \A t \in Token : rows[t].st = token[t].st,
         DeleteSessions(gone, rows)
  PROVE  \A x \in Session : StaysRevoked(x)
<1>1. \A x \in Session : /\ session'[x].reason = session[x].reason
                         /\ session'[x].st \in {session[x].st, "deleted"}
  BY DEF DeleteSessions, TypeOK, SessionRow
<1>2. \A t \in Token : token'[t].st \in {token[t].st, "deleted"}
  BY DEF DeleteSessions, TypeOK, TokenRow
<1> QED BY <1>1, <1>2 DEF StaysRevoked

LEMMA StepKeepsRevoked ==
  ASSUME IInv, [Next]_vars
  PROVE  \A x \in Session : StaysRevoked(x)
<1>1. CASE session' = session /\ token' = token
  BY <1>1 DEF StaysRevoked
<1>2. ASSUME NEW c \in Call, NEW s \in Session, NEW t \in Token, CreateSession(c, s, t)
      PROVE  \A x \in Session : StaysRevoked(x)
  <2>1. session[s].st = "unused" /\ \A x \in Session : x # s => session'[x] = session[x]
    BY <1>2 DEF CreateSession, IInv, TypeOK
  <2>2. token'[t].sid = s /\ \A u \in Token : u # t => token'[u] = token[u]
    BY <1>2 DEF CreateSession, NewToken, IInv, TypeOK
  <2> QED BY <2>1, <2>2 DEF StaysRevoked
<1>3. ASSUME NEW c \in Call, NEW why, Loaded(c), Reject(c, why)
      PROVE  \A x \in Session : StaysRevoked(x)
  <2>1. call[c].tok \in Token
    BY <1>3 DEF IInv, CallsCarryTokens, Loaded
  <2>2. Requested(c).sid \in Session
    BY <1>3, <2>1, FamilyRowTyped DEF Loaded, Requested
  <2> QED BY <1>3, <2>2, RevokeKeepsFirstReason DEF Reject, IInv
<1>4. ASSUME NEW c \in Call, NEW u \in Token, RotateFresh(c, u)
      PROVE  \A x \in Session : StaysRevoked(x)
  <2>1. call[c].tok \in Token /\ session' = session /\ session[token[call[c].tok].sid].st = "live"
    BY <1>4 DEF RotateFresh, Active, Loaded, FamilyRow, Requested, IInv, CallsCarryTokens
  <2>2. token'[u].sid = token[call[c].tok].sid
    BY <1>4, <2>1 DEF RotateFresh, NewToken, Requested, IInv, TypeOK
  <2>3. \A t \in Token : t # u /\ t # call[c].tok => token'[t] = token[t]
    BY <1>4 DEF RotateFresh, IInv, TypeOK
  <2>4. token[call[c].tok].st = "active"
    BY <1>4 DEF RotateFresh, Active, Requested
  <2> QED BY <2>1, <2>2, <2>3, <2>4 DEF StaysRevoked
<1>5. ASSUME NEW c \in Call, AccessIssueFailed(c)
      PROVE  \A x \in Session : StaysRevoked(x)
  <2>1. call[c].tok \in Token
    BY <1>5 DEF IInv, CallsCarryTokens, AccessIssueFailed
  <2> QED BY <1>5, <2>1, FamilyRevocationKeepsFirstReason DEF AccessIssueFailed, IInv
<1>6. ASSUME NEW t \in Token, Logout(t)
      PROVE  \A x \in Session : StaysRevoked(x)
  BY <1>6, FamilyRevocationKeepsFirstReason DEF Logout, IInv
<1>7. CASE ChangeCredentials
  BY <1>7 DEF ChangeCredentials, Revoke, StaysRevoked, IInv, TypeOK
<1>8. CASE DeleteAccount
  <2>1. token \in [Token -> TokenRow]
    BY DEF IInv, TypeOK
  <2> QED BY <1>8, <2>1, DeletionKeepsReasons DEF DeleteAccount, IInv
<1>9. CASE DeleteExpired
  <2> DEFINE rows == [t \in Token |-> EraseRecovery(token[t])]
  <2>1. rows \in [Token -> TokenRow] /\ \A t \in Token : rows[t].st = token[t].st
    BY ErasedRows DEF IInv
  <2>2. DeleteSessions(ExpiredSessions, rows)
    BY <1>9 DEF DeleteExpired
  <2> HIDE DEF rows
  <2> QED BY <2>1, <2>2, DeletionKeepsReasons DEF IInv
<1>10. ASSUME NEW c \in Call, Rotate(c)
       PROVE  \A x \in Session : StaysRevoked(x)
  BY <1>10, <1>1, <1>3, <1>4 DEF Rotate, RotateUnknown, RotateInvalid, RecoverSuccessor,
     RecoverTooLong, ReplayDetected, RotateExpired, Consumed, Active
<1> QED
  BY <1>1, <1>2, <1>5, <1>6, <1>7, <1>8, <1>9, <1>10
  DEF Next, vars, Login, CreateRejected, StartRefresh, Deliver, Lose, Tick

\* A revoked session is never revived, relabelled or given another token.
THEOREM RevocationFinal == Spec => RevokedIsFinal
<1>1. IInv /\ [Next]_vars =>
        [\A s \in Session : session[s].st = "revoked" =>
           /\ session'[s].st \in {"revoked", "deleted"}
           /\ session'[s].reason = session[s].reason
           /\ \A t \in Token : (token'[t].st = "active" /\ token'[t].sid = s)
                                 => token[t].st = "active"]_vars
  BY StepKeepsRevoked DEF StaysRevoked
<1> QED
  BY <1>1, InductiveInvariant, PTL DEF Spec, RevokedIsFinal

------------------------------------------------------------------------------
(* The walk along the successors.                                          *)

\* h are the stops of a walk of k hops.
Stops(h, t, now, k) ==
  h = [n \in 0 .. k |->
         IF n = 0 THEN t
         ELSE IF Followable(h[n - 1], now) THEN token[h[n - 1]].next ELSE h[n - 1]]

\* Among finitely many numbers one is least: what holds at the start of a walk
\* and is kept by every hop is proved at the first stop where it fails.
LEMMA FirstOf ==
  ASSUME NEW N \in Nat, NEW B, B \subseteq 0 .. N, B # {}
  PROVE  \E k \in B : \A j \in B : k <= j
<1> DEFINE T == 0 .. N
           C == {0 .. k : k \in B}
<1>1. IsFiniteSet(T)
  BY FS_Interval
<1>2. C \subseteq SUBSET T /\ C # {}
  <2>1. \A k \in B : 0 .. k \subseteq T  OBVIOUS
  <2> HIDE DEF T
  <2>2. QED  BY <2>1
<1>3. PICK s \in C : \A u \in C : ~(<<u, s>> \in StrictSubsetOrdering(T))
  <2> HIDE DEF C, T
  <2>1. FiniteSubsetsOf(T) = SUBSET T
    BY <1>1, FS_FiniteSubsetsOfFinite
  <2>2. IsWellFoundedOn(StrictSubsetOrdering(T), SUBSET T)
    BY <1>1, <2>1, FS_StrictSubsetOrderingWellFounded
  <2>3. QED  BY <1>2, <2>2, WFMin
<1>4. \A u \in C : u \subseteq s => u = s
  <2> HIDE DEF T
  <2>1. C \subseteq SUBSET T  BY <1>2
  <2> HIDE DEF C
  <2>2. QED  BY <1>3, <2>1 DEF StrictSubsetOrdering
<1>5. PICK k \in B : s = 0 .. k
  OBVIOUS
<1>6. ASSUME NEW j \in B, j < k  PROVE FALSE
  <2>1. j \in Nat /\ k \in Nat  OBVIOUS
  <2>2. 0 .. j \in C /\ 0 .. j \subseteq 0 .. k  BY <1>6, <2>1
  <2>3. 0 .. j = 0 .. k  BY <1>4, <1>5, <2>2
  <2>4. k \in 0 .. k /\ k \notin 0 .. j  BY <1>6, <2>1
  <2>5. QED  BY <2>3, <2>4
<1>7. \A j \in B : j \in Nat  OBVIOUS
<1>8. QED  BY <1>6, <1>7

\* A walk of any length has stops.
LEMMA WalkExists ==
  ASSUME NEW t, NEW now, NEW N \in Nat
  PROVE  \E h : Stops(h, t, now, N)
<1> DEFINE B == {k \in 0 .. N : ~\E h : Stops(h, t, now, k)}
<1>1. SUFFICES ASSUME B # {} PROVE FALSE
  <2>1. N \in 0 .. N  OBVIOUS
  <2>2. QED  BY <2>1
<1>2. PICK k \in B : \A j \in B : k <= j
  <2>1. B \subseteq 0 .. N  OBVIOUS
  <2> HIDE DEF B
  <2>2. QED  BY <1>1, <2>1, FirstOf
<1>3. k # 0
  <2> SUFFICES ASSUME k = 0 PROVE FALSE  OBVIOUS
  <2> DEFINE h == [n \in 0 .. 0 |-> t]
  <2>1. \A n \in 0 .. 0 : n = 0  OBVIOUS
  <2>2. Stops(h, t, now, 0)
    <3> DEFINE F(n) == IF n = 0 THEN t
                       ELSE IF Followable(h[n - 1], now) THEN token[h[n - 1]].next ELSE h[n - 1]
    <3>1. \A n \in 0 .. 0 : F(n) = t  BY <2>1
    <3>2. h = [n \in 0 .. 0 |-> F(n)]  BY <3>1
    <3>3. QED  BY <3>2 DEF Stops
  <2>3. QED  BY <2>2
<1>4. k \in Nat /\ k - 1 \in 0 .. N /\ ~(k <= k - 1)
  BY <1>3
<1>5. PICK g : Stops(g, t, now, k - 1)
  BY <1>2, <1>4
<1> DEFINE Hop(x) == IF Followable(x, now) THEN token[x].next ELSE x
           h == [n \in 0 .. k |-> IF n = k THEN Hop(g[k - 1]) ELSE g[n]]
<1>6. \A n \in 0 .. k - 1 : g[n] = IF n = 0 THEN t ELSE Hop(g[n - 1])
  BY <1>5 DEF Stops
<1>7. \A n \in 0 .. k : h[n] = IF n = 0 THEN t ELSE Hop(h[n - 1])
  <2> TAKE n \in 0 .. k
  <2> HIDE DEF Hop
  <2>1. CASE n = 0
    <3>1. 0 \in 0 .. k - 1 /\ 0 # k  BY <1>3, <1>4
    <3>2. h[0] = g[0] /\ g[0] = t  BY <3>1, <1>6
    <3>3. QED  BY <2>1, <3>2
  <2>2. CASE n # 0 /\ n # k
    <3>1. n \in 0 .. k - 1 /\ n - 1 \in 0 .. k /\ n - 1 # k  BY <1>4, <2>2
    <3>2. h[n] = g[n] /\ h[n - 1] = g[n - 1]  BY <3>1, <2>2
    <3>3. g[n] = Hop(g[n - 1])  BY <3>1, <2>2, <1>6
    <3>4. QED  BY <2>2, <3>2, <3>3
  <2>3. CASE n = k
    <3>1. k - 1 \in 0 .. k /\ k - 1 # k /\ k \in 0 .. k  BY <1>4
    <3>2. h[k] = Hop(g[k - 1]) /\ h[k - 1] = g[k - 1]  BY <3>1
    <3>3. QED  BY <1>3, <2>3, <3>2
  <2>4. QED  BY <2>1, <2>2, <2>3
<1>8. Stops(h, t, now, k)
  <2> DEFINE G(n) == IF n = 0 THEN t ELSE Hop(h[n - 1])
  <2>1. h = [n \in 0 .. k |-> h[n]]  OBVIOUS
  <2> HIDE DEF h, Hop
  <2>2. h = [n \in 0 .. k |-> G(n)]  BY <1>7, <2>1
  <2>3. QED  BY <2>2 DEF Stops, Hop
<1>9. QED  BY <1>8

\* A walk stays in the family, gets to newer generations only, and to tokens
\* whose grace ends no earlier than that of the token it began with.
LEMMA WalkLeads ==
  ASSUME IInv, NEW t \in Token, Stored(t), NEW now
  PROVE  LET e == WalkEnd(t, now)
         IN  /\ e \in Family(token[t].sid)
             /\ e # t => token[e].gen > token[t].gen
             /\ token[t].st = "consumed" /\ token[e].st = "consumed"
                => token[t].retry <= token[e].retry
<1> DEFINE Good(x) == /\ x \in Token /\ Stored(x) /\ token[x].sid = token[t].sid
                      /\ x = t \/ token[x].gen > token[t].gen
                      /\ token[t].st = "consumed" /\ token[x].st = "consumed"
                         => token[t].retry <= token[x].retry
<1>1. \A x \in Token : token[x].gen \in Nat /\ token[x].retry \in Nat
  BY DEF IInv, TypeOK, TokenRow
<1>2. Good(t)
  BY <1>1
<1>3. ASSUME NEW x, Good(x), Followable(x, now)  PROVE Good(token[x].next)
  <2> DEFINE y == token[x].next
  <2>1. /\ token[x].st = "consumed" /\ y \in Token /\ Stored(y)
        /\ token[y].sid = token[t].sid /\ token[y].gen = token[x].gen + 1
    BY <1>3 DEF Followable, Family
  <2>2. token[y].gen > token[t].gen
    BY <1>1, <1>3, <2>1
  <2>3. token[y].st = "consumed" => token[x].retry <= token[y].retry
    BY <1>3, <2>1 DEF IInv, GraceNeverShrinks
  <2>4. token[t].st = "consumed" /\ token[y].st = "consumed" => token[t].retry <= token[y].retry
    BY <1>1, <1>3, <2>1, <2>3
  <2>5. QED  BY <2>1, <2>2, <2>4
<1>4. PICK h : /\ Stops(h, t, now, MaxHops)
               /\ WalkEnd(t, now) = h[MaxHops]
  <2> DEFINE h == CHOOSE h : Stops(h, t, now, MaxHops)
  <2>1. Stops(h, t, now, MaxHops)
    BY BoundsNat, WalkExists
  <2>2. WalkEnd(t, now) = h[MaxHops]
    BY DEF WalkEnd, Stops
  <2>3. QED  BY <2>1, <2>2
<1> DEFINE B == {n \in 0 .. MaxHops : ~Good(h[n])}
<1>5. B = {}
  <2>1. SUFFICES ASSUME B # {} PROVE FALSE
    OBVIOUS
  <2>2. PICK n \in B : \A j \in B : n <= j
    <3>1. B \subseteq 0 .. MaxHops /\ MaxHops \in Nat  BY BoundsNat
    <3> HIDE DEF B
    <3>2. QED  BY <2>1, <3>1, FirstOf
  <2>3. \A m \in 0 .. MaxHops :
          h[m] = IF m = 0 THEN t
                 ELSE IF Followable(h[m - 1], now) THEN token[h[m - 1]].next ELSE h[m - 1]
    BY <1>4 DEF Stops
  <2>4. n # 0
    BY <1>2, <2>3
  <2>5. n - 1 \in 0 .. MaxHops /\ ~(n <= n - 1)
    BY <2>4, BoundsNat
  <2>6. Good(h[n - 1])
    BY <2>2, <2>5
  <2>7. h[n] = IF Followable(h[n - 1], now) THEN token[h[n - 1]].next ELSE h[n - 1]
    BY <2>3, <2>4
  <2> HIDE DEF Good
  <2>8. Good(h[n])
    BY <2>6, <2>7, <1>3
  <2>9. QED  BY <2>8
<1>6. Good(h[MaxHops])
  <2>1. MaxHops \in 0 .. MaxHops  BY BoundsNat
  <2>2. QED  BY <1>5, <2>1
<1>7. QED  BY <1>4, <1>6 DEF Family

\* A step gives at most one call another record, and only Rotate replies to a
\* refresh.
LEMMA RepliesToRefresh ==
  ASSUME IInv, [Next]_vars, NEW c \in Call, call[c].ph = "refresh", call'[c].ph = "replied"
  PROVE  RecoverSuccessor(c) \/ \E u \in Token : RotateFresh(c, u)
<1>1. call \in [Call -> CallState]
  BY DEF IInv, TypeOK
<1>2. Idle.ph = "idle"
  BY DEF Idle, Request
<1>3. ASSUME NEW d \in Call, Login(d) \/ CreateRejected(d) \/ AccessIssueFailed(d) \/ Deliver(d) \/ Lose(d)
      PROVE  FALSE
  BY <1>1, <1>2, <1>3 DEF Login, CreateRejected, AccessIssueFailed, Deliver, Lose, Request
<1>4. ASSUME NEW d \in Call, NEW s \in Session, NEW t \in Token, CreateSession(d, s, t)
      PROVE  FALSE
  BY <1>1, <1>4 DEF CreateSession, Request
<1>5. ASSUME NEW d \in Call, NEW t \in Token, StartRefresh(d, t)
      PROVE  FALSE
  BY <1>1, <1>5 DEF StartRefresh, Request
<1>6. ASSUME NEW d \in Call, RotateUnknown(d) \/ RotateInvalid(d) \/ RecoverTooLong(d)
                             \/ ReplayDetected(d) \/ RotateExpired(d)
      PROVE  FALSE
  BY <1>1, <1>2, <1>6 DEF RotateUnknown, RotateInvalid, RecoverTooLong, ReplayDetected,
     RotateExpired, Reject
<1>7. ASSUME NEW d \in Call, RecoverSuccessor(d) \/ \E u \in Token : RotateFresh(d, u)
      PROVE  d = c
  BY <1>1, <1>7 DEF RecoverSuccessor, RotateFresh, Reply
<1>8. ASSUME \/ \E t \in Token : Logout(t)
             \/ ChangeCredentials \/ DeleteAccount \/ DeleteExpired \/ Tick \/ UNCHANGED vars
      PROVE  FALSE
  BY <1>8 DEF Logout, ChangeCredentials, DeleteAccount, DeleteExpired, Tick, vars
<1>9. QED
  BY <1>3, <1>4, <1>5, <1>6, <1>7, <1>8 DEF Next, Rotate

\* What a refresh hands out is active, newer than what was presented, and of a
\* live family, also when the presented token is a retry from any number of
\* rotations ago.
LEMMA ReplyIsNewest ==
  ASSUME IInv, [Next]_vars, NEW c \in Call, call[c].ph = "refresh", call'[c].ph = "replied"
  PROVE  LET t == call'[c].tok
         IN  /\ token'[t].st = "active"
             /\ token'[t].gen > token[call[c].tok].gen
             /\ session'[token'[t].sid].st = "live"
<1> DEFINE old == call[c].tok
<1>1. old \in Token /\ call \in [Call -> CallState] /\ token \in [Token -> TokenRow]
  BY DEF IInv, TypeOK, CallsCarryTokens
<1>2. CASE RecoverSuccessor(c)
  <2>1. Stored(old) /\ token[old].st = "consumed" /\ session[token[old].sid].st = "live"
    BY <1>2 DEF RecoverSuccessor, Consumed, Loaded, Requested, FamilyRow
  <2>2. PICK t \in Family(token[old].sid) :
          t = WalkEnd(old, call[c].now) /\ token[t].st = "active" /\ Reply(c, t)
    BY <1>2 DEF RecoverSuccessor, Requested
  <2>3. token[t].gen > token[old].gen /\ token[t].sid = token[old].sid
    BY <1>1, <2>1, <2>2, WalkLeads DEF Family
  <2>4. call'[c].tok = t
    BY <1>1, <2>2 DEF Reply, Request
  <2>5. token' = token /\ session' = session
    BY <1>2 DEF RecoverSuccessor
  <2>6. QED  BY <2>1, <2>2, <2>3, <2>4, <2>5
<1>3. ASSUME NEW u \in Token, RotateFresh(c, u)
      PROVE  LET t == call'[c].tok
             IN  /\ token'[t].st = "active"
                 /\ token'[t].gen > token[old].gen
                 /\ session'[token'[t].sid].st = "live"
  <2>1. call'[c].tok = u
    BY <1>1, <1>3 DEF RotateFresh, Reply, Request
  <2>2. token'[u] = NewToken(token[old].sid, token[old].gen + 1, SuccessorExpiry(c))
    BY <1>1, <1>3 DEF RotateFresh, Requested
  <2>3. session' = session /\ session[token[old].sid].st = "live"
    BY <1>3 DEF RotateFresh, Active, Loaded, FamilyRow, Requested
  <2>4. token[old].gen \in Nat
    BY <1>1 DEF TokenRow
  <2>5. QED  BY <2>1, <2>2, <2>3, <2>4 DEF NewToken
<1>4. QED  BY <1>2, <1>3, RepliesToRefresh

\* Whatever a client presents, a refresh that succeeds gives it the one active
\* token of a live family.
THEOREM RefreshIsNewest == Spec => RefreshYieldsNewest
<1>1. IInv /\ [Next]_vars =>
        [\A c \in Call : (call[c].ph = "refresh" /\ call'[c].ph = "replied") =>
           LET t == call'[c].tok
           IN  /\ token'[t].st = "active"
               /\ token'[t].gen > token[call[c].tok].gen
               /\ session'[token'[t].sid].st = "live"]_vars
  BY ReplyIsNewest
<1> QED
  BY <1>1, InductiveInvariant, PTL DEF Spec, RefreshYieldsNewest

------------------------------------------------------------------------------
(* Replays.                                                                *)

\* What lets a successor be recovered is only erased after the grace.
SealsLast ==
  \A t \in Token : token[t].st = "consumed" /\ ~token[t].sealed => token[t].retry < clock

\* Nobody but the clean-up worker erases it, and only after the grace.
LEMMA SealsStay ==
  ASSUME IInv, SealsLast, [Next]_vars
  PROVE  SealsLast'
<1>1. /\ token \in [Token -> TokenRow] /\ clock \in Nat
      /\ \A t \in Token : token[t].retry \in Nat
  BY DEF IInv, TypeOK, TokenRow
<1>2. clock' = clock \/ clock' = clock + 1
  BY DEF Next, vars, Login, CreateRejected, AccessIssueFailed, CreateSession, StartRefresh, Rotate,
     RotateUnknown, RotateInvalid, RecoverSuccessor, RecoverTooLong, ReplayDetected, RotateExpired,
     RotateFresh, Reject, Deliver, Lose, Logout, ChangeCredentials, DeleteAccount, DeleteExpired, Tick
<1>3. CASE token' = token
  BY <1>1, <1>2, <1>3 DEF SealsLast
<1>4. ASSUME NEW c \in Call, NEW s \in Session, NEW t \in Token, CreateSession(c, s, t)
      PROVE  SealsLast'
  <2>1. token'[t].st = "active" /\ \A x \in Token : x # t => token'[x] = token[x]
    BY <1>1, <1>4 DEF CreateSession, NewToken
  <2>2. QED  BY <1>1, <1>2, <2>1 DEF SealsLast
<1>5. ASSUME NEW c \in Call, NEW u \in Token, RotateFresh(c, u)
      PROVE  SealsLast'
  <2>1. call[c].tok \in Token
    BY <1>5 DEF RotateFresh, Active, Loaded, IInv, CallsCarryTokens
  <2>2. /\ token'[u].st = "active"
        /\ token'[call[c].tok].sealed \/ call[c].tok = u
        /\ \A x \in Token : x # u /\ x # call[c].tok => token'[x] = token[x]
    BY <1>1, <1>5, <2>1 DEF RotateFresh, NewToken, Consume
  <2>3. QED  BY <1>1, <1>2, <2>2 DEF SealsLast
<1>6. ASSUME DeleteAccount \/ DeleteExpired
      PROVE  SealsLast'
  <2>1. \A t \in Token : \/ token'[t].st = "deleted" \/ token'[t] = token[t]
                         \/ token'[t].retry < clock
    <3>1. CASE DeleteAccount
      BY <1>1, <3>1 DEF DeleteAccount, DeleteSessions, TokenRow
    <3>2. CASE DeleteExpired
      BY <1>1, <3>2 DEF DeleteExpired, DeleteSessions, EraseRecovery, TokenRow
    <3>3. QED  BY <1>6, <3>1, <3>2
  <2>2. clock' = clock
    BY <1>6 DEF DeleteAccount, DeleteExpired
  <2>3. QED  BY <2>1, <2>2 DEF SealsLast
<1>7. QED
  BY <1>3, <1>4, <1>5, <1>6 DEF Next, vars, Login, CreateRejected, AccessIssueFailed,
     StartRefresh, Rotate, RotateUnknown, RotateInvalid, RecoverSuccessor, RecoverTooLong,
     ReplayDetected, RotateExpired, Reject, Deliver, Lose, Logout, ChangeCredentials, Tick

\* A family that gets the reason "refresh_reuse" gets it from ReplayDetected.
LEMMA ReuseIsReplay ==
  ASSUME IInv, [Next]_vars, NEW s \in Session,
         session[s].reason = "none", session'[s].reason = "refresh_reuse"
  PROVE  \E c \in Call : ReplayDetected(c) /\ Requested(c).sid = s
<1>1. session \in [Session -> SessionRow]
  BY DEF IInv, TypeOK
<1>2. session' # session
  OBVIOUS
<1>3. ASSUME NEW x, NEW why, session' = [session EXCEPT ![x] = Revoke(@, why)]
      PROVE  x = s /\ why = "refresh_reuse"
  BY <1>1, <1>3 DEF Revoke, SessionRow
<1>4. ASSUME NEW c \in Call, NEW x \in Session, NEW t \in Token, CreateSession(c, x, t)
      PROVE  FALSE
  BY <1>1, <1>4 DEF CreateSession
<1>5. ASSUME NEW c \in Call, AccessIssueFailed(c)
      PROVE  FALSE
  BY <1>2, <1>3, <1>5 DEF AccessIssueFailed, RevokeFamilyOf
<1>6. ASSUME NEW t \in Token, Logout(t)
      PROVE  FALSE
  BY <1>2, <1>3, <1>6 DEF Logout, RevokeFamilyOf
<1>7. ASSUME NEW c \in Call, Rotate(c)
      PROVE  ReplayDetected(c) /\ Requested(c).sid = s
  <2>1. RotateInvalid(c) \/ ReplayDetected(c) \/ RotateExpired(c)
    BY <1>2, <1>7 DEF Rotate, RotateUnknown, RecoverSuccessor, RecoverTooLong, RotateFresh
  <2>2. ASSUME NEW why, Reject(c, why)  PROVE Requested(c).sid = s /\ why = "refresh_reuse"
    BY <1>3, <2>2 DEF Reject
  <2>3. InvalidReason(c) # "refresh_reuse"
    BY DEF InvalidReason
  <2>4. QED  BY <2>1, <2>2, <2>3 DEF RotateInvalid, ReplayDetected, RotateExpired
<1>8. CASE ChangeCredentials
  BY <1>1, <1>8 DEF ChangeCredentials, Revoke, SessionRow
<1>9. CASE DeleteAccount \/ DeleteExpired
  BY <1>1, <1>9 DEF DeleteAccount, DeleteExpired, DeleteSessions, SessionRow
<1>10. QED
  BY <1>2, <1>4, <1>5, <1>6, <1>7, <1>8, <1>9
  DEF Next, vars, Login, CreateRejected, StartRefresh, Deliver, Lose, Tick

\* Who is taken for a replay has come after the grace: inside it every token
\* along the walk still has its own, and what leads on from it is not erased.
LEMMA ReplaysAreLate ==
  ASSUME IInv, SealsLast, NEW c \in Call, ReplayDetected(c)
  PROVE  call[c].ph = "refresh" /\ call'[c].ph = "idle" /\ Requested(c).retry < clock
<1> DEFINE old == call[c].tok
           now == call[c].now
           e == WalkEnd(old, now)
<1>1. /\ call[c].ph = "refresh" /\ Stored(old) /\ token[old].st = "consumed"
      /\ token[e].st = "consumed" /\ ~Followable(e, now)
  BY DEF ReplayDetected, Consumed, Loaded, Requested
<1>2. /\ old \in Token /\ now \in Nat /\ clock \in Nat /\ now <= clock
      /\ \A t \in Token : token[t].retry \in Nat
      /\ call \in [Call -> CallState]
  BY <1>1 DEF IInv, TypeOK, CallsCarryTokens, ClocksRead, CallState, TokenRow
<1>3. call'[c].ph = "idle"
  BY <1>2 DEF ReplayDetected, Reject, Idle, Request
<1>4. e \in Token /\ token[e].retry \in Nat /\ token[old].retry <= token[e].retry
  BY <1>1, <1>2, WalkLeads DEF Family
<1>5. token[e].next \in Family(token[e].sid) /\ token[token[e].next].gen = token[e].gen + 1
  BY <1>1, <1>4 DEF IInv, ConsumedHasSuccessor
<1>6. token[e].retry < now \/ ~token[e].sealed
  BY <1>1, <1>2, <1>4, <1>5 DEF Followable
<1>7. token[e].retry < clock
  BY <1>1, <1>2, <1>4, <1>6 DEF SealsLast
<1>8. QED  BY <1>1, <1>2, <1>3, <1>4, <1>7 DEF Requested

\* No client that repeats a refresh inside its grace loses its session as a
\* thief, however many rotations, other retries and clean-ups came between.
THEOREM NoFalseAlarm == Spec => NoReplayAlarmInsideGrace
<1>1. Init => SealsLast
  BY DEF Init, SealsLast, UnusedToken
<1>2. IInv /\ SealsLast /\ [Next]_vars => SealsLast'
  BY SealsStay
<1>3. IInv /\ SealsLast /\ [Next]_vars =>
        [\A s \in Session : (session[s].reason = "none" /\ session'[s].reason = "refresh_reuse") =>
           \E c \in Call : /\ call[c].ph = "refresh"
                           /\ call'[c].ph = "idle"
                           /\ Requested(c).sid = s
                           /\ Requested(c).retry < clock]_vars
  BY ReuseIsReplay, ReplaysAreLate
<1> QED
  BY <1>1, <1>2, <1>3, InductiveInvariant, PTL DEF Spec, NoReplayAlarmInsideGrace
==============================================================================
