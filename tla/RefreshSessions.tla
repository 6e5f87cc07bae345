--------------------------- MODULE RefreshSessions ---------------------------
(***************************************************************************)
(* Browser sessions and rotating refresh tokens: SessionService and        *)
(* SQLiteRefreshTokenRepository.                                           *)
(*                                                                         *)
(* One user is enough: no statement of the repository reads or writes the  *)
(* rows of two users.  A session row is a family of refresh tokens; every  *)
(* refresh replaces the family's newest token by a fresh one and keeps,    *)
(* for a short grace period, the sealed successor so that a client whose   *)
(* response was lost can recover it.  A call reads the wall clock before   *)
(* it waits for the write lock, so its `now' may be stale when its         *)
(* transaction runs.  Transactions are serialized (rotationMu and          *)
(* _txlock=immediate), hence one action each; a failed transaction rolls   *)
(* back and looks like a lost call.                                        *)
(***************************************************************************)
EXTENDS Integers, FiniteSets

CONSTANTS Session, Token, Call, NoToken, NoSession,
          RefreshTTL, AbsoluteTTL, RetryGrace,  \* the configured durations
          MaxHops,                              \* maxRecoveryHops
          MaxTime, MaxPwd                       \* bounds: last tick, changes of password

ASSUME DurationsPositive == /\ RefreshTTL \in Nat \ {0}
                            /\ AbsoluteTTL \in Nat \ {0}
                            /\ RetryGrace \in Nat \ {0}
                            /\ RetryGrace < RefreshTTL
ASSUME BoundsNat == MaxTime \in Nat /\ MaxPwd \in Nat /\ MaxHops \in Nat
ASSUME NamesApart == NoToken \notin Token /\ NoSession \notin Session

VARIABLES
  clock,    \* wall clock, in seconds as the repository stores it
  user,     \* users row: [st, pv]
  session,  \* auth_sessions rows
  token,    \* refresh_tokens rows
  call,     \* requests in flight (memory of the server)
  known     \* tokens some client has received

vars == <<clock, user, session, token, call, known>>

Least(a, b) == IF a <= b THEN a ELSE b

Reasons == {"none", "access_issue_failed", "logout", "credentials_changed",
            "absolute_expired", "refresh_expired", "refresh_reuse"}

SessionRow == [st : {"unused", "live", "revoked", "deleted"},
               reason : Reasons, pv : Nat, abs : Nat]
TokenRow == [st : {"unused", "active", "consumed", "deleted"},
             sid : Session \cup {NoSession}, gen : Nat, exp : Nat,
             next : Token \cup {NoToken}, retry : Nat, sealed : BOOLEAN]
CallState == [ph : {"idle", "login", "created", "refresh", "replied"},
              tok : Token \cup {NoToken}, now : Nat, pv : Nat]

Request(ph, t, now, pv) == [ph |-> ph, tok |-> t, now |-> now, pv |-> pv]
Idle == Request("idle", NoToken, 0, 0)
UnusedSession == [st |-> "unused", reason |-> "none", pv |-> 0, abs |-> 0]
UnusedToken == [st |-> "unused", sid |-> NoSession, gen |-> 0, exp |-> 0,
                next |-> NoToken, retry |-> 0, sealed |-> FALSE]

Init ==
  /\ clock = 0
  /\ user = [st |-> "active", pv |-> 0]
  /\ session = [s \in Session |-> UnusedSession]
  /\ token = [t \in Token |-> UnusedToken]
  /\ call = [c \in Call |-> Idle]
  /\ known = {}

Stored(t) == token[t].st \in {"active", "consumed"}
Family(s) == {t \in Token : Stored(t) /\ token[t].sid = s}

\* The reading of s.now().UTC().Truncate(time.Second).
ReadClock == {clock}

\* Mutant: a later revocation overwrites the first.
RevokeAgain(row, why) ==
  IF row.st \in {"live", "revoked"} THEN [row EXCEPT !.st = "revoked", !.reason = why] ELSE row

\* COALESCE(revoked_at, ?), COALESCE(revoke_reason, ?): the first reason stays.
Revoke(row, why) ==
  IF row.st = "live" THEN [row EXCEPT !.st = "revoked", !.reason = why] ELSE row

NewToken(s, g, e) ==
  [st |-> "active", sid |-> s, gen |-> g, exp |-> e, next |-> NoToken, retry |-> 0, sealed |-> FALSE]

------------------------------------------------------------------------------
(* Login: the user row is read and the password checked outside any        *)
(* transaction; the session is inserted later, guarded by pwd_version.     *)

Login(c) ==
  /\ call[c].ph = "idle"
  /\ user.st = "active"
  /\ call' = [call EXCEPT ![c] = Request("login", NoToken, clock, user.pv)]
  /\ UNCHANGED <<clock, user, session, token, known>>

\* Mutant: the insert checks the account and forgets the password version.
AccountPresent(pv) == user.st = "active"

\* INSERT ... SELECT ... FROM users WHERE not deleted AND pwd_version = ?
CredentialsCurrent(pv) == user.st = "active" /\ user.pv = pv

CreateSession(c, s, t) ==
  /\ call[c].ph = "login"
  /\ CredentialsCurrent(call[c].pv)
  /\ session[s].st = "unused"
  /\ token[t].st = "unused"
  /\ \E now \in call[c].now .. clock :
       /\ session' = [session EXCEPT ![s] =
            [st |-> "live", reason |-> "none", pv |-> call[c].pv, abs |-> now + AbsoluteTTL]]
       /\ token' = [token EXCEPT ![t] =
            NewToken(s, 0, Least(now + RefreshTTL, now + AbsoluteTTL))]
  /\ call' = [call EXCEPT ![c] = Request("created", t, 0, 0)]
  /\ UNCHANGED <<clock, user, known>>

CreateRejected(c) ==
  /\ call[c].ph = "login"
  /\ ~CredentialsCurrent(call[c].pv)
  /\ call' = [call EXCEPT ![c] = Idle]
  /\ UNCHANGED <<clock, user, session, token, known>>

\* RevokeByTokenHash: any generation of the family names the session.
RevokeFamilyOf(t, why) ==
  IF Stored(t) THEN [session EXCEPT ![token[t].sid] = Revoke(@, why)] ELSE session

AccessIssueFailed(c) ==
  /\ call[c].ph = "created"
  /\ session' = RevokeFamilyOf(call[c].tok, "access_issue_failed")
  /\ call' = [call EXCEPT ![c] = Idle]
  /\ UNCHANGED <<clock, user, token, known>>

------------------------------------------------------------------------------
(* Refresh.  The hash and the clock are taken first, then Rotate runs.     *)

StartRefresh(c, t) ==
  /\ call[c].ph = "idle"
  /\ t \in known
  /\ \E now \in ReadClock :
       call' = [call EXCEPT ![c] = Request("refresh", t, now, 0)]
  /\ UNCHANGED <<clock, user, session, token, known>>

Requested(c) == token[call[c].tok]
FamilyRow(c) == session[Requested(c).sid]

\* Rotate has loaded a stored token of a session that is not revoked.
Loaded(c) == call[c].ph = "refresh" /\ Stored(call[c].tok) /\ FamilyRow(c).st = "live"

InvalidReason(c) ==
  IF ~CredentialsCurrent(FamilyRow(c).pv) THEN "credentials_changed"
  ELSE IF FamilyRow(c).abs <= call[c].now THEN "absolute_expired"
  ELSE "none"

Reject(c, why) ==
  /\ session' = [session EXCEPT ![Requested(c).sid] = Revoke(@, why)]
  /\ call' = [call EXCEPT ![c] = Idle]
  /\ UNCHANGED <<clock, user, token, known>>

Reply(c, t) == call' = [call EXCEPT ![c] = Request("replied", t, 0, 0)]

\* No row, or the family is revoked: an error and no write.
RotateUnknown(c) ==
  /\ call[c].ph = "refresh"
  /\ ~Loaded(c)
  /\ call' = [call EXCEPT ![c] = Idle]
  /\ UNCHANGED <<clock, user, session, token, known>>

RotateInvalid(c) ==
  /\ Loaded(c)
  /\ InvalidReason(c) # "none"
  /\ Reject(c, InvalidReason(c))

\* May the successor pointer of a consumed token be followed at time now?
Followable(t, now) ==
  /\ token[t].st = "consumed"
  /\ now <= token[t].retry
  /\ token[t].sealed
  /\ token[t].next \in Family(token[t].sid)
  /\ token[token[t].next].gen = token[t].gen + 1

\* Where the walk along the successors stops, after at most MaxHops hops.
WalkEnd(t, now) ==
  LET hop[n \in 0 .. MaxHops] ==
        IF n = 0 THEN t
        ELSE IF Followable(hop[n - 1], now) THEN token[hop[n - 1]].next ELSE hop[n - 1]
  IN  hop[MaxHops]

Consumed(c) == Loaded(c) /\ InvalidReason(c) = "none" /\ Requested(c).st = "consumed"

\* Mutant: hand out the direct successor, consumed or not.
RecoverDirectSuccessor(c) ==
  /\ Consumed(c)
  /\ Followable(call[c].tok, call[c].now)
  /\ Reply(c, Requested(c).next)
  /\ UNCHANGED <<clock, user, session, token, known>>

\* The newest generation is found: return it again and touch last_used_at.
\* Rotate also rejects a newest generation that has expired; SuccessorOutlivesGrace
\* shows that no retry inside its grace can meet one.
RecoverSuccessor(c) ==
  /\ Consumed(c)
  /\ \E t \in Family(Requested(c).sid) :
       /\ t = WalkEnd(call[c].tok, call[c].now)
       /\ token[t].st = "active"
       /\ token[t].exp > call[c].now
       /\ Reply(c, t)
  /\ UNCHANGED <<clock, user, session, token, known>>

\* More than MaxHops successors inside their grace: an error and a rollback.
RecoverTooLong(c) ==
  /\ Consumed(c)
  /\ Followable(WalkEnd(call[c].tok, call[c].now), call[c].now)
  /\ call' = [call EXCEPT ![c] = Idle]
  /\ UNCHANGED <<clock, user, session, token, known>>

\* The walk broke at a consumed token: a replay, the whole family goes.
ReplayDetected(c) ==
  /\ Consumed(c)
  /\ LET t == WalkEnd(call[c].tok, call[c].now)
     IN  token[t].st = "consumed" /\ ~Followable(t, call[c].now)
  /\ Reject(c, "refresh_reuse")

Active(c) == Loaded(c) /\ InvalidReason(c) = "none" /\ Requested(c).st = "active"
SuccessorExpiry(c) == Least(call[c].now + RefreshTTL, FamilyRow(c).abs)

\* The last test of Rotate, refreshExpiresAt <= now, cannot hold here: the
\* TTL is positive and an expired family was rejected above.
RotateExpired(c) ==
  /\ Active(c)
  /\ Requested(c).exp <= call[c].now
  /\ Reject(c, "refresh_expired")

\* Mutant: consumed_at is not set.
ConsumeStaysActive(row, u, now) ==
  [row EXCEPT !.next = u, !.retry = now + RetryGrace, !.sealed = TRUE]

Consume(row, u, now) ==
  [st |-> "consumed", sid |-> row.sid, gen |-> row.gen, exp |-> row.exp,
   next |-> u, retry |-> now + RetryGrace, sealed |-> TRUE]

RotateFresh(c, u) ==
  /\ Active(c)
  /\ Requested(c).exp > call[c].now
  /\ token[u].st = "unused"
  /\ token' = [token EXCEPT
       ![call[c].tok] = Consume(@, u, call[c].now),
       ![u] = NewToken(Requested(c).sid, Requested(c).gen + 1, SuccessorExpiry(c))]
  /\ Reply(c, u)
  /\ UNCHANGED <<clock, user, session, known>>

Rotate(c) ==
  \/ RotateUnknown(c) \/ RotateInvalid(c)
  \/ RecoverSuccessor(c) \/ RecoverTooLong(c) \/ ReplayDetected(c)
  \/ RotateExpired(c) \/ \E u \in Token : RotateFresh(c, u)

------------------------------------------------------------------------------
(* Delivery, loss, logout, credential changes and the cleanup worker.      *)

Deliver(c) ==
  /\ call[c].ph \in {"created", "replied"}
  /\ known' = known \cup {call[c].tok}
  /\ call' = [call EXCEPT ![c] = Idle]
  /\ UNCHANGED <<clock, user, session, token>>

\* A cancelled request, a rolled back transaction, a response that never
\* arrives, or a restart of the server: what was committed stays committed.
Lose(c) ==
  /\ call[c].ph # "idle"
  /\ call' = [call EXCEPT ![c] = Idle]
  /\ UNCHANGED <<clock, user, session, token, known>>

Logout(t) ==
  /\ t \in known
  /\ session' = RevokeFamilyOf(t, "logout")
  /\ UNCHANGED <<clock, user, token, call, known>>

\* ChangePassword, ResetPassword and ConfirmEmailChange bump pwd_version and
\* run RevokeAllForUser in one transaction.
ChangeCredentials ==
  /\ user.st = "active"
  /\ user.pv < MaxPwd
  /\ user' = [user EXCEPT !.pv = @ + 1]
  /\ session' = [s \in Session |-> Revoke(session[s], "credentials_changed")]
  /\ UNCHANGED <<clock, token, call, known>>

\* Deleting a session row cascades to its refresh_tokens rows.
DeleteSessions(gone, rows) ==
  /\ session' = [s \in Session |-> IF s \in gone THEN [session[s] EXCEPT !.st = "deleted"]
                                   ELSE session[s]]
  /\ token' = [t \in Token |-> IF rows[t].sid \in gone THEN [rows[t] EXCEPT !.st = "deleted"]
                               ELSE rows[t]]

Rows == {s \in Session : session[s].st \in {"live", "revoked"}}

DeleteAccount ==
  /\ user.st = "active"
  /\ user' = [user EXCEPT !.st = "deleted"]
  /\ DeleteSessions(Rows, token)
  /\ UNCHANGED <<clock, call, known>>

\* Mutant: the comparison is not strict.
EraseRecoveryEarly(row) ==
  IF row.st = "consumed" /\ row.retry <= clock THEN [row EXCEPT !.sealed = FALSE] ELSE row
\* retry_until < now, strictly: Rotate still honours retry_until = now.
EraseRecovery(row) ==
  IF row.st = "consumed" /\ row.retry < clock THEN [row EXCEPT !.sealed = FALSE] ELSE row
ExpiredSessions == {s \in Rows : session[s].abs <= clock}

DeleteExpired ==
  /\ DeleteSessions(ExpiredSessions, [t \in Token |-> EraseRecovery(token[t])])
  /\ UNCHANGED <<clock, user, call, known>>

Tick ==
  /\ clock < MaxTime
  /\ clock' = clock + 1
  /\ UNCHANGED <<user, session, token, call, known>>

Next ==
  \/ \E c \in Call :
       \/ Login(c) \/ CreateRejected(c) \/ AccessIssueFailed(c)
       \/ \E s \in Session, t \in Token : CreateSession(c, s, t)
       \/ \E t \in Token : StartRefresh(c, t)
       \/ Rotate(c) \/ Deliver(c) \/ Lose(c)
  \/ \E t \in Token : Logout(t)
  \/ ChangeCredentials \/ DeleteAccount \/ DeleteExpired \/ Tick

\* Time passes and the periodic worker keeps running; nothing is assumed of
\* the clients.
Spec == Init /\ [][Next]_vars /\ WF_vars(Tick) /\ WF_vars(DeleteExpired)
------------------------------------------------------------------------------
\* The only type invariant: rows, calls and clocks have the types above.
TypeOK ==
  /\ clock \in Nat
  /\ user \in [st : {"active", "deleted"}, pv : Nat]
  /\ session \in [Session -> SessionRow]
  /\ token \in [Token -> TokenRow]
  /\ call \in [Call -> CallState]
  /\ known \subseteq Token

\* A family never forks: an unconsumed token is strictly newer than every
\* other stored token of its session, whatever calls raced to rotate it.
OneActiveGeneration ==
  \A t, u \in Token :
    (Stored(t) /\ Stored(u) /\ t # u /\ token[t].sid = token[u].sid /\ token[t].st = "active")
      => token[u].gen < token[t].gen

\* Every consumed token points at the next generation of its own family,
\* which is still stored: a retry always has something to follow.
ConsumedHasSuccessor ==
  \A t \in Token : token[t].st = "consumed" =>
    /\ token[t].next \in Family(token[t].sid)
    /\ token[token[t].next].gen = token[t].gen + 1

\* The grace of a successor never ends before the grace of its predecessor,
\* although each is computed from a clock read before the lock was taken.
GraceNeverShrinks ==
  \A t \in Token : (token[t].st = "consumed" /\ token[t].next \in Token)
    => (token[token[t].next].st = "consumed" => token[t].retry <= token[token[t].next].retry)

\* No session outlives the credentials it was opened with, even when a login
\* had checked the old password before the change committed.
NoLiveSessionWithOldCredentials ==
  \A s \in Session : session[s].st = "live" =>
    user.st = "active" /\ user.pv = session[s].pv

\* A token never outlives its session.
ExpiryWithinSession ==
  \A t \in Token : Stored(t) => token[t].exp <= session[token[t].sid].abs

\* A successor that may still be recovered has not expired, unless the whole
\* session has: a client whose answer was lost is never logged out by the wait.
SuccessorOutlivesGrace ==
  \A t \in Token : token[t].st = "consumed" =>
    \/ token[t].retry < token[token[t].next].exp
    \/ token[token[t].next].exp = session[token[t].sid].abs

\* Revocation is final: the session stays revoked with its first reason until
\* it is deleted, and nothing is added to its family any more.
RevokedIsFinal ==
  [][\A s \in Session : session[s].st = "revoked" =>
       /\ session'[s].st \in {"revoked", "deleted"}
       /\ session'[s].reason = session[s].reason
       /\ \A t \in Token : (token'[t].st = "active" /\ token'[t].sid = s) => token[t].st = "active"]_vars

\* What a refresh hands out is the one active token of a live family: never a
\* consumed intermediate generation, never a token of a revoked session.
RefreshYieldsNewest ==
  [][\A c \in Call : (call[c].ph = "refresh" /\ call'[c].ph = "replied") =>
       LET t == call'[c].tok
       IN  /\ token'[t].st = "active"
           /\ token'[t].gen > token[call[c].tok].gen
           /\ session'[token'[t].sid].st = "live"]_vars

\* A family is never revoked as replayed while the wall clock is still inside
\* the grace of the presented token: cleanup may not race a retry.
NoReplayAlarmInsideGrace ==
  [][\A s \in Session : (session[s].reason = "none" /\ session'[s].reason = "refresh_reuse") =>
       \E c \in Call : /\ call[c].ph = "refresh"
                       /\ call'[c].ph = "idle"
                       /\ Requested(c).sid = s
                       /\ Requested(c).retry < clock]_vars
==============================================================================
