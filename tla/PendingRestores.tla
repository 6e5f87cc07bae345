-------------------------- MODULE PendingRestores --------------------------
(***************************************************************************)
(* The sessions of a cross-account restore: an uploaded backup waits in    *)
(* memory until whoever owns the original address has sent back the code,  *)
(* and is then executed once.  Its files go with it.                       *)
(*                                                                         *)
(* A handler or the timer first marks a session consumed, under the        *)
(* session's own lock, and takes it out of the map and removes its files   *)
(* later; "ending" is the time between.  What a restore does with the      *)
(* files is in CrossAccountRestore, which runs these sessions.             *)
(***************************************************************************)
EXTENDS Naturals, FiniteSets

CONSTANTS
  Session,      \* uploads, each with its restore_id
  Backup,       \* what an upload may hold
  MaxPending,   \* maxPendingRestores
  MaxAttempts   \* wrong codes that end a session

ASSUME LimitsArePositive == MaxPending \in Nat \ {0} /\ MaxAttempts \in Nat \ {0}

VARIABLES
  at,       \* how far the session is
  holds,    \* the backup it holds
  tries,    \* pendingRestore.attempts
  late,     \* sessions whose expiresAt has passed
  files     \* sessions whose temporary files exist

sessions == <<at, holds, tries, late, files>>

Stages == {"new", "sending", "offered", "verified", "executing", "ending", "over"}

InitSessions ==
  /\ at = [s \in Session |-> "new"]
  /\ holds \in [Session -> Backup]
  /\ tries = [s \in Session |-> 0]
  /\ late = {} /\ files = {}

\* Mutant: consumed is not looked at.
NotOver(s) == at[s] \in {"sending", "offered", "verified", "executing"}
\* In the map and not consumed.
Unconsumed(s) == at[s] \in {"sending", "offered", "verified"}
Listed == {s \in Session : Unconsumed(s) \/ at[s] = "ending"}
Expired == {s \in late : Unconsumed(s)}

To(s, stage) == at' = [at EXCEPT ![s] = stage]
\* cleanupPendingRestore
RemoveFiles(S) == files' = files \ S

\* handleRestoreSendVerification with storePendingRestore: the expired sessions
\* go first; without a place in the map the new one goes, too.
Upload(s) ==
  LET room == Cardinality(Listed \ Expired) < MaxPending
      gone == IF room THEN Expired ELSE Expired \cup {s}
  IN /\ at[s] = "new"
     /\ at' = [x \in Session |-> IF x \in gone THEN "over" ELSE IF x = s THEN "sending" ELSE at[x]]
     /\ files' = (files \cup {s}) \ gone
     /\ UNCHANGED <<holds, tries, late>>

\* Only now the client learns the restore_id.
Offer(s) ==
  /\ at[s] = "sending" /\ To(s, "offered")
  /\ UNCHANGED <<holds, tries, late, files>>
\* The mail could not be sent.
Withdraw(s) ==
  /\ at[s] = "sending" /\ To(s, "over")
  /\ RemoveFiles({s})
  /\ UNCHANGED <<holds, tries, late>>

\* handleRestoreVerify with the code of the mail; a token is made.
Verify(s) ==
  /\ at[s] = "offered" /\ s \notin late
  /\ To(s, "verified")
  /\ UNCHANGED <<holds, tries, late, files>>

Exhausted(n) == n = MaxAttempts
\* handleRestoreVerify with a wrong code, before or after the right one.
Guess(s) ==
  /\ at[s] \in {"offered", "verified"} /\ s \notin late
  /\ tries' = [tries EXCEPT ![s] = @ + 1]
  /\ IF Exhausted(tries'[s]) THEN To(s, "ending") ELSE UNCHANGED at
  /\ UNCHANGED <<holds, late, files>>

\* consumePendingRestoreToken
Consume(s) ==
  /\ at[s] = "verified" /\ s \notin late
  /\ To(s, "executing")
  /\ UNCHANGED <<holds, tries, late, files>>

\* The ten minutes are over.
PassTime(s) ==
  /\ at[s] \notin {"new", "over"} /\ s \notin late
  /\ late' = late \cup {s}
  /\ UNCHANGED <<at, holds, tries, files>>

\* expirePendingRestore by the timer, or by a call that finds the session late.
Lapse(s) ==
  /\ s \in late /\ Unconsumed(s)
  /\ To(s, "ending")
  /\ UNCHANGED <<holds, tries, late, files>>

\* CompareAndDelete and the clean-up of whoever ended the session.
Drop(s) ==
  /\ at[s] = "ending" /\ To(s, "over")
  /\ RemoveFiles({s})
  /\ UNCHANGED <<holds, tries, late>>

\* The deferred clean-up of handleRestoreExecute.
EndExecution(s) ==
  /\ To(s, "over")
  /\ RemoveFiles({s})
  /\ UNCHANGED <<holds, tries, late>>

\* The process ends; the files stay where they are.
ForgetSessions ==
  /\ at' = [s \in Session |-> IF at[s] = "new" THEN "new" ELSE "over"]
  /\ UNCHANGED <<holds, tries, late, files>>

Handlers(s) == Upload(s) \/ Offer(s) \/ Withdraw(s) \/ Verify(s) \/ Guess(s)
Clock(s) == PassTime(s) \/ Lapse(s) \/ Drop(s)

SessionsOK ==
  /\ at \in [Session -> Stages] /\ holds \in [Session -> Backup]
  /\ tries \in [Session -> 0 .. MaxAttempts]
  /\ late \subseteq Session /\ files \subseteq Session
=============================================================================
