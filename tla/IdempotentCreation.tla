------------------------- MODULE IdempotentCreation -------------------------
(***************************************************************************)
(* What an Idempotency-Key promises a client.  Under a key one creation    *)
(* books one transaction of its own; whoever is answered under the key, at *)
(* once or later, asked the same and hears of that transaction.  Nothing   *)
(* frees a key but the end of its user, and then nothing is booked again.  *)
(***************************************************************************)
CONSTANTS Call, Key, NoKey, Request, NoRequest, Transaction

VARIABLES
  stored,  \* what a key stands for: the request, and what was booked under it
  told,    \* the last answer of a call: its key, what it asked, what it heard of
  gone     \* the user is

Free == [asked |-> NoRequest, booked |-> {}]
Nothing == [key |-> NoKey, of |-> Free]

Init ==
  /\ stored = [k \in Key |-> Free]
  /\ told = [c \in Call |-> Nothing]
  /\ gone = FALSE

Entry == [asked : Request, booked : {{t} : t \in Transaction}]

Book(c, k) ==
  /\ ~gone /\ told[c] = Nothing /\ stored[k] = Free
  /\ stored'[k] \in Entry
  /\ \A other \in Key : stored[other].booked \cap stored'[k].booked = {}
  /\ stored' = [stored EXCEPT ![k] = stored'[k]]
  /\ told' = [told EXCEPT ![c] = [key |-> k, of |-> stored'[k]]]
  /\ UNCHANGED gone

Repeat(c, k) ==
  /\ told[c] = Nothing /\ stored[k] # Free
  /\ told' = [told EXCEPT ![c] = [key |-> k, of |-> stored[k]]]
  /\ UNCHANGED <<stored, gone>>

\* The call goes on to something else.
Forget(c) ==
  /\ told[c] # Nothing
  /\ told' = [told EXCEPT ![c] = Nothing]
  /\ UNCHANGED <<stored, gone>>

End ==
  /\ ~gone /\ gone' = TRUE
  /\ stored' = [k \in Key |-> Free]
  /\ UNCHANGED told

Next ==
  \/ \E c \in Call :
       \/ \E k \in Key : Book(c, k) \/ Repeat(c, k)
       \/ Forget(c)
  \/ End

Spec == Init /\ [][Next]_<<stored, told, gone>>
=============================================================================
