--------------------------- MODULE WriteAdmission ---------------------------
(***************************************************************************)
(* What the maintenance gate promises.  Writes are admitted only while the *)
(* system is open; a maintenance operation closes it, works alone once the *)
(* admitted writes are over, and reopens it, unless it leaves the data in  *)
(* a state that only an operator may touch.                                *)
(***************************************************************************)
CONSTANT Thread

VARIABLES
  mode,     \* "open", "closing", "exclusive" or "closed"
  writers   \* threads with an admitted write

Init == mode = "open" /\ writers = {}

Admit(t) == mode = "open" /\ writers' = writers \cup {t} /\ UNCHANGED mode
Retire(t) == t \in writers /\ writers' = writers \ {t} /\ UNCHANGED mode
Close == mode = "open" /\ mode' = "closing" /\ UNCHANGED writers
Enter == mode = "closing" /\ writers = {} /\ mode' = "exclusive" /\ UNCHANGED writers
Reopen == mode = "exclusive" /\ mode' \in {"open", "closed"} /\ UNCHANGED writers

Next == (\E t \in Thread : Admit(t) \/ Retire(t)) \/ Close \/ Enter \/ Reopen

Spec == Init /\ [][Next]_<<mode, writers>>
=============================================================================
