--------------------------- MODULE AtomicRestore ---------------------------
(* What a replacement restore promises whoever writes to the server: the     *)
(* world is the one from before the restore or the restored one, never a     *)
(* mixture, and which of the two is settled once, by one commit decision     *)
(* that no later failure or restart takes back.                              *)
(* RestoreRecovery implements this promise (restore_recovery.go, server.go). *)
EXTENDS Naturals

VARIABLES
    view,       \* what writers work on: "old", "new", or "hidden" while nobody may write
    committed   \* the commit decision

Init == view = "old" /\ committed = FALSE

Hide == view # "hidden" /\ view' = "hidden" /\ UNCHANGED committed
Commit == view = "hidden" /\ committed' = TRUE /\ UNCHANGED view
Show ==
    /\ view = "hidden"
    /\ view' = IF committed THEN "new" ELSE "old"
    /\ UNCHANGED committed

Next == Hide \/ Commit \/ Show

Spec == Init /\ [][Next]_<<view, committed>>
=============================================================================
