--------------------------- MODULE MCBookkeeping ---------------------------
(* Two personal accounts, one public, and requests for each kind of account. *)
EXTENDS Bookkeeping, TLC
CONSTANTS p1, p2, c1
MCRequest ==
  {[account |-> p1, effect |-> -1], [account |-> "personal", effect |-> 1],
   [account |-> c1, effect |-> -2]}
Handlers == Permutations(Call)
=============================================================================
