-------------------------- MODULE MCRefreshSessions --------------------------
(* Tokens, calls and sessions are interchangeable. *)
EXTENDS RefreshSessions, TLC

Symmetry == Permutations(Token) \cup Permutations(Call) \cup Permutations(Session)
==============================================================================
