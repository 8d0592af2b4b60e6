----------------------------- MODULE MCCodeFlow -----------------------------
(* Small instances of CodeFlow for TLC. *)
EXTENDS CodeFlow, TLC

CONSTANTS c1, c2, u1

\* The user and one of the clients belong to one organization.
OrgOf(x) == IF x = c2 THEN "other" ELSE "home"

Symmetric == Permutations(Requests) \cup Permutations(Asks)
             \cup Permutations(Codes) \cup Permutations(Sessions)
=============================================================================
