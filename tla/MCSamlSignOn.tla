---------------------------- MODULE MCSamlSignOn ----------------------------
(* Small instances of SamlSignOn for TLC. *)
EXTENDS SamlSignOn, TLC

CONSTANTS home1, other1

\* Both registrations are of one organization and take turns at one entity id.
OrgOf(r) == home1

EntityOf(x) == "sp"

Symmetric == Permutations(Requests) \cup Permutations(Sessions)
             \cup Permutations(Registrations)
=============================================================================
