-------------------------- MODULE MCAccountAccess --------------------------
(* Small instances of AccountAccess for TLC. *)
EXTENDS AccountAccess, TLC

\* Requests, sessions, links and passwords are each interchangeable.
AccountSymmetry == Permutations(Requests) \cup Permutations(Sessions)
                       \cup Permutations(Links) \cup Permutations(Passwords)
=============================================================================
