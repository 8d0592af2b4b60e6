--------------------------- MODULE MCRefreshTokens ---------------------------
(* Small instances of RefreshTokens for TLC. *)
EXTENDS RefreshTokens, TLC

\* The requests are interchangeable.
RequestSymmetry == Permutations(Requests)
=============================================================================
