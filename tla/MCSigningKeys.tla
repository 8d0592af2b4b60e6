--------------------------- MODULE MCSigningKeys ---------------------------
(* SigningKeys for TLC. *)
EXTENDS SigningKeys, TLC

Symmetric == Permutations(Key) \cup Permutations(Instance)
=============================================================================
