--------------------------- MODULE MCMfaChallenge ---------------------------
(* Small instances of MfaChallenge for TLC. *)
EXTENDS MfaChallenge, TLC

\* The requests are interchangeable, and so are the handles and the batches.
MfaSymmetry == Permutations(Requests) \cup Permutations(Handles)
                   \cup Permutations(Factors) \cup Permutations(Batches)
=============================================================================
