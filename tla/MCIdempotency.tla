---------------------------- MODULE MCIdempotency ----------------------------
(* Small instances of Idempotency for TLC. *)
EXTENDS Idempotency, TLC

\* The requests are interchangeable, and so are the bodies.
KeySymmetry == Permutations(Requests) \cup Permutations(Bodies)
=============================================================================
