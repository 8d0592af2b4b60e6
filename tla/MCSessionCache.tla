--------------------------- MODULE MCSessionCache ---------------------------
(* Small instances of SessionCache for TLC. *)
EXTENDS SessionCache

CONSTANT s1

\* Every request carries the cookie of the one session.
OneCookie == [p \in Lookups |-> s1]
=============================================================================
