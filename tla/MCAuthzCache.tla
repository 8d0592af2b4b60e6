---------------------------- MODULE MCAuthzCache ----------------------------
(* Small instances of AuthzCache for TLC. *)
EXTENDS AuthzCache

\* Every Project Grant delegates every role.
DelegateAll == [g \in ProjectGrants |-> Roles]
=============================================================================
