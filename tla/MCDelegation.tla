---------------------------- MODULE MCDelegation ----------------------------
(* Delegation for TLC: one user of the owner, one of each receiving         *)
(* organization.                                                            *)
EXTENDS Delegation, TLC

CONSTANTS o1, o2, u0, u1, own

HomeOf == (u0 :> own) @@ (u1 :> o1)

Symmetric == Permutations(Role) \cup Permutations(Grant) \cup Permutations(Admin)
=============================================================================
