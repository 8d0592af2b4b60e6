--------------------------- MODULE MCLoginLimiter ---------------------------
(* LoginLimiter for TLC.                                                    *)
EXTENDS LoginLimiter, TLC

CONSTANTS addr, ip

FreeOf == (addr :> 1) @@ (ip :> 2)

Symmetric == Permutations(Attempt)
=============================================================================
