------------------------------ MODULE MCClient ------------------------------
(* Instances of Client for TLC: two callers, and a peer with two requests whose *)
(* identifiers are one number and one string.                                   *)
EXTENDS Client, TLC

CONSTANTS r1, r2, k1, k2

MCCallId == (k1 :> Unsigned(1)) @@ (k2 :> Text(1))
=============================================================================
