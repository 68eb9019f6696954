-------------------------- MODULE MCOwnedExecutor --------------------------
(* Small instances of OwnedExecutor. *)
EXTENDS OwnedExecutor

CONSTANTS w1, w2, w3, w4, t1, t2

\* The integer 1 in both representations, the string "1" and another integer.
MCIdOf == w1 :> Signed(1) @@ w2 :> Text(1) @@ w3 :> Unsigned(1) @@ w4 :> Signed(2)

FourWorks == {w1, w2, w3, w4}
TwoWorks == {w1, w2}
TwoCallers == {t1, t2}
OneStubborn == {w1}
AllReturn == {}
=============================================================================
