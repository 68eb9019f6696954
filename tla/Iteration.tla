------------------------------ MODULE Iteration ------------------------------
(* Loops: what is carried from one round to the next. *)
EXTENDS Naturals

\* What start has become after n rounds; round n makes step[n][x] of x.
Iterate(start, step) ==
    LET made[n \in Nat] == IF n = 0 THEN start ELSE step[n][made[n - 1]]
    IN  made
=============================================================================
