----------------------------- MODULE MCFactory -----------------------------
(* One user with an account of the release before and two without one.     *)
EXTENDS Factory, TLC

CONSTANTS e1, e2, e3

Newcomers == Permutations({e2, e3})
=============================================================================
