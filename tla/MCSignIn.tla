------------------------------- MODULE MCSignIn -------------------------------
(* Two pages: p1, with a login form and up to two calls at a time, and p2  *)
(* with one call at a time.                                                *)
EXTENDS SignIn, TLC

CONSTANTS p1, p2, c1, c2, d1

MCSenders == {p1} \cup Callers
MCPageOf == [s \in MCSenders |-> IF s = d1 THEN p2 ELSE p1]

CallersOfOnePage == Permutations({c1, c2})
===============================================================================
