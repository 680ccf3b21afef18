------------------------------ MODULE MCRunQueue ------------------------------
(* Model-checking instances of RunQueue. *)
EXTENDS RunQueue, TLC

CONSTANTS r1, r2, w1, w2, c1, c2

\* Worker processes are interchangeable, and so are API requests.
MCSymmetry == Permutations(Workers) \cup Permutations(Clients)
===============================================================================
