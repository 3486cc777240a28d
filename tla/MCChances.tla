----------------------------- MODULE MCChances -----------------------------
(* Two goroutines; one name is thrown with the chance of the list, one is in *)
(* the list and its callers bring a chance all the same.                     *)
EXTENDS Chances, TLC

Symmetric == Permutations(Goroutines)
=============================================================================
