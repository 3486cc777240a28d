-------------------------- MODULE MCMessageRecords --------------------------
EXTENDS MessageRecords, TLC

Symmetric == Permutations(Goroutines) \cup Permutations(Nicks)
=============================================================================
