----------------------------- MODULE MCThreadLib -----------------------------
(* ThreadLib for TLC.  Threads are numbered by the code's generator, so only *)
(* mutexes and condition variables are interchangeable.                      *)
EXTENDS ThreadLib, TLC

Symmetry == Permutations(Mutexes) \cup Permutations(CVs)
=============================================================================
