------------------------------- MODULE MCPager -------------------------------
(* Pager for TLC: processes are interchangeable. *)
EXTENDS Pager, TLC

Symmetry == Permutations(Pids)
=============================================================================
