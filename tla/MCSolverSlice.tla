---------------------------- MODULE MCSolverSlice ----------------------------
(* Small instances of SolverSlice for TLC. *)
EXTENDS SolverSlice, TLC

CONSTANTS farField, region, w1, w2
Interchangeable == Permutations(Workflows)
=============================================================================
