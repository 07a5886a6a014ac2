---------------------------- MODULE MCSolveJobs ----------------------------
(* Small instances of SolveJobs for TLC. *)
EXTENDS SolveJobs, TLC

CONSTANTS u1, r1, r2, w1, w2, i1

MCOwner == [r \in Requests |-> u1]
MCKind == [r \in Requests |-> IF r = r1 THEN "solve" ELSE "near_field"]

(* Worker invocations are interchangeable. *)
Symmetry == Permutations(Workers)
=============================================================================
