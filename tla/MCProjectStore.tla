---- MODULE MCProjectStore ----
(* Small instances of ProjectStore for TLC. *)
EXTENDS ProjectStore, TLC
Symmetry == Permutations(Handlers) \cup Permutations(Types) \cup Permutations(Projects)
====
