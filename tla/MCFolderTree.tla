----------------------------- MODULE MCFolderTree -----------------------------
(* FolderTree on a few folders, with the ids as model values.              *)
EXTENDS FolderTree, TLC

\* Handlers are not interchangeable: not each of them deletes.
Symmetry == Permutations(Personal) \cup Permutations(Courses)
                \cup Permutations(OwnProjects) \cup Permutations(CourseProjects)

\* A bound: a third personal folder only as long as there are no courses and
\* no projects.
FewThings ==
  \/ Cardinality({f \in Personal : state[f] # "free"}) <= 2
  \/ /\ \A c \in Courses : state[c] = "free"
     /\ \A p \in Projects : place[p] = "new"
     /\ \A h \in Handlers : ~Does(h, "place")
================================================================================
