---- MODULE MCAutoSave ----
(* Small instances of AutoSave for TLC. *)
EXTENDS AutoSave, TLC
FewSlips == Cardinality(slips) <= 1   \* a bound
\* With two projects it makes no difference which of them is opened first.
FirstOpened == bound[1] # CHOOSE p \in Projects : TRUE
====
