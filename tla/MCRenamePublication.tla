------------------------- MODULE MCRenamePublication --------------------------
(* Instances of RenamePublication for TLC. *)
EXTENDS RenamePublication, TLC

(* Names, occurrences and worker threads are interchangeable. *)
Interchangeable == Permutations(Workers) \cup Permutations(Paths) \cup Permutations(Items)
===============================================================================
