--------------------------- MODULE MCCopyPublication ---------------------------
(* Instances of CopyPublication for TLC. *)
EXTENDS CopyPublication, TLC

(* Names, occurrences and worker threads are interchangeable. *)
Interchangeable == Permutations(Workers) \cup Permutations(Paths) \cup Permutations(Items)
===============================================================================
