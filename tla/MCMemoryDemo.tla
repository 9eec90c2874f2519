----------------------------- MODULE MCMemoryDemo ------------------------------
(***************************************************************************)
(* Small instance: two runs and a cleanup that starts again, one outsider. *)
(***************************************************************************)
EXTENDS MemoryDemo, TLC

Interchangeable == Permutations(Runs) \union Permutations(Cleaners)
================================================================================
