------------------------------ MODULE MCLocalFiles ------------------------------
(* LocalFiles for TLC: processes are interchangeable. *)
EXTENDS LocalFiles, TLC

Symmetry == Permutations(Procs)

===============================================================================
