------------------------------ MODULE MCSetupCache -----------------------------
(***************************************************************************)
(* SetupCache with three circuits: two of one cycle, whose caches share a  *)
(* file, and one of another cycle.                                         *)
(***************************************************************************)
EXTENDS SetupCache, TLC

CONSTANTS p1, p2, merge, square, mnt

\* format!("outer_lean_setup_pk_vk_{}.bin", safe_name)
Cycle(c) == IF c = mnt THEN "mnt4_mnt6" ELSE "bls12_bw6"

MCPaths == {"mnt4_mnt6", "bls12_bw6"}

Symmetry == Permutations(Callers)

================================================================================
