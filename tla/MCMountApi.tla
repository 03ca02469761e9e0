----------------------------- MODULE MCMountApi -----------------------------
(* Two programs, one device number, one drive letter, one directory.       *)
EXTENDS MountApi, TLC

CONSTANTS c1, c2, n1

MCSymmetry == Permutations({c1, c2})
=============================================================================
