----------------------------- MODULE MCArchive -----------------------------
(***************************************************************************)
(* Values of the constants of Archive for TLC.                             *)
(***************************************************************************)
EXTENDS ArchiveInvariant, TLC

CONSTANTS p1, p2, s1, s2

\* The processes of each kind run the same code.
Symmetry == Permutations(Publishers) \cup Permutations(Subscribers)
=============================================================================
