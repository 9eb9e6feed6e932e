----------------------------- MODULE MCIpcQueue -----------------------------
(***************************************************************************)
(* Values of the constants of IpcQueue for TLC.                            *)
(***************************************************************************)
EXTENDS IpcQueueRefinement, IpcQueueInvariant, TLC

CONSTANTS w1, w2, r1, r2

\* The processes of each kind run the same code.
Symmetry == Permutations(Writers) \cup Permutations(Readers)
=============================================================================
