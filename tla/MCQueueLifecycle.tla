-------------------------- MODULE MCQueueLifecycle --------------------------
(***************************************************************************)
(* Values of the constants of QueueLifecycle for TLC.                      *)
(***************************************************************************)
EXTENDS QueueLifecycleInvariant

CONSTANTS w1, w2, r1, r2

\* Two readers and two writers, configured with different sizes.
MCSizeOf == [p \in Processes |-> IF p \in {w1, r1} THEN 1 ELSE 2]
=============================================================================
