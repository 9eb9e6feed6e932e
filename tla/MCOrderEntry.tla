---------------------------- MODULE MCOrderEntry ----------------------------
(***************************************************************************)
(* Values of the constants of OrderEntry for TLC.                          *)
(***************************************************************************)
EXTENDS OrderEntry

CONSTANTS a1, a2
=============================================================================
