----------------------------- MODULE MCAdminBus -----------------------------
(***************************************************************************)
(* Values of the constants of AdminBus for TLC.                            *)
(***************************************************************************)
EXTENDS AdminBusInvariant

CONSTANTS a1, a2, c1, c2, aapl, garbled

\* Two ids of a name, a shutdown of one agent and of all, and one that cannot be
\* decoded.
KindsPublished ==
  {NewSymbolAdd(aapl, 1), NewSymbolAdd(aapl, NoId),
   AgentShutdown(a1, NoText), AgentShutdown(a1, garbled),
   AllAgentsShutdown(NoText)}

\* ... a block that has written nothing, and a message for handle_admin_bytes.
MorePublished ==
  KindsPublished \cup {NewSymbolAdd(NoText, NoId), OtherMessage}
=============================================================================
