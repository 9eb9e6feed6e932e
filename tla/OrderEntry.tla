----------------------------- MODULE OrderEntry -----------------------------
(***************************************************************************)
(* Order entry: AlpacaAgent.publish_order of alpha/agents and the process  *)
(* of ledger_main.cpp.                                                     *)
(*                                                                         *)
(* Every agent claims a message on the order queue in a with block, fills  *)
(* it from an OrderRequest, and closes its publication when it is torn     *)
(* down.  The ledger subscribes to that queue in start.  No code calls     *)
(* Ledger::run, so neither that nor on_fragment is a step of the process.  *)
(* The publications and the subscription are those of Archive; what is in  *)
(* an order is left out.                                                   *)
(***************************************************************************)
EXTENDS Archive

CONSTANT Ledger   \* the one subscriber: the ledger's order_entry_subscription

VARIABLE ledger   \* how far the ledger process is

allVars == <<vars, ledger>>

OrderInit == Init /\ ledger = "start"

-----------------------------------------------------------------------------
(* Agents *)

\* publish_order does not ask whether anybody reads.
PublishOrder(a) ==
  /\ pub[a].blocks = << >>
  /\ EnterBlock(a)
  /\ UNCHANGED ledger

\* The claim returns, the assignments are made, the block ends, its commit and
\* that of the teardown.
Publishing(a) ==
  /\ \/ Granted(a)
     \/ pub[a].blocks # << >> /\ Fill(a, pub[a].blocks[1])
     \/ ExitBlock(a) \/ CommitNext(a) \/ CommitDone(a)
  /\ UNCHANGED ledger

\* An assignment raises: orderId takes a number, client_order_id is a str.
OrderRaises(a) == RaiseInBlock(a) /\ UNCHANGED ledger

Teardown(a) == Close(a) /\ UNCHANGED ledger

-----------------------------------------------------------------------------
(* The ledger process *)

\* start: the order queue first, ...
OpenOrderEntry ==
  /\ ledger = "start"
  /\ Open(Ledger)
  /\ ledger' = "subscribed"

\* ... then the admin queues.
OpenAdmin ==
  /\ ledger = "subscribed"
  /\ ledger' = "started"
  /\ UNCHANGED vars

\* Each of the three may throw.  Nothing in main catches it, and terminate closes
\* nothing.
StartThrows ==
  /\ ledger \in {"start", "subscribed"}
  /\ ledger' = "terminated"
  /\ UNCHANGED vars

-----------------------------------------------------------------------------
(* Specification *)

LedgerProgress == OpenOrderEntry \/ OpenAdmin \/ StartThrows

\* main: after start it spins on quit, which nothing sets.
MainNext ==
  \/ \E a \in Publishers :
       PublishOrder(a) \/ Publishing(a) \/ OrderRaises(a) \/ Teardown(a)
  \/ LedgerProgress

MainSpec ==
  /\ OrderInit /\ [][MainNext]_allVars
  /\ \A a \in Publishers : WF_allVars(Publishing(a))
  /\ WF_allVars(LedgerProgress)

-----------------------------------------------------------------------------
(* Property *)

=============================================================================
