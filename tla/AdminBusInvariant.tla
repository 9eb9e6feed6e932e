------------------------- MODULE AdminBusInvariant -------------------------
(***************************************************************************)
(* Why agents know what they have heard: the inductive invariant behind    *)
(* the properties of AdminBus.                                             *)
(***************************************************************************)
EXTENDS AdminBus, ArchiveInvariant

Mappings == [Names -> Ids \cup {NoId, Unknown}]
Agents == [is_live : BOOLEAN, symbol_mapping : Mappings]

BusTypeOK ==
  /\ ArchiveTypeOK
  /\ content \in Seq(Commands)
  /\ Len(content) = Len(log)
  /\ agent \in [Subscribers -> Agents]

\* An agent is between the place it started at and the end of the queue, and its
\* callback is with the message it goes to next.
PlaceInv ==
  \A a \in Subscribers :
    /\ joined[a] = 0 <=> next[a] = 0
    /\ joined[a] <= next[a] /\ next[a] <= Len(log) + 1
    /\ IF handler[a] = "idle"
         THEN reading[a] = 0
         ELSE /\ reading[a] = next[a] /\ reading[a] \in DOMAIN log
              /\ log[reading[a]] = "ready"

\* An agent has heard nothing that is still open.
HeardReady ==
  \A a \in Subscribers : \A i \in Heard(a) : log[i] = "ready"

\* Whoever publishes, raises and starts: an agent has heard what is between its
\* start and its place and nothing else, all of it committed, and has the last
\* id and the shutdowns of that.
BusInv ==
  BusTypeOK /\ PlaceInv /\ HeardReady /\ SymbolsCurrent /\ StopsWhenTold
=============================================================================
