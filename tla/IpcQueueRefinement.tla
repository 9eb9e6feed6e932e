------------------------- MODULE IpcQueueRefinement -------------------------
(***************************************************************************)
(* The queue implements the broadcast channel.                             *)
(***************************************************************************)
EXTENDS IpcQueue

\* The claim that starts at an offset, or the next one to be made.
ClaimIndex(offset) ==
  Cardinality({i \in DOMAIN claims : claims[i].off < offset}) + 1

\* The claim whose payload is in the slot a reader holds; one that does not
\* exist if the slot has no payload.
PayloadIndex(r) ==
  LET body == mem[Slot(r)].body
  IN IF \E i \in DOMAIN claims : claims[i].off = body
       THEN ClaimIndex(body) ELSE Len(claims) + 1

\* What the queue is as a channel: the status of every claim, ...
ClaimLog == [i \in DOMAIN claims |-> claims[i].status]

\* ... the claim each attached reader goes to next, ...
NextClaim ==
  [r \in Readers |-> IF Attached(r) THEN ClaimIndex(reader[r].pos) ELSE 0]

\* ... and the claim each reader holds.
HeldClaim ==
  [r \in Readers |-> IF reader[r].pc = "holding" THEN PayloadIndex(r) ELSE 0]

Channel == INSTANCE BroadcastChannel WITH
  Subscribers <- Readers,
  log <- ClaimLog,
  next <- NextClaim,
  reading <- HeldClaim

\* The class comment, "safe communication between the producer(s) and
\* consumer(s)": each reader gets exactly the committed messages claimed since
\* it joined, each once, in the order of the claims, and none that is still
\* open or was aborted.
ImplementsChannel == Channel!ChannelSpec
=============================================================================
