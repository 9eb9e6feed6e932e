-------------------------- MODULE IpcQueueInvariant --------------------------
(***************************************************************************)
(* Why the queue is right: the inductive invariants behind the properties  *)
(* of IpcQueue.                                                            *)
(***************************************************************************)
EXTENDS IpcQueue

\* The states of a writer between its compare-and-swap and its last store.
Active(w) == writer[w].pc = "waiting" \/ Owns(w)

-----------------------------------------------------------------------------
(* Under every specification. *)

\* Every claim, made or still to be made, starts where a header fits, and no
\* reader is past more than it has read.
ShapeInv ==
  /\ Rel(writeOffset) <= QueueSize - HeaderSize
  /\ \A w \in Writers : writer[w].pc \notin {"unready", "idle"} =>
       /\ writer[w].size \in Sizes
       /\ Rel(writer[w].off) <= QueueSize - HeaderSize
  /\ \A r \in Readers :
       /\ reader[r].len <= reader[r].pos
       /\ reader[r].pc \notin {"clearing", "advancing"} => reader[r].len = 0

\* A reader that has left the count drains, and polls no more; no other one
\* drains.
LeavingInv ==
  \A r \in Readers :
    /\ reader[r].until # NotClosing =>
         reader[r].pc \notin {"out", "polling", "loaded", "holding"}
    /\ reader[r].pc \in {"draining", "closed"} => reader[r].until # NotClosing

-----------------------------------------------------------------------------
(* With readers that the writers wait for, in two deployments: one reader,  *)
(* whatever it and the writers do; or any number of readers under           *)
(* FanoutSpec.                                                             *)

\* Every writer waits for a reader before it starts, and the byte that counts
\* the readers can count them all.
Served ==
  /\ IsFiniteSet(Readers)
  /\ Cardinality(Readers) < ReaderLimit
  /\ ReadyCheckers = Writers

OneReader == \E r \in Readers : Readers = {r}

\* IpcQueue keeps headers by the position they start at, so that a new one has
\* no commit flag until its writer stores it.  In the packed bytes of the code,
\* with one writer and one reader, that is so for the configurations that
\* HeaderBytesProofs calls OneByteOffsets and AlignedMessages: write offsets
\* below 256, or messages that all end on a multiple of a unit that keeps each
\* flag (byte 17 of a header) off each abs_offset (bytes 0 to 7).  Without
\* either, a stale byte can be taken for a flag.
HeadersByPosition ==
  /\ HeaderSize = 18
  /\ \/ MaxOffset <= 256
     \/ \E unit \in Nat \ {0} :
          /\ 17 % unit >= 8
          /\ \A size \in Sizes : Total(size) % unit = 0

\* A message somebody has still to release, and where it ends.
Live(p) == mem[p].flag # "NOT_READY"
LiveEnd(p) == mem[p].abs + Total(mem[p].size)

\* Two regions given by their first and end offsets.
Apart(a, aEnd, b, bEnd) == aEnd <= b \/ bEnd <= a

\* A reader that has joined; it stays where it is when it has closed.
Present(r) == reader[r].pc # "out"

\* The readers counted in the header of a claim made at an offset that have
\* not released it: those attached at its compare-and-swap.
Sharers(readers, o) ==
  {r \in Readers :
     /\ readers[r].pc # "out"
     /\ readers[r].pos <= o
     /\ readers[r].until = NotClosing \/ o < readers[r].until}

\* Some reader has not got past this offset.
Awaited(o) == \E r \in Readers : Present(r) /\ reader[r].pos <= o

Finishing(r) == reader[r].pc \in {"clearing", "advancing"}

\* Nobody aborts or closes where more than one reader is.
SharedInv ==
  ~OneReader =>
    /\ \A r \in Readers : reader[r].until = NotClosing
    /\ \A p \in Positions : mem[p].flag # "ABORTED"

\* The watermark is the front of the rearmost reader.
WatermarkInv ==
  /\ \A r \in Readers :
       /\ reader[r].pos <= writeOffset
       /\ reader[r].until <= writeOffset
       /\ Present(r) => readOffset <= Front(r)
       /\ ~Present(r) => reader[r].pos = 0
  /\ (\E r \in Readers : Present(r)) =>
       \E r \in Readers : Present(r) /\ Front(r) = readOffset
  /\ (\A r \in Readers : ~Present(r)) =>
       /\ writeOffset = 0
       /\ readOffset = 0
       /\ \A w \in Writers : writer[w].pc = "unready"

\* What a reader knows of the message it is at: between the two looks of a
\* poll, only that there is one in its slot.
SlotInv ==
  \A r \in Readers :
    /\ reader[r].pc = "loaded" =>
         Live(Slot(r)) /\ reader[r].flag = mem[Slot(r)].flag
    /\ reader[r].pc \in {"holding", "releasing"} =>
         Live(Slot(r)) /\ mem[Slot(r)].abs = reader[r].pos
    /\ reader[r].pc = "holding" =>
         mem[Slot(r)].kind = "NORMAL" /\ mem[Slot(r)].flag = "READY"

\* The last reader of a message: there is one at a time, it is at the
\* watermark, and every other reader is past the message.
LastInv ==
  /\ \A r \in Readers : Finishing(r) =>
       /\ Front(r) = readOffset
       /\ \A q \in Readers : Present(q) => reader[r].pos <= reader[q].pos
       /\ \A q \in Readers : Finishing(q) => q = r
  /\ \A r \in Readers : reader[r].pc = "clearing" =>
       LET h == mem[Rel(readOffset)]
       IN /\ Live(Rel(readOffset))
          /\ h.abs = readOffset
          /\ LiveEnd(Rel(readOffset)) = reader[r].pos
          /\ reader[r].until = NotClosing => h.readers = 0

\* A claim counts the readers that will get to it, and no reader is inside
\* it; once it is granted, it is within one lap of the watermark.
ClaimInv ==
  \A w \in Writers :
    /\ Active(w) =>
         /\ writer[w].readers = Cardinality(Sharers(reader, writer[w].off))
         /\ EndOfClaim(w) <= writeOffset
         /\ Awaited(writer[w].off)
         /\ \A r \in Readers : \/ reader[r].pos <= writer[w].off
                               \/ EndOfClaim(w) <= reader[r].pos
    /\ Owns(w) => EndOfClaim(w) <= readOffset + QueueSize
    /\ writer[w].pc \in {"granted", "filling", "written"} =>
         Fits(writer[w].off, Total(writer[w].size))
    /\ writer[w].pc \in {"skipping", "padded"} =>
         ~Fits(writer[w].off, Total(writer[w].size))

\* So does a message, which is where its offset says, and complete if it is
\* committed.  One that nobody has still to release is being cleared.
LiveInv ==
  \A p \in Positions : Live(p) =>
    /\ Rel(mem[p].abs) = p
    /\ readOffset <= mem[p].abs
    /\ LiveEnd(p) <= writeOffset
    /\ LiveEnd(p) <= readOffset + QueueSize
    /\ mem[p].kind = "NORMAL" /\ mem[p].flag = "READY" =>
         mem[p].body = mem[p].abs
    /\ \A r \in Readers : \/ reader[r].pos <= mem[p].abs
                          \/ LiveEnd(p) <= reader[r].pos
    /\ \/ /\ Awaited(mem[p].abs)
          /\ mem[p].readers = Cardinality(Sharers(reader, mem[p].abs))
       \/ /\ mem[p].abs = readOffset
          /\ \E r \in Readers : reader[r].pc = "clearing"

\* Claims and messages do not share an offset.
ApartInv ==
  /\ \A v, w \in Writers : v # w /\ Active(v) /\ Active(w) =>
       Apart(writer[v].off, EndOfClaim(v), writer[w].off, EndOfClaim(w))
  /\ \A w \in Writers, p \in Positions : Active(w) /\ Live(p) =>
       Apart(writer[w].off, EndOfClaim(w), mem[p].abs, LiveEnd(p))
  /\ \A p, q \in Positions : p # q /\ Live(p) /\ Live(q) =>
       Apart(mem[p].abs, LiveEnd(p), mem[q].abs, LiveEnd(q))

\* What a writer has stored in the header of its claim so far.
HeaderInv ==
  \A w \in Writers :
    LET h == mem[HeaderOf(w)]
    IN /\ writer[w].pc \in {"padded", "filling", "written"} =>
            /\ h.abs = writer[w].off
            /\ h.readers = writer[w].readers
            /\ h.abs + Total(h.size) = EndOfClaim(w)
       /\ writer[w].pc = "padded" => h.kind = "PADDING"
       /\ writer[w].pc \in {"filling", "written"} => h.kind = "NORMAL"
       /\ writer[w].pc = "written" => h.body = writer[w].off

BaseInv == TypeOK /\ ShapeInv /\ LeavingInv /\ ReadersCounted

RingInv ==
  /\ SharedInv
  /\ WatermarkInv
  /\ SlotInv
  /\ LastInv
  /\ ClaimInv
  /\ LiveInv
  /\ ApartInv
  /\ HeaderInv

QueueInv == BaseInv /\ RingInv

-----------------------------------------------------------------------------
(* What the memory has to do with the history, in the same deployments.  *)

\* The offset the claim after the i-th one starts at.
NextOffset(i) ==
  IF i = Len(claims) THEN writeOffset ELSE claims[i + 1].off

\* What a committed header says of its claim.
StatusOf(h) ==
  IF h.kind = "NORMAL" /\ h.flag = "READY" THEN "ready" ELSE "void"

\* Some claim has these bounds and this status.
Claimed(off, end, status) ==
  \E i \in DOMAIN claims :
    /\ claims[i].off = off
    /\ NextOffset(i) = end
    /\ claims[i].status = status

\* The claims are in the order of their offsets, without a gap that a reader
\* could be in; a writer's claim is open, and a committed header is that of a
\* claim that is ready, or void if it is a padding or aborted, and ends where
\* the next claim starts.
LogInv ==
  /\ \A i, j \in DOMAIN claims : i < j => claims[i].off < claims[j].off
  /\ \A i \in DOMAIN claims : claims[i].off < writeOffset
  /\ \A w \in Writers : Active(w) =>
       Claimed(writer[w].off, EndOfClaim(w), "open")
  /\ \A p \in Positions : Live(p) =>
       Claimed(mem[p].abs, LiveEnd(p), StatusOf(mem[p]))
  /\ \A r \in Readers :
       \/ reader[r].pos = writeOffset
       \/ \E i \in DOMAIN claims : claims[i].off = reader[r].pos

\* A message that an attached reader releases unread is a padding or aborted.
PassInv ==
  \A r \in Readers : reader[r].pc = "releasing" /\ Attached(r) =>
    StatusOf(mem[Slot(r)]) = "void"

\* What the refinement needs beyond QueueInv: commits, polls and releases agree
\* with the history of the claims.
ChannelInv == LogInv /\ PassInv
=============================================================================
