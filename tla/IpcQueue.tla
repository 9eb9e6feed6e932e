------------------------------ MODULE IpcQueue ------------------------------
(***************************************************************************)
(* The shared-memory broadcast queue of message_transport: ipc_queue.cpp,  *)
(* ipc_queue.h, ipc_queue_element_wrapper.h and ipc_queue_headers.h.       *)
(*                                                                         *)
(* Writers reserve a region by one compare-and-swap on a word that packs   *)
(* the write offset and the number of readers, wait until the region is    *)
(* free, fill it, and set its commit flag.  Every reader keeps a private   *)
(* offset, reads the committed messages in order, and decrements the count *)
(* in the header of each message it is done with; the one that takes the   *)
(* count to zero clears the header and advances the low watermark the      *)
(* writers wait for.                                                       *)
(*                                                                         *)
(* One step is one access to shared memory, except that several fields     *)
(* written before the store that publishes them are one step.  Headers are *)
(* kept by the position they start at: the bytes of a stale header under a *)
(* message that starts elsewhere are in HeaderBytes.                       *)
(***************************************************************************)
EXTENDS RingLayout, Sequences, FiniteSets

CONSTANTS
  Writers, Readers,   \* processes that open the queue to write, to read
  Sizes,              \* payload sizes of the claims
  ReaderLimit,        \* the reader counts are modulo this; 2^8 in the code
  ReadyCheckers,      \* writers that wait for num_readers() > 0 to start
  MaxOffset           \* bound: no new claim at or after this write offset

ASSUME QueueAssumption ==
  /\ Sizes \subseteq AcceptedSizes
  /\ ReaderLimit \in Nat \ {0}
  /\ ReadyCheckers \subseteq Writers
  /\ MaxOffset \in Nat

VARIABLES
  nReaders,      \* low 8 bits of readers_and_write_offset
  writeOffset,   \* high 56 bits of the same atomic word
  readOffset,    \* read_offset, the low watermark
  mem,           \* the message header, and its payload, at each position
  writer,        \* each writer's control state and its current claim
  reader,        \* each reader's control state, abs_read_offset and locals
  claims         \* history: every claim in the order of its compare-and-swap

vars == <<nReaders, writeOffset, readOffset, mem, writer, reader, claims>>

Positions == 0 .. (QueueSize - 1)
NoBody == -1
NotClosing == -1

WriterStates == {"unready", "idle", "claiming", "waiting", "granted",
                 "skipping", "padded", "filling", "written"}
ReaderStates == {"out", "polling", "loaded", "holding", "releasing",
                 "clearing", "advancing", "draining", "closed"}
CommitFlag == {"NOT_READY", "READY", "ABORTED"}

BlankHeader == [abs |-> 0, size |-> 0, kind |-> "NORMAL", readers |-> 0,
                flag |-> "NOT_READY", body |-> NoBody]

Count == 0 .. (ReaderLimit - 1)

Headers ==
  [abs : Nat, size : Nat, kind : {"NORMAL", "PADDING"}, readers : Count,
   flag : CommitFlag, body : Nat \cup {NoBody}]

WriterRecords == [pc : WriterStates, size : Nat, off : Nat, readers : Count]

ReaderRecords ==
  [pc : ReaderStates, pos : Nat, len : Nat, flag : CommitFlag,
   until : Nat \cup {NotClosing}]

ClaimRecords == [off : Nat, status : {"open", "ready", "void"}]

TypeOK ==
  /\ nReaders \in Count
  /\ writeOffset \in Nat
  /\ readOffset \in Nat
  /\ mem \in [Positions -> Headers]
  /\ writer \in [Writers -> WriterRecords]
  /\ reader \in [Readers -> ReaderRecords]
  /\ claims \in Seq(ClaimRecords)

\* init_new_file: zeroed region, offset, counts and watermark.
Init ==
  /\ nReaders = 0
  /\ writeOffset = 0
  /\ readOffset = 0
  /\ mem = [p \in Positions |-> BlankHeader]
  /\ writer = [w \in Writers |->
       [pc |-> IF w \in ReadyCheckers THEN "unready" ELSE "idle",
        size |-> 0, off |-> 0, readers |-> 0]]
  /\ reader = [r \in Readers |->
       [pc |-> "out", pos |-> 0, len |-> 0, flag |-> "NOT_READY",
        until |-> NotClosing]]
  /\ claims = << >>

-----------------------------------------------------------------------------
(* Writers *)

GoWriter(w, pc) == writer' = [writer EXCEPT ![w].pc = pc]

\* The header a writer's claim starts with, and one past the end of the claim.
HeaderOf(w) == Rel(writer[w].off)
EndOfClaim(w) == writer[w].off + Bump(writer[w].off, Total(writer[w].size))

Settle(off, status) ==
  claims' = [i \in DOMAIN claims |->
    IF claims[i].off = off THEN [claims[i] EXCEPT !.status = status]
                           ELSE claims[i]]

\* An application waits until num_readers() is positive before it publishes
\* (ArchivePublication::is_ready); it does not look again.
CheckReady(w) ==
  /\ writer[w].pc = "unready"
  /\ nReaders > 0
  /\ GoWriter(w, "idle")
  /\ UNCHANGED <<nReaders, writeOffset, readOffset, mem, reader, claims>>

\* The compare-and-swap of wait_for_next_write_offset, which takes the offset
\* and the number of readers together.
Reserve(w, size) ==
  /\ writeOffset' = writeOffset + Bump(writeOffset, Total(size))
  /\ writer' = [writer EXCEPT ![w] =
       [pc |-> "waiting", size |-> size, off |-> writeOffset,
        readers |-> nReaders]]
  /\ claims' = Append(claims, [off |-> writeOffset, status |-> "open"])

\* claim_buffer, up to the compare-and-swap.
ClaimBuffer(w, size) ==
  /\ writer[w].pc = "idle"
  /\ writeOffset < MaxOffset
  /\ Reserve(w, size)
  /\ UNCHANGED <<nReaders, readOffset, mem, reader>>

\* The recursive call after a skip message.
RetryClaim(w) ==
  /\ writer[w].pc = "claiming"
  /\ Reserve(w, writer[w].size)
  /\ UNCHANGED <<nReaders, readOffset, mem, reader>>

\* must_wait, negated.  The subtraction is unsigned: a watermark beyond the
\* end of the claim also waits.
HasRoomAlways(end) == TRUE
HasRoom(end) == end - readOffset \in 0 .. QueueSize

Grant(w) ==
  /\ writer[w].pc = "waiting"
  /\ HasRoom(EndOfClaim(w))
  /\ GoWriter(w, IF Fits(writer[w].off, Total(writer[w].size))
                   THEN "granted" ELSE "skipping")
  /\ UNCHANGED <<nReaders, writeOffset, readOffset, mem, reader, claims>>

\* The count that goes into a header is the one taken by the compare-and-swap;
\* "otherwise we'd be returning new info".
HeaderCountNow(w) == nReaders
HeaderCount(w) == writer[w].readers

\* insert_skip_message, up to commit_buffer.  The zeroes it writes change no
\* header: they stay in the claim, or go to the rest of the last page of the
\* mapping (see PaddingStaysInRegion).
InsertSkip(w) ==
  /\ writer[w].pc = "skipping"
  /\ mem' = [mem EXCEPT ![HeaderOf(w)] =
       [@ EXCEPT !.abs = writer[w].off, !.size = PaddingSize(writer[w].off),
                 !.kind = "PADDING", !.readers = HeaderCount(w),
                 !.body = NoBody]]
  /\ GoWriter(w, "padded")
  /\ UNCHANGED <<nReaders, writeOffset, readOffset, reader, claims>>

CommitSkip(w) ==
  /\ writer[w].pc = "padded"
  /\ mem' = [mem EXCEPT ![HeaderOf(w)].flag = "READY"]
  /\ Settle(writer[w].off, "void")
  /\ GoWriter(w, "claiming")
  /\ UNCHANGED <<nReaders, writeOffset, readOffset, reader>>

\* claim_buffer after the skip test; the commit flag is left as it is.
WriteHeader(w) ==
  /\ writer[w].pc = "granted"
  /\ mem' = [mem EXCEPT ![HeaderOf(w)] =
       [@ EXCEPT !.abs = writer[w].off, !.size = writer[w].size,
                 !.kind = "NORMAL", !.readers = HeaderCount(w)]]
  /\ GoWriter(w, "filling")
  /\ UNCHANGED <<nReaders, writeOffset, readOffset, reader, claims>>

\* The payload, through write_to_buffer or get_as_span.  A payload is
\* identified by the offset of the claim it was written for.
WritePayload(w) ==
  /\ writer[w].pc = "filling"
  /\ mem' = [mem EXCEPT ![HeaderOf(w)].body = writer[w].off]
  /\ GoWriter(w, "written")
  /\ UNCHANGED <<nReaders, writeOffset, readOffset, reader, claims>>

CommitBuffer(w) ==
  /\ writer[w].pc = "written"
  /\ mem' = [mem EXCEPT ![HeaderOf(w)].flag = "READY"]
  /\ Settle(writer[w].off, "ready")
  /\ GoWriter(w, "idle")
  /\ UNCHANGED <<nReaders, writeOffset, readOffset, reader>>

AbortBuffer(w) ==
  /\ writer[w].pc \in {"filling", "written"}
  /\ mem' = [mem EXCEPT ![HeaderOf(w)] =
       [@ EXCEPT !.body = NoBody, !.flag = "ABORTED"]]
  /\ Settle(writer[w].off, "void")
  /\ GoWriter(w, "idle")
  /\ UNCHANGED <<nReaders, writeOffset, readOffset, reader>>

\* ~IpcQueueRaiiWriterWrapper is defaulted: the claim stays as it is.
DropWrapper(w) ==
  /\ writer[w].pc \in {"filling", "written"}
  /\ GoWriter(w, "idle")
  /\ UNCHANGED <<nReaders, writeOffset, readOffset, mem, reader, claims>>

-----------------------------------------------------------------------------
(* Readers *)

Slot(r) == Rel(reader[r].pos)

GoReader(r, pc) == reader' = [reader EXCEPT ![r].pc = pc]

\* Where a reader continues after release_buffer: poll_buffer's recursion and
\* the application's loop, or the loop of decrement_readers_until.
Resume(r) == IF reader[r].until = NotClosing THEN "polling" ELSE "draining"

\* modify_readers: the count wraps in its eight bits.
CountAfterJoin == (nReaders + 1) % ReaderLimit
CountAfterLeaveKept == nReaders
CountAfterLeave == (nReaders - 1) % ReaderLimit

\* IpcQueue's constructor for a reader starts at the write offset of the word
\* that modify_readers(true) has replaced.
JoinAtWatermark == readOffset
JoinPosition == writeOffset

Join(r) ==
  /\ reader[r].pc = "out"
  /\ nReaders' = CountAfterJoin
  /\ reader' = [reader EXCEPT ![r].pc = "polling", ![r].pos = JoinPosition]
  /\ UNCHANGED <<writeOffset, readOffset, mem, writer, claims>>

\* poll_buffer loads the commit flag first.  A flag that is not ready ends
\* the poll and changes nothing.
PollLoad(r) ==
  /\ reader[r].pc = "polling"
  /\ mem[Slot(r)].flag # "NOT_READY"
  /\ reader' = [reader EXCEPT ![r].pc = "loaded",
                              ![r].flag = mem[Slot(r)].flag]
  /\ UNCHANGED <<nReaders, writeOffset, readOffset, mem, writer, claims>>

\* ... and then looks at the rest of the header.
AfterLoadNoAbort(r, h) ==
  IF h.abs # reader[r].pos THEN "polling"
  ELSE IF h.kind = "PADDING" THEN "releasing"
  ELSE "holding"

AfterLoadNoPadding(r, h) ==
  IF h.abs # reader[r].pos \/ h.kind = "PADDING" THEN "polling"
  ELSE "holding"

AfterLoad(r, h) ==
  IF reader[r].flag = "ABORTED" THEN "releasing"
  ELSE IF h.abs # reader[r].pos THEN "polling"
  ELSE IF h.kind = "PADDING" THEN "releasing"
  ELSE "holding"

PollCheck(r) ==
  /\ reader[r].pc = "loaded"
  /\ reader' = [reader EXCEPT ![r].pc = AfterLoad(r, mem[Slot(r)]),
                              ![r].flag = "NOT_READY"]
  /\ UNCHANGED <<nReaders, writeOffset, readOffset, mem, writer, claims>>

\* prev_count > 1 leaves the message to the other readers.
IsLastReaderEarly(h) == h.readers <= 2
IsLastReaderNever(h) == h.readers < 1
IsLastReader(h) == h.readers <= 1

AfterRelease(r, h) ==
  [pc |-> IF IsLastReader(h) THEN "clearing" ELSE Resume(r),
   pos |-> reader[r].pos + Total(h.size),
   len |-> IF IsLastReader(h) THEN Total(h.size) ELSE 0,
   flag |-> reader[r].flag,
   until |-> reader[r].until]

\* release_buffer, up to the fetch_sub.
ReleaseBuffer(r) ==
  /\ reader[r].pc \in {"holding", "releasing"}
  /\ mem' = [mem EXCEPT ![Slot(r)].readers = (@ - 1) % ReaderLimit]
  /\ reader' = [reader EXCEPT ![r] = AfterRelease(r, mem[Slot(r)])]
  /\ UNCHANGED <<nReaders, writeOffset, readOffset, writer, claims>>

\* mark_as_read: the wrapper goes away without a release, and the next poll
\* finds the same message.
MarkAsRead(r) ==
  /\ reader[r].pc = "holding"
  /\ GoReader(r, "polling")
  /\ UNCHANGED <<nReaders, writeOffset, readOffset, mem, writer, claims>>

\* The last reader clears the payload and resets the header.
BlankedButReady(h) ==
  [h EXCEPT !.body = NoBody, !.size = 0, !.kind = "NORMAL"]

Blanked(h) ==
  [h EXCEPT !.body = NoBody, !.size = 0, !.kind = "NORMAL",
            !.flag = "NOT_READY"]

ClearBuffer(r) ==
  /\ reader[r].pc = "clearing"
  /\ mem' = [mem EXCEPT ![Rel(reader[r].pos - reader[r].len)] = Blanked(@)]
  /\ GoReader(r, "advancing")
  /\ UNCHANGED <<nReaders, writeOffset, readOffset, writer, claims>>

WatermarkAfterPayload(r) == readOffset + reader[r].len - HeaderSize
WatermarkAfter(r) == readOffset + reader[r].len

AdvanceWatermark(r) ==
  /\ reader[r].pc = "advancing"
  /\ readOffset' = WatermarkAfter(r)
  /\ reader' = [reader EXCEPT ![r].pc = Resume(r), ![r].len = 0]
  /\ UNCHANGED <<nReaders, writeOffset, mem, writer, claims>>

\* close: modify_readers(false), then decrement_readers_until the write
\* offset of the word it has replaced.
CloseReader(r) ==
  /\ reader[r].pc = "polling"
  /\ nReaders' = CountAfterLeave
  /\ reader' = [reader EXCEPT ![r].pc = "draining", ![r].until = writeOffset]
  /\ UNCHANGED <<writeOffset, readOffset, mem, writer, claims>>

MayDrain(r) ==
  /\ reader[r].pos <= reader[r].until
  /\ mem[Slot(r)].flag = "READY"

DrainNext(r) ==
  /\ reader[r].pc = "draining"
  /\ GoReader(r, IF MayDrain(r) THEN "releasing" ELSE "closed")
  /\ UNCHANGED <<nReaders, writeOffset, readOffset, mem, writer, claims>>

-----------------------------------------------------------------------------
(* Specifications *)

WriterProgress(w) ==
  \/ RetryClaim(w)
  \/ Grant(w)
  \/ InsertSkip(w)
  \/ CommitSkip(w)
  \/ WriteHeader(w)
  \/ WritePayload(w)
  \/ CommitBuffer(w)

ReaderProgress(r) ==
  \/ PollLoad(r)
  \/ PollCheck(r)
  \/ ReleaseBuffer(r)
  \/ ClearBuffer(r)
  \/ AdvanceWatermark(r)

\* Processes that commit what they claim and stay until the end.
SteadyNext ==
  \/ \E w \in Writers : \/ CheckReady(w)
                        \/ \E size \in Sizes : ClaimBuffer(w, size)
                        \/ WriterProgress(w)
  \/ \E r \in Readers : Join(r) \/ ReaderProgress(r)

\* The rest of the public interface.
AbortNext == \E w \in Writers : AbortBuffer(w)
DropNext == \E w \in Writers : DropWrapper(w)
KeepNext == \E r \in Readers : MarkAsRead(r)
CloseNext == \E r \in Readers : CloseReader(r) \/ DrainNext(r)

Next == SteadyNext \/ AbortNext \/ DropNext \/ KeepNext \/ CloseNext

Spec == Init /\ [][Next]_vars
SteadySpec == Init /\ [][SteadyNext]_vars
AbortingSpec == Init /\ [][SteadyNext \/ AbortNext]_vars
ClosingSpec == Init /\ [][SteadyNext \/ CloseNext]_vars

\* A schedule that clears no header between a reader's load of its commit
\* flag and that reader's look at the rest of it.
MidPoll == {r \in Readers : reader[r].pc = "loaded"}
NoClearMidPoll ==
  \A r \in Readers :
    reader[r].pc = "clearing" /\ reader'[r].pc # "clearing" =>
      \A q \in MidPoll : Slot(q) # Rel(reader[r].pos - reader[r].len)

\* Several readers, of which none closes while others read.
FanoutNext == (SteadyNext \/ DropNext \/ KeepNext) /\ NoClearMidPoll
FanoutSpec == Init /\ [][FanoutNext]_vars

\* Every process keeps running: its scheduler eventually runs a step that
\* stays possible.  Nothing makes an application claim, or a reader join.
Fairness ==
  /\ \A w \in Writers : WF_vars(WriterProgress(w))
  /\ \A r \in Readers : WF_vars(ReaderProgress(r))

FairFanoutSpec ==
  Init /\ [][SteadyNext /\ NoClearMidPoll]_vars /\ Fairness

-----------------------------------------------------------------------------
(* Properties *)

\* The states in which claim_buffer has "carte blanche" over the claim.
Owns(w) ==
  writer[w].pc \in {"granted", "skipping", "padded", "filling", "written"}

Attached(r) == reader[r].pc # "out" /\ reader[r].until = NotClosing

\* The first byte a reader still uses: the last reader of a message uses it
\* until the watermark has moved past it.
Front(r) == reader[r].pos - reader[r].len

Bytes(first, end) == {Rel(o) : o \in first .. (end - 1)}

\* wait_for_next_write_offset: "We MUST ensure we not writing in memory that
\* the reader is or is going to be reading from."  A region a writer owns ends
\* at most one lap after everything an attached reader has not finished.
NoOverwrite ==
  \A w \in Writers, r \in Readers :
    Owns(w) /\ Attached(r) => EndOfClaim(w) <= Front(r) + QueueSize

\* "if we're here we are GUARANTEED to have carte blanche write perms": two
\* writers never own the same byte, even when their claims are a lap apart.
WritersDisjoint ==
  \A v, w \in Writers :
    v # w /\ Owns(v) /\ Owns(w) =>
      Bytes(writer[v].off, EndOfClaim(v))
        \cap Bytes(writer[w].off, EndOfClaim(w)) = {}

\* The reader wrapper: while it exists, it stands for the message at the
\* reader's offset, fully written by the producer and not yet overwritten.
HeldIntact ==
  \A r \in Readers : reader[r].pc = "holding" =>
    LET h == mem[Slot(r)]
    IN /\ h.abs = reader[r].pos
       /\ h.body = reader[r].pos
       /\ h.kind = "NORMAL"
       /\ h.flag = "READY"

\* The assertion that ends release_buffer: when the last reader of a message
\* moves the low watermark, it moves it to its own offset.
WatermarkExact ==
  \A r \in Readers : reader[r].pc = "advancing" =>
    readOffset + reader[r].len = reader[r].pos

\* The assertion of insert_skip_message.
SkipHeaderFits ==
  \A w \in Writers : writer[w].pc = "skipping" =>
    Rel(writer[w].off) + HeaderSize <= QueueSize

\* "same flow as regular producer: header -> payload -> commit": the payload of
\* a skip message, like any other, is written between the header and the end
\* of the claim.
PaddingStaysInRegion ==
  \A w \in Writers : writer[w].pc = "skipping" =>
    PaddingEnd(writer[w].off) <= QueueSize

\* The count in a committed header is the number of attached readers that
\* have not released the message: none is missed, none is counted twice.
ReaderCountExact ==
  \A p \in Positions : mem[p].flag = "READY" =>
    mem[p].readers =
      Cardinality({r \in Readers : Attached(r) /\ reader[r].pos <= mem[p].abs})

\* modify_readers' note, "should never decrement past 0 and never add more than
\* max readers": the count in the packed word is the number of attached readers.
ReadersCounted == nReaders = Cardinality({r \in Readers : Attached(r)})

\* "Message size exceeds the total queue capacity" is the only reason to
\* refuse a size, so an accepted message fits in the empty region: a claim
\* that starts at its first byte is not a skip.
AcceptedSizeFits ==
  \A w \in Writers : writer[w].pc = "skipping" => Rel(writer[w].off) # 0

\* A writer that has reserved space gets it, after any skip and any wait for
\* the readers.
EveryClaimReturns ==
  \A w \in Writers : writer[w].pc = "waiting" ~> writer[w].pc = "filling"

\* An attached reader gets past every offset that has been claimed.
NoStarvation ==
  \A r \in Readers : \A o \in 0 .. MaxOffset :
    reader[r].pos = o /\ Attached(r) /\ writeOffset > o ~> reader[r].pos > o

\* All the space that is claimed is given back: no message is left for a
\* reader that will never release it.
SpaceReturns == \A r \in Readers : Attached(r) ~> readOffset = writeOffset
=============================================================================
