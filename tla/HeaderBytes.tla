---------------------------- MODULE HeaderBytes ----------------------------
(***************************************************************************)
(* The bytes of the ring.  IpcQueue keeps headers by the position they     *)
(* start at; in the code they are packed bytes at any position, and where  *)
(* a header is on one lap there may be a payload, or the middle of another *)
(* header, on the next.  A reader looks for a commit flag in whatever is   *)
(* there before the next header is.                                        *)
(*                                                                         *)
(* One writer and one reader, which is there from the start; how readers   *)
(* and writers interleave, join and leave is in IpcQueue.  The fields of a *)
(* header are written in one step.                                         *)
(***************************************************************************)
EXTENDS RingLayout

CONSTANTS
  Sizes,          \* payload sizes of the claims
  PayloadBytes,   \* what payloads are made of
  Unit,           \* divides every message with its header; 1 always does
  MaxOffset       \* bound: no new claim at or after this write offset

Byte == 0 .. 255

\* struct MessageHeader, under #pragma pack(push, 1): where each field is, and
\* how many bytes it has.
AbsOffset == [at |-> 0, width |-> 8]
MessageSize == [at |-> 8, width |-> 4]
Type == [at |-> 12, width |-> 4]
NumReaders == [at |-> 16, width |-> 1]
CommitFlag == [at |-> 17, width |-> 1]

\* The 1 GB that the constructor of IpcQueue accepts at most.
LargestQueue == 1024 * (1024 * 1024)

ASSUME BytesAssumption ==
  /\ HeaderSize = 18
  /\ QueueSize <= LargestQueue
  /\ Sizes \subseteq AcceptedSizes
  /\ PayloadBytes \subseteq Byte
  /\ Unit \in Nat \ {0}
  /\ \A size \in Sizes : Total(size) % Unit = 0
  /\ MaxOffset \in Nat

NORMAL == 0
PADDING == 1

NOT_READY == 0
READY_FOR_CONSUMER == 1
ABORTED == 2

VARIABLES
  bytes,         \* the region behind the global header
  writeOffset,   \* write_offset of readers_and_write_offset
  readOffset,    \* read_offset, the low watermark
  writer,        \* the writer's control state and claim
  reader,        \* whether the reader has a wrapper, and abs_read_offset
  claims         \* history: the set of the claims the reader has not passed,
                 \* or has passed while they were open

vars == <<bytes, writeOffset, readOffset, writer, reader, claims>>

Positions == 0 .. (QueueSize - 1)

Init ==
  /\ bytes = [i \in Positions |-> 0]
  /\ writeOffset = 0
  /\ readOffset = 0
  /\ writer = [pc |-> "idle", size |-> 0, off |-> 0]
  /\ reader = [pc |-> "polling", pos |-> 0]
  /\ claims = {}

-----------------------------------------------------------------------------
(* Memory *)

\* The k-th byte of a little-endian number of up to eight bytes.
Shifted(value) ==
  <<value, value \div 256, (value \div 256) \div 256,
    ((value \div 256) \div 256) \div 256>>

Digit(value, k) ==
  LET half == IF k < 4 THEN value ELSE Shifted(value)[4] \div 256
  IN Shifted(half)[1 + (k % 4)] % 256

Store(memory, header, field, value) ==
  [i \in Positions |->
     LET k == i - header - field.at
     IN IF k \in 0 .. field.width - 1 THEN Digit(value, k) ELSE memory[i]]

HoldsValue(memory, header, field, value) ==
  \A k \in 0 .. field.width - 1 :
    memory[header + field.at + k] = Digit(value, k)

\* The number in a field of up to four bytes.
Load(memory, header, field) ==
  LET byte(k) == IF k < field.width THEN memory[header + field.at + k] ELSE 0
  IN byte(0) + 256 * (byte(1) + 256 * (byte(2) + 256 * byte(3)))

\* memset of a payload.
Fill(memory, header, size, byte) ==
  [i \in Positions |->
     IF i - header - HeaderSize \in 0 .. size - 1 THEN byte ELSE memory[i]]

-----------------------------------------------------------------------------
(* The writer *)

GoWriter(pc) == writer' = [writer EXCEPT !.pc = pc]

Here == Rel(writer.off)

Settle(status) ==
  claims' = {IF c.off = writer.off THEN [c EXCEPT !.status = status] ELSE c :
               c \in claims}

\* wait_for_next_write_offset, up to the compare-and-swap.
Reserve(size) ==
  /\ writeOffset' = writeOffset + Bump(writeOffset, Total(size))
  /\ writer' = [pc |-> "waiting", size |-> size, off |-> writeOffset]
  /\ claims' = claims \cup {[off |-> writeOffset, size |-> size,
                            status |-> "open", byte |-> 0]}
  /\ UNCHANGED <<bytes, readOffset, reader>>

ClaimBuffer(size) ==
  writer.pc = "idle" /\ writeOffset < MaxOffset /\ Reserve(size)

RetryClaim == writer.pc = "claiming" /\ Reserve(writer.size)

\* must_wait, negated; the subtraction is unsigned.
HasRoom == writeOffset - readOffset \in 0 .. QueueSize

\* The stores of claim_buffer and insert_skip_message.  Neither touches the
\* commit flag: it is taken to be zero already.
HeaderStores(size, type) ==
  LET m1 == Store(bytes, Here, AbsOffset, writer.off)
      m2 == Store(m1, Here, MessageSize, size)
      m3 == Store(m2, Here, Type, type)
  IN Store(m3, Here, NumReaders, 1)

WriteHeader ==
  /\ writer.pc = "waiting"
  /\ HasRoom
  /\ Fits(writer.off, Total(writer.size))
  /\ bytes' = HeaderStores(writer.size, NORMAL)
  /\ GoWriter("filling")
  /\ UNCHANGED <<writeOffset, readOffset, reader, claims>>

\* The zeroes of insert_skip_message start HeaderSize headers after its own.
ClearedPadding(memory) ==
  [i \in Positions |->
     IF i >= Here + HeaderSize * HeaderSize THEN 0 ELSE memory[i]]

InsertSkip ==
  /\ writer.pc = "waiting"
  /\ HasRoom
  /\ ~Fits(writer.off, Total(writer.size))
  /\ bytes' = ClearedPadding(HeaderStores(PaddingSize(writer.off), PADDING))
  /\ GoWriter("padded")
  /\ UNCHANGED <<writeOffset, readOffset, reader, claims>>

StoreFlag(memory, flag) == Store(memory, Here, CommitFlag, flag)

CommitSkip ==
  /\ writer.pc = "padded"
  /\ bytes' = StoreFlag(bytes, READY_FOR_CONSUMER)
  /\ Settle("void")
  /\ GoWriter("claiming")
  /\ UNCHANGED <<writeOffset, readOffset, reader>>

\* write_to_buffer: the copy, and then the commit.
WritePayload(byte) ==
  /\ writer.pc = "filling"
  /\ bytes' = Fill(bytes, Here, writer.size, byte)
  /\ claims' = {IF c.off = writer.off THEN [c EXCEPT !.byte = byte] ELSE c :
                  c \in claims}
  /\ GoWriter("written")
  /\ UNCHANGED <<writeOffset, readOffset, reader>>

CommitBuffer ==
  /\ writer.pc = "written"
  /\ bytes' = StoreFlag(bytes, READY_FOR_CONSUMER)
  /\ Settle("ready")
  /\ GoWriter("idle")
  /\ UNCHANGED <<writeOffset, readOffset, reader>>

AbortBuffer ==
  /\ writer.pc \in {"filling", "written"}
  /\ bytes' = StoreFlag(Fill(bytes, Here, writer.size, 0), ABORTED)
  /\ Settle("void")
  /\ GoWriter("idle")
  /\ UNCHANGED <<writeOffset, readOffset, reader>>

-----------------------------------------------------------------------------
(* The reader *)

There == Rel(reader.pos)

\* release_buffer of the only reader: the payload, size, type and flag become
\* zero; abs_offset stays.
PayloadKept(memory, size) == memory
PayloadCleared(memory, size) == Fill(memory, There, size, 0)

FlagKept(memory) == memory
FlagCleared(memory) == Store(memory, There, CommitFlag, NOT_READY)

Cleared(memory, size) ==
  LET m1 == PayloadCleared(memory, size)
      m2 == Store(m1, There, MessageSize, 0)
      m3 == Store(m2, There, Type, NORMAL)
  IN FlagCleared(m3)

\* message_len, loaded before anything is cleared.
ReleasedSizeLate == 0
ReleasedSize == Load(bytes, There, MessageSize)

ReleaseBuffer ==
  LET readers == Load(bytes, There, NumReaders)
      counted == Store(bytes, There, NumReaders, (readers - 1) % 256)
      last == readers <= 1
  IN /\ bytes' = IF last THEN Cleared(counted, ReleasedSize) ELSE counted
     /\ readOffset' = IF last THEN readOffset + Total(ReleasedSize)
                              ELSE readOffset
     /\ reader' = [pc |-> "polling", pos |-> reader.pos + Total(ReleasedSize)]
     /\ claims' = {c \in claims :
                    c.off >= reader'.pos \/ c.status = "open"}
     /\ UNCHANGED <<writeOffset, writer>>

\* poll_buffer, by what it finds.
Found(flag) ==
  reader.pc = "polling" /\ HoldsValue(bytes, There, CommitFlag, flag)

FoundOwn == Found(READY_FOR_CONSUMER)
              /\ HoldsValue(bytes, There, AbsOffset, reader.pos)

FoundPadding == HoldsValue(bytes, There, Type, PADDING)

TakeMessage ==
  /\ FoundOwn
  /\ ~FoundPadding
  /\ reader' = [reader EXCEPT !.pc = "holding"]
  /\ UNCHANGED <<bytes, writeOffset, readOffset, writer, claims>>

SkipPadding == FoundOwn /\ FoundPadding /\ ReleaseBuffer

SkipAborted == Found(ABORTED) /\ ReleaseBuffer

\* The wrapper's destructor.
ReleaseMessage == reader.pc = "holding" /\ ReleaseBuffer

-----------------------------------------------------------------------------
(* Specification *)

WriterProgress ==
  \/ RetryClaim
  \/ WriteHeader
  \/ InsertSkip
  \/ CommitSkip
  \/ \E byte \in PayloadBytes : WritePayload(byte)
  \/ CommitBuffer

ReaderProgress == TakeMessage \/ SkipPadding \/ SkipAborted \/ ReleaseMessage

Next ==
  \/ \E size \in Sizes : ClaimBuffer(size)
  \/ WriterProgress
  \/ AbortBuffer
  \/ ReaderProgress

Spec ==
  Init /\ [][Next]_vars /\ WF_vars(WriterProgress) /\ WF_vars(ReaderProgress)

-----------------------------------------------------------------------------
(* Properties *)

\* The reader is always where a claim starts, or at the write offset, with the
\* watermark at the same place, and has passed no claim that is still open:
\* "clear the message body so its not interpreted weird if it's on a boundary
\* next wrap around".
InStep ==
  /\ reader.pos = readOffset
  /\ reader.pos = writeOffset \/ \E c \in claims : c.off = reader.pos
  /\ \A c \in claims : c.off < reader.pos => c.status # "open"

\* The reader wrapper stands for a message "fully written by the producer", of
\* the size and with the payload it was committed with.
HeldWhole ==
  reader.pc = "holding" =>
    \E c \in claims :
      /\ c.off = reader.pos
      /\ c.status = "ready"
      /\ Load(bytes, There, MessageSize) = c.size
      /\ \A i \in 1 .. c.size : bytes[There + HeaderSize + i - 1] = c.byte

\* The reader catches up with every claim, and the watermark with it: neither
\* the writer nor the reader is ever left waiting for bytes that will not come.
CatchesUp == []<>(reader.pos = writeOffset)

-----------------------------------------------------------------------------
(* Why the reader is in step: the inductive invariant. *)

WriterStates == {"idle", "claiming", "waiting", "filling", "written", "padded"}
ClaimRecords ==
  [off : Nat, size : Sizes, status : {"open", "ready", "void"}, byte : Byte]

TypeOK ==
  /\ bytes \in [Positions -> Byte]
  /\ writeOffset \in Nat
  /\ readOffset \in Nat
  /\ writer \in [pc : WriterStates, size : Nat, off : Nat]
  /\ reader \in [pc : {"polling", "holding"}, pos : Nat]
  /\ claims \subseteq ClaimRecords

\* A claim that the writer has still to commit, and one it may store in.
Writing == writer.pc \in {"filling", "written", "padded"}
Pending == writer.pc = "waiting" \/ Writing

\* What a claim becomes: its end, and the fields of its header.
IsMessage(c) == Fits(c.off, Total(c.size))
EndOf(c) == c.off + Bump(c.off, Total(c.size))
StoredSize(c) == EndOf(c) - c.off - HeaderSize
StoredType(c) == IF IsMessage(c) THEN NORMAL ELSE PADDING
StoredFlag(c) ==
  IF IsMessage(c) /\ c.status = "void" THEN ABORTED ELSE READY_FOR_CONSUMER

\* Where a claim may start: a header fits there.
Place(o) == Rel(o) <= QueueSize - HeaderSize /\ Rel(o) % Unit = 0

\* The claims go from the watermark to the write offset without a gap, within
\* one lap except for one that is waiting, and the last may be open.
ClaimsInv ==
  /\ reader.pos = readOffset
  /\ readOffset <= writeOffset
  /\ Place(writeOffset)
  /\ writeOffset = 0 \/ writeOffset >= HeaderSize
  /\ readOffset = writeOffset \/ \E c \in claims : c.off = readOffset
  /\ \A c \in claims :
       /\ readOffset <= c.off
       /\ Place(c.off)
       /\ c.off = 0 \/ c.off >= HeaderSize
       /\ c.off < MaxOffset \/ Rel(c.off) = 0
       /\ EndOf(c) = writeOffset \/ \E d \in claims : d.off = EndOf(c)
       /\ EndOf(c) <= writeOffset
       /\ c.status = "open" \/ EndOf(c) <= readOffset + QueueSize
       /\ c.status = "ready" => IsMessage(c)
       /\ c.status = "open" => Pending /\ c.off = writer.off
  /\ \A c, d \in claims : c = d \/ EndOf(c) <= d.off \/ EndOf(d) <= c.off

\* The writer's claim is the last one.
WriterInv ==
  /\ Pending =>
       \E c \in claims : /\ c.off = writer.off
                         /\ c.size = writer.size
                         /\ c.status = "open"
                         /\ EndOf(c) = writeOffset
  /\ Writing => writeOffset <= readOffset + QueueSize
  /\ writer.pc \in {"filling", "written"} =>
       Fits(writer.off, Total(writer.size))
  /\ writer.pc = "padded" => ~Fits(writer.off, Total(writer.size))
  /\ writer.pc = "claiming" => writer.size \in Sizes /\ Rel(writeOffset) = 0

\* Where a commit flag may be, and what is not taken for one that is set.
FlagPlace(i) == i >= CommitFlag.at /\ (i - CommitFlag.at) % Unit = 0
SetFlags == {READY_FOR_CONSUMER, ABORTED}
Quiet(memory, i) == FlagPlace(i) => memory[i] \notin SetFlags

\* What a release leaves of a header, its abs_offset, is not taken for one:
\* what the code takes for granted, and what fails once an offset has a byte 1
\* or 2 above its lowest.
OffsetsQuiet ==
  \A o \in HeaderSize .. (MaxOffset - 1) :
    Place(o) => \A k \in 0 .. (AbsOffset.width - 1) :
                  FlagPlace(Rel(o) + k) => Digit(o, k) \notin SetFlags

\* No flag is set where the next claims will be, nor in one that is not
\* committed.
FreeFrom == IF writer.pc = "waiting" THEN writer.off ELSE writeOffset

QuietInv ==
  /\ \A o \in FreeFrom .. (readOffset + QueueSize - 1) : Quiet(bytes, Rel(o))
  /\ Writing => Quiet(bytes, Here + CommitFlag.at)

\* What the header and the payload of a claim are.
HeaderHeld(memory, c) ==
  /\ HoldsValue(memory, Rel(c.off), AbsOffset, c.off)
  /\ HoldsValue(memory, Rel(c.off), MessageSize, StoredSize(c))
  /\ HoldsValue(memory, Rel(c.off), Type, StoredType(c))
  /\ HoldsValue(memory, Rel(c.off), NumReaders, 1)

FlagHeld(memory, c) ==
  HoldsValue(memory, Rel(c.off), CommitFlag, StoredFlag(c))

PayloadHeld(memory, c) ==
  \A i \in 1 .. c.size : memory[Rel(c.off) + HeaderSize + i - 1] = c.byte

StoredInv ==
  \A c \in claims :
    /\ c.status # "open" \/ Writing => HeaderHeld(bytes, c)
    /\ c.status # "open" => FlagHeld(bytes, c)
    /\ c.status = "ready" \/ (c.status = "open" /\ writer.pc = "written") =>
         PayloadHeld(bytes, c)

HoldingInv ==
  reader.pc = "holding" =>
    \E c \in claims : c.off = reader.pos /\ c.status = "ready"

BytesInv ==
  TypeOK /\ ClaimsInv /\ WriterInv /\ QuietInv /\ StoredInv /\ HoldingInv
=============================================================================
