----------------------------- MODULE RingLayout -----------------------------
(***************************************************************************)
(* Where a message goes in the ring of message_transport/ipc_queue.cpp.    *)
(* An absolute offset only grows; its position in the shared memory region *)
(* is its remainder modulo the queue size.  A message is a header followed *)
(* by its payload.  It is placed at the current write offset only when,    *)
(* after it, one more header still fits before the end of the region;      *)
(* otherwise the rest of the region is claimed for a padding message.      *)
(***************************************************************************)
EXTENDS Integers

CONSTANTS
  QueueSize,    \* available_queue_size_bytes
  HeaderSize    \* sizeof(MessageHeader), 18 in the code

\* IpcQueue's constructor accepts powers of two up to 1 GB.  It does not
\* compare the size with a header's; a queue smaller than one header makes
\* the unsigned subtraction in claim_buffer wrap, and is left out here.
ASSUME LayoutAssumption ==
  /\ HeaderSize \in Nat \ {0}
  /\ QueueSize \in Nat
  /\ HeaderSize <= QueueSize

\* Every size claim_buffer does not reject.
AcceptedSizes == 1 .. (QueueSize - HeaderSize)

Rel(offset) == offset % QueueSize

\* bytes_remaining_at_end
Remaining(offset) == QueueSize - Rel(offset)

\* total_message_len
Total(size) == size + HeaderSize

FitsWithoutSpare(offset, total) == total <= Remaining(offset)

Fits(offset, total) == total + HeaderSize <= Remaining(offset)

\* bytes_to_bump: how far one claim moves the write offset.
Bump(offset, total) ==
  IF Fits(offset, total) THEN total ELSE Remaining(offset)

\* padding_size: the payload size of the padding message of a skip.
PaddingSizeTwoHeaders(offset) == Remaining(offset) - 2 * HeaderSize
PaddingSize(offset) == Remaining(offset) - HeaderSize

\* message_payload, one past the end of the bytes insert_skip_message zeroes:
\* sizeof(MessageHeader) is added to a MessageHeader pointer, so the start is
\* that many headers away from the header.
PaddingEnd(offset) ==
  Rel(offset) + HeaderSize * HeaderSize + PaddingSize(offset)
=============================================================================
