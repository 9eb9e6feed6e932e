\* A reader suspended inside poll_buffer, two readers, the second lap.
SPECIFICATION SteadySpec
CONSTANTS
  w1 = w1
  w2 = w2
  r1 = r1
  r2 = r2
  Writers = {w1}
  Readers = {r1, r2}
  ReadyCheckers = {w1}
  QueueSize = 8
  HeaderSize = 1
  Sizes = {1}
  ReaderLimit = 4
  MaxOffset = 9
INVARIANT HeldIntact
\* Claims stop at MaxOffset, and a poll of an empty queue changes nothing.
CHECK_DEADLOCK FALSE
