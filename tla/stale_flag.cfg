\* Mixed sizes, offsets of two bytes.
SPECIFICATION Spec
CONSTANTS
  QueueSize = 64
  HeaderSize = 18
  Sizes = {1, 17}
  PayloadBytes = {0}
  Unit = 1
  MaxOffset = 500
INVARIANT HeldWhole
\* Claims stop at MaxOffset, and a poll of an empty queue changes nothing.
CHECK_DEADLOCK FALSE
