\* Mixed sizes, before the write offset needs a second byte.
SPECIFICATION Spec
CONSTANTS
  QueueSize = 64
  HeaderSize = 18
  Sizes = {1, 2, 10, 11, 17, 28}
  PayloadBytes = {1, 2}
  Unit = 1
  MaxOffset = 250
INVARIANTS
  InStep
  HeldWhole
  BytesInv
PROPERTY CatchesUp
\* Claims stop at MaxOffset, and a poll of an empty queue changes nothing.
CHECK_DEADLOCK FALSE
