\* One reader that may close at any time, and writers that abort claims or let
\* go of them.
SPECIFICATION Spec
CONSTANTS
  w1 = w1
  w2 = w2
  r1 = r1
  r2 = r2
  Writers = {w1, w2}
  Readers = {r1}
  ReadyCheckers = {w1, w2}
  QueueSize = 4
  HeaderSize = 1
  Sizes = {1, 2}
  ReaderLimit = 4
  MaxOffset = 5
SYMMETRY Symmetry
INVARIANTS
  TypeOK
  WritersDisjoint
  WatermarkExact
  ChannelInv
  QueueInv
PROPERTY ImplementsChannel
\* Claims stop at MaxOffset, and a poll of an empty queue changes nothing.
CHECK_DEADLOCK FALSE
