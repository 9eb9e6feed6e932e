\* Two readers and two writers over two laps; no header is cleared between the
\* two looks of a poll at it.
SPECIFICATION FanoutSpec
CONSTANTS
  w1 = w1
  w2 = w2
  r1 = r1
  r2 = r2
  Writers = {w1, w2}
  Readers = {r1, r2}
  ReadyCheckers = {w1, w2}
  QueueSize = 8
  HeaderSize = 1
  Sizes = {1}
  ReaderLimit = 4
  MaxOffset = 17
SYMMETRY Symmetry
INVARIANTS
  NoOverwrite
  HeldIntact
  ReaderCountExact
  QueueInv
  ChannelInv
PROPERTY ImplementsChannel
\* Claims stop at MaxOffset, and a poll of an empty queue changes nothing.
CHECK_DEADLOCK FALSE
