\* Two writers and one reader, a lap and a half.  With a header of two bytes
\* and payloads of one or three, claims reach every residue of the region, and
\* what is left for a skip is anything from two bytes up.
SPECIFICATION SteadySpec
CONSTANTS
  w1 = w1
  w2 = w2
  r1 = r1
  r2 = r2
  Writers = {w1, w2}
  Readers = {r1}
  ReadyCheckers = {w1, w2}
  QueueSize = 16
  HeaderSize = 2
  Sizes = {1, 3}
  ReaderLimit = 4
  MaxOffset = 25
SYMMETRY Symmetry
INVARIANTS
  SkipHeaderFits
  QueueInv
  ChannelInv
PROPERTY ImplementsChannel
\* Claims stop at MaxOffset, and a poll of an empty queue changes nothing.
CHECK_DEADLOCK FALSE
