\* Two writers and two readers that keep running: a lap of messages and a skip.
SPECIFICATION FairFanoutSpec
CONSTANTS
  w1 = w1
  w2 = w2
  r1 = r1
  r2 = r2
  Writers = {w1, w2}
  Readers = {r1, r2}
  ReadyCheckers = {w1, w2}
  QueueSize = 8
  HeaderSize = 1
  Sizes = {1}
  ReaderLimit = 4
  MaxOffset = 8
PROPERTIES
  EveryClaimReturns
  NoStarvation
  SpaceReturns
\* Claims stop at MaxOffset, and a poll of an empty queue changes nothing.
CHECK_DEADLOCK FALSE
