\* A server comes first and leaves last.
SPECIFICATION HostedSpec
CONSTANTS
  w1 = w1
  w2 = w2
  r1 = r1
  r2 = r2
  Writers = {w1, w2}
  Readers = {r1, r2}
  SizeOf <- MCSizeOf
  Server = w1
  MaxObjects = 3
INVARIANTS
  OneQueue
  LastOutUnlinks
  HostedInv
PROPERTY KeptWhileUsed
\* Objects stop at MaxObjects, and a constructor that throws ends its process.
CHECK_DEADLOCK FALSE
