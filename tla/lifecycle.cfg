\* Two writers and a reader open and close at any time.
SPECIFICATION Spec
CONSTANTS
  w1 = w1
  w2 = w2
  r1 = r1
  r2 = r2
  Writers = {w1, w2}
  Readers = {r1}
  SizeOf <- MCSizeOf
  Server = w1
  MaxObjects = 3
INVARIANTS
  TypeOK
  CountsExact
  SizesAgree
  LifecycleInv
\* Objects stop at MaxObjects, and a constructor that throws ends its process.
CHECK_DEADLOCK FALSE
