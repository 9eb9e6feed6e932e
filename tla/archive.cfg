\* Publications that use a with block for each message, subscriptions that open
\* at any time.
SPECIFICATION BlocksSpec
CONSTANTS
  p1 = p1
  p2 = p2
  s1 = s1
  s2 = s2
  Publishers = {p1, p2}
  Subscribers = {s1, s2}
  Capacity = 2
  MaxClaims = 3
INVARIANTS DeliveredWhole BlocksInv
PROPERTY EveryClaimDelivered
\* Claims stop at MaxClaims, and a poll of an empty queue changes nothing.
CHECK_DEADLOCK FALSE
