\* Two controllers and two agents, any commands, exceptions and starts.
SPECIFICATION BusSpec
CONSTANTS
  a1 = a1
  a2 = a2
  c1 = c1
  c2 = c2
  aapl = aapl
  Subscribers = {a1, a2}
  Publishers = {c1, c2}
  Symbols = {aapl}
  Ids = {1}
  garbled = garbled
  Garbled = garbled
  Published <- KindsPublished
  Capacity = 2
  MaxClaims = 2
INVARIANTS SymbolsCurrent StopsWhenTold BusInv
PROPERTY ShutdownObeyed
\* Claims stop at MaxClaims.
CHECK_DEADLOCK FALSE
