CONSTANTS
  a = a
  b = b
  bin = bin
  Data = {a, b, bin}
  Text = {a, b}
  MaxInput = 3
  MaxCounter = 5
  MaxInFlight = 2
  Faults = {"loss", "duplicate", "reorder", "early_timeout", "send_raises"}
SPECIFICATION Spec
INVARIANTS TypeOK InOrder CounterCovers NothingPastGap
PROPERTY ImplementsStream
CHECK_DEADLOCK FALSE
