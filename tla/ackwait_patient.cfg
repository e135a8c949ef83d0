CONSTANTS
  a = a
  b = b
  bin = bin
  Data = {a, b}
  Text = {a, b}
  MaxInput = 3
  MaxCounter = 5
  MaxInFlight = 2
  Faults = {"loss"}
SPECIFICATION FairSpec
INVARIANT AckMeansAccepted
PROPERTY ImplementsFairStream
CHECK_DEADLOCK FALSE
