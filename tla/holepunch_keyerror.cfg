CONSTANTS
  c1 = c1
  c2 = c2
  c3 = c3
  c4 = c4
  id10 = id10
  id14 = id14
  id15 = id15
  Clients = {c1, c2}
  Server = Server
  NoPeer = NoPeer
  NoId = NoId
  SourceId <- Pair
  DestId <- PairWants
  Faults = {}
  Haste = {"start", "type"}
  MaxLines = 0
  MaxInFlight = 2
SPECIFICATION Spec
INVARIANTS ServerSurvives
CHECK_DEADLOCK FALSE
