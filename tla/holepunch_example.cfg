CONSTANTS
  c1 = c1
  c2 = c2
  c3 = c3
  c4 = c4
  id10 = id10
  id14 = id14
  id15 = id15
  Clients = {c1, c2, c3}
  Server = Server
  NoPeer = NoPeer
  NoId = NoId
  SourceId <- Anonymous
  DestId <- AnonymousWants
  Faults = {}
  Haste = {}
  MaxLines = 1
  MaxInFlight = 3
SPECIFICATION FairSpec
PROPERTIES BothConnect LinesHeard
CHECK_DEADLOCK FALSE
