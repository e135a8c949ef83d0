CONSTANTS
  c1 = c1
  c2 = c2
  c3 = c3
  c4 = c4
  id10 = id10
  id14 = id14
  id15 = id15
  Clients = {c1, c2, c3, c4}
  Server = Server
  NoPeer = NoPeer
  NoId = NoId
  SourceId <- Crowd
  DestId <- CrowdWants
  Faults = {"loss", "reorder"}
  Haste = {"start", "type"}
  MaxLines = 1
  MaxInFlight = 2
SPECIFICATION Spec
INVARIANTS TypeOK PairingByName DestinationKnown HearsOnlyPeer
CHECK_DEADLOCK FALSE
