CONSTANTS
  c1 = c1
  c2 = c2
  t1 = t1
  t2 = t2
  ip1 = ip1
  ip2 = ip2
  ip3 = ip3
  ip4 = ip4
  Clients = {c1, c2}
  Threads = {t1, t2}
  Letters <- Sendable
  Files <- Hosts
  FirstSize = 2
  Addresses = {ip1, ip2, ip3, ip4}
  Leftover = {0, 200}
  Scrap = Scrap
  NoClient = NoClient
  NoQuery = NoQuery
  NoAnswer = NoAnswer
  Faults = {"reorder"}
  MaxInFlight = 2
SPECIFICATION FairSpec
INVARIANTS TypeOK ReadsOnlyWritten RoomForLabels WholeIsParsed RepliesToAsker BuffersFit TableFits
PROPERTIES ImplementsService Answered
CHECK_DEADLOCK FALSE
