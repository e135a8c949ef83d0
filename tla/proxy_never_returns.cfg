CONSTANTS
  h1 = h1
  h2 = h2
  j1 = j1
  j2 = j2
  j3 = j3
  Handlers = {h1}
  Conns = {j1}
  Tunnels = {}
  Slow = {}
  MaxFd = 4
  MaxPieces = 1
  Brief = {}
SPECIFICATION FairSpec
PROPERTY HandlerReturns
CHECK_DEADLOCK FALSE
