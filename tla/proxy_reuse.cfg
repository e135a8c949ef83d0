CONSTANTS
  h1 = h1
  h2 = h2
  j1 = j1
  j2 = j2
  j3 = j3
  Handlers = {h1, h2}
  Conns = {j1, j2}
  Tunnels = {j1, j2}
  Slow = {}
  MaxFd = 4
  MaxPieces = 2
  Brief = {j2}
SPECIFICATION Spec
INVARIANT FaithfulRelay
CHECK_DEADLOCK FALSE
