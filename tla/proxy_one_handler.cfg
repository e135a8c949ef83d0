CONSTANTS
  h1 = h1
  h2 = h2
  j1 = j1
  j2 = j2
  j3 = j3
  Handlers = {h1}
  Conns = {j1, j2}
  Tunnels = {j1}
  Slow = {j1}
  MaxFd = 2
  MaxPieces = 2
  Brief = {j2}
SPECIFICATION Spec
INVARIANTS TypeOK FaithfulRelay OnlyFailuresLeak
CHECK_DEADLOCK FALSE
