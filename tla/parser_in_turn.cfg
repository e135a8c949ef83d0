CONSTANTS
  t1 = t1
  t2 = t2
  hostA = hostA
  hostB = hostB
  Threads = {t1, t2}
  Requests <- Ordinary
  Hosts = {hostA, hostB}
  Overlap = FALSE
SPECIFICATION Spec
INVARIANTS TypeOK DestinationIsRequested NoCrash
CHECK_DEADLOCK FALSE
