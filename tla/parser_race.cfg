CONSTANTS
  t1 = t1
  t2 = t2
  hostA = hostA
  hostB = hostB
  Threads = {t1, t2}
  Requests <- Browsing
  Hosts = {hostA, hostB}
  Overlap = TRUE
SPECIFICATION Spec
INVARIANT DestinationIsRequested
CHECK_DEADLOCK FALSE
