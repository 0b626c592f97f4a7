SPECIFICATION FairSpec
CONSTANTS
  n1 = n1
  n2 = n2
  n3 = n3
  w1 = w1
  w2 = w2
  Notifs = {n1, n2, n3}
  Workers = {w1, w2}
  MaxFaults = 2
CHECK_DEADLOCK FALSE
INVARIANTS
  TypeOK
  OneCollector
  EachDigestedOnce
PROPERTIES
  WindowCloses
