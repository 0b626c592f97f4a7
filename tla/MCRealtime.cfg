CONSTANTS
  Conns = {1, 2}
  Notifs = {n1}
  Buffer = 1
  MaxAsks = 1
  MaxFaults = 1
SPECIFICATION Spec
CHECK_DEADLOCK FALSE
INVARIANTS TypeOK PushAgreesWithFeed PresenceSettles
PROPERTIES Reaped
