SPECIFICATION Spec
CONSTANTS
  w1 = w1
  email = email
  telegram = telegram
  r1 = r1
  r2 = r2
  r3 = r3
  Requests = {r1, r2, r3}
  b1 = b1
  Starts = {b1}
  Workflows = {w1}
  Channels = {email, telegram}
  Initial <- MCInitial
  Payloads <- MCPayloads
  Declared <- MCDeclared
  MaxEdits = 1
  MaxFaults = 1
SYMMETRY MCSymmetry
CHECK_DEADLOCK FALSE
INVARIANTS
  TypeOK
  NamedWritesStand
  OnlyFaultsFail
  MaskComplete
PROPERTIES
  SilencedStays
  ListIsTruth
