SPECIFICATION Spec
CONSTANTS
  h1 = h1
  h2 = h2
  m1 = m1
  m2 = m2
  p1 = p1
  p2 = p2
  wf = wf
  tpl = tpl
  a1 = a1
  Handlers = {h1, h2}
  Writers = {h1, h2}
  Integrations = {m1, m2, p1, p2}
  Workflows = {wf}
  Templates = {tpl}
  ChannelOf <- MCChannelOf
  PushProvider = {p2}
  Founded = {m1, m2, p1, wf}
  Names = {a1}
  Starts = {0, 2}
  MaxTime = 3
  MaxRequests = 4
  MaxFaults = 1
SYMMETRY MCSymmetry
CHECK_DEADLOCK FALSE
INVARIANTS
  TypeOK
  AvailableMirrorsDelivery
  ExpiryHonoured
PROPERTIES
  EditKeepsRest
  PromotionIsWhole
