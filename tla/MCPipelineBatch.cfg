SPECIFICATION FairSpec
CONSTANTS
  n1 = n1
  n2 = n2
  d1 = d1
  s1 = s1
  c1 = c1
  w1 = w1
  w2 = w2
  Notifs = {n1, n2}
  Directs = {}
  Subs = {s1}
  SubOf <- MCSubOf
  Channels = {"email", "sms", "in_app"}
  Limited = {"email"}
  MaxPerWindow = 1
  DefaultOn = {"email", "sms", "in_app"}
  Conds = {c1}
  Workflows <- WaitingWorkflows
  MaxSteps = 3
  MaxRetries = 1
  Workers = {w1}
  MaxEvents = 1
  MaxWrites = 0
CHECK_DEADLOCK FALSE
INVARIANTS
  DelayRespected
PROPERTIES
  QueueDrains
