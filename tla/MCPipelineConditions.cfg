SPECIFICATION Spec
CONSTANTS
  n1 = n1
  n2 = n2
  d1 = d1
  s1 = s1
  c1 = c1
  w1 = w1
  w2 = w2
  Notifs = {n1}
  Directs = {}
  Subs = {s1}
  SubOf <- MCSubOf
  Channels = {"email", "sms", "in_app", "push"}
  Limited = {"email"}
  MaxPerWindow = 1
  DefaultOn = {"email", "sms", "in_app", "push"}
  Conds = {c1}
  Workflows <- AllWorkflows
  MaxSteps = 3
  MaxRetries = 1
  Workers = {w1}
  MaxEvents = 0
  MaxWrites = 0
CHECK_DEADLOCK FALSE
INVARIANT
  ConditionsHonoured
