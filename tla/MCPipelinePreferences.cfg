SPECIFICATION Spec
CONSTANTS
  n1 = n1
  n2 = n2
  d1 = d1
  s1 = s1
  c1 = c1
  w1 = w1
  w2 = w2
  Notifs = {n1}
  Directs = {}
  Subs = {s1}
  SubOf <- MCSubOf
  Channels = {"email", "in_app", "push"}
  Limited = {"email"}
  MaxPerWindow = 2
  DefaultOn = {"email", "in_app"}
  Conds = {c1}
  Workflows <- DeliveringWorkflows
  MaxSteps = 3
  MaxRetries = 1
  Workers = {w1}
  MaxEvents = 1
  MaxWrites = 2
CHECK_DEADLOCK FALSE
INVARIANT
  OptOutRespected
