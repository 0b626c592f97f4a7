SPECIFICATION Spec
CONSTANTS
  n1 = n1
  n2 = n2
  d1 = d1
  s1 = s1
  c1 = c1
  w1 = w1
  w2 = w2
  Notifs = {n1}
  Directs = {d1}
  Subs = {s1}
  SubOf <- MCSubOf
  Channels = {"email", "in_app", "push"}
  Limited = {"email"}
  MaxPerWindow = 1
  DefaultOn = {"email", "in_app"}
  Conds = {c1}
  Workflows <- RacingWorkflows
  MaxSteps = 3
  MaxRetries = 1
  Workers = {w1, w2}
  MaxEvents = 1
  MaxWrites = 0
CHECK_DEADLOCK FALSE
SYMMETRY WorkerSymmetry
INVARIANTS
  TypeOK
  AttemptsBounded
  StatusTruthful
  WithinRateLimit
  SettledWhenQuiet
PROPERTIES
  StatusFinal
