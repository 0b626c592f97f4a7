SPECIFICATION FairSpec
CONSTANTS
  r1 = r1
  r2 = r2
  w1 = w1
  w2 = w2
  t1 = t1
  team = team
  Requests = {}
  Workers = {w1}
  Txs = {t1}
  Subs = {1, 2, 3, 4}
  Founders = {1, 2, 4}
  Topics = {team}
  Members <- MCMembers
  Tos <- MCTos
  BatchSize = 2
  MaxBroadcasts = 1
  MaxChanges = 0
  MaxFaults = 1
CHECK_DEADLOCK FALSE
PROPERTY
  RerunIsIdempotent
