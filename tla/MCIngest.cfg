SPECIFICATION FairSpec
CONSTANTS
  r1 = r1
  r2 = r2
  w1 = w1
  w2 = w2
  t1 = t1
  team = team
  Requests = {r1, r2}
  Workers = {w1, w2}
  Txs = {t1}
  Subs = {1, 2, 3, 4}
  Founders = {1, 2, 4}
  Topics = {team}
  Members <- MCMembers
  Tos <- MCTos
  BatchSize = 2
  MaxBroadcasts = 2
  MaxChanges = 1
  MaxFaults = 1
CHECK_DEADLOCK FALSE
INVARIANTS
  TypeOK
  DispatchedOnce
  AcceptedIsDispatched
  DuplicateHasRival
  BroadcastReachesAll
PROPERTIES
  ImplementsDispatch
  BroadcastsEnd
