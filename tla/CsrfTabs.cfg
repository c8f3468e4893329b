SPECIFICATION FairSpec
CONSTANTS
  r1 = r1  r2 = r2  t1 = t1  t2 = t2
  NoReq = NoReq  NoTab = NoTab
  Reqs = {r1, r2}
  Tabs = {t1, t2}
  MaxSessions = 2
  MaxTokens = 3
CHECK_DEADLOCK FALSE
INVARIANTS TypeOK OneRetryIsEnough
PROPERTY EveryCallEnds
