SPECIFICATION AuditSpec
CONSTANTS
  r1 = r1  r2 = r2  r3 = r3
  a1 = a1  a2 = a2  a3 = a3
  NoReq = NoReq 
  Reqs = {r1,r2}
  IdleTtl = 4
  AbsoluteTtl = 7
  TouchInterval = 7
  MaxDelay = 1
  MaxTime = 7
  Addresses = {a1,a2,a3}
  Window = 1
  RecentLimit = 1
  MaxReplays = 3
SYMMETRY Symmetry
CHECK_DEADLOCK FALSE
INVARIANTS AbsoluteLimit IdleLimit StaysUsable HalfIdleLeft NoReplayLost OneRowPerWindow DistinctIps
PROPERTY RevocationStays
