SPECIFICATION FairSpec
CONSTANTS
  r1 = r1  r2 = r2  r3 = r3  w1 = w1  w2 = w2  a1 = a1  e1 = e1
  x1 = x1  x2 = x2  other = other  bad = bad
  NoRequest = NoRequest
  Reqs = {r1, r2}
  Workers = {w1}
  WorkerOf <- OneWorker
  IPs = {a1}
  Emails = {e1}
  Flows = {"reauth"}
  Proxies = {x1, x2}
  Malformed = bad
  SentHeaders <- Headers
  Routes <- Chains
  Window = 1
  RegistrationWindow = 1
  PerEmailIp = 1
  PerIp = 1
  PerEmail = 1
  PerRegistration = 1
  PerOidc = 1
  Policy = "fail_closed"
  Threshold = 2
  Cooldown = 1
  Deadline = 1
  MaxLate = 1
CHECK_DEADLOCK FALSE
INVARIANTS TypeOK KeepsWindow Overshoot OutageCost OwnCounters
PROPERTY Recovers
