SPECIFICATION Spec
CONSTANTS
  r1 = r1  r2 = r2  r3 = r3  a1 = a1  a2 = a2  a3 = a3  e1 = e1  e2 = e2
  NoRequest = NoRequest
  Reqs = {r1, r2}
  IPs = {a1, a2, a3}
  Emails = {e1}
  Flows = {"login", "register"}
  Window = 1
  RegistrationWindow = 1
  PerEmailIp = 1
  PerIp = 1
  PerEmail = 1
  PerRegistration = 1
  PerOidc = 1
  Cap = 2
  MaxTime = 2
SYMMETRY Symmetry
CHECK_DEADLOCK FALSE
INVARIANTS TypeOK BucketsBounded Overshoot
PROPERTY ImplementsWindow
