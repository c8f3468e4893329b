SPECIFICATION Spec
CONSTANTS
  b1 = b1  b2 = b2  f1 = f1  f2 = f2  f3 = f3  s1 = s1  s2 = s2
  r1 = r1  r2 = r2  p1 = p1  p2 = p2  u1 = u1  u2 = u2
  NoBrowser = NoBrowser  NoFlow = NoFlow  NoSession = NoSession
  NoUser = NoUser  NoAnswer = NoAnswer
  Browsers = {b1, b2}
  Flows = {f1, f2}
  Sessions = {s1, s2}
  Reqs = {r1, r2}
  Subjects = {p1, p2}
  Users = {u1}
  StateTtl = 1
  Freshness = 1
  Leeway = 0
  MaxSkew = 1
  MaxTime = 2
SYMMETRY Symmetry
CHECK_DEADLOCK FALSE
INVARIANTS OneSessionPerFlow OwnFlowsOnly FreshDeletion ProofIsOwn
