SPECIFICATION FairSpec
CONSTANTS
  u1 = u1  u2 = u2  s1 = s1  s2 = s2  r1 = r1  r2 = r2  r3 = r3
  e1 = e1  e2 = e2  p1 = p1  admin = admin  i1 = i1
  NoUser = NoUser  NoSession = NoSession  NoReq = NoReq
  NoEmail = NoEmail  NoSubject = NoSubject
  Users = {u1}
  Sessions = {s1}
  Reqs = {r1,r2}
  Emails = {e1}
  Subjects = {p1}
  Roles = {admin}
  Items = {i1}
  MaxPwd = 2
  FirstUser = u1
  FirstEmail = e1
CHECK_DEADLOCK FALSE
INVARIANTS OnlyPasswordLoginOutlivesDeletion DeletionAuditedOnce NotServedAfterDeletion
PROPERTIES StatusChangeRevokesAll NoGainAfterDeletion EveryRequestEnds
