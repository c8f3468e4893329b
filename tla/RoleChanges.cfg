SPECIFICATION FairSpec
CONSTANTS
  admin = admin  editor = editor  retired = retired  r1 = r1  r2 = r2  r3 = r3
  NoReq = NoReq
  Roles = {admin, editor, retired}
  Known = {admin, editor}
  SeedRole = admin
  Reqs = {r1, r2}
CHECK_DEADLOCK FALSE
INVARIANTS TypeOK OneLockOrder
PROPERTIES GrantEvents NoSilentLoss EveryChangeEnds
