SPECIFICATION Spec
CONSTANTS
  c1 = c1  c2 = c2
  Calls = {c1, c2}
  Ttl = 3
  Negative = 2
  Cooldown = 1
  MaxLoad = 1
  MaxKeys = 2
SYMMETRY Symmetry
INVARIANTS TypeOK TrustEnds Heals
