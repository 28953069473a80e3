SPECIFICATION Spec
CONSTANTS
  d1 = d1
  d2 = d2
  r1 = r1
  r2 = r2
  Opener = Opener
  Nobody = Nobody
  Descriptors = {d1, d2}
  Requests = {r1, r2}
  Step = 2
  Keypool = 0
  MaxIndex = 2
INVARIANTS
  HandedOutIsWatched
