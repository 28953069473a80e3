SPECIFICATION FairSpec
CONSTANTS
  d1 = d1
  d2 = d2
  r1 = r1
  r2 = r2
  Opener = Opener
  Nobody = Nobody
  Descriptors = {d1}
  Requests = {r1, r2}
  Step = 1
  Keypool = 3
  MaxIndex = 2
INVARIANTS
  TypeOK
  HandedOutIsWatched
  GapEndIsWatched
  AddressesDiffer
  IndexesHaveNoGaps
PROPERTIES
  EveryIndexIsHandedOut
