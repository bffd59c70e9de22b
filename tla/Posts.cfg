SPECIFICATION MCSpec
CONSTANTS
  Ids = {p1, p2}
  Categories = {news, reads}
  Titles = {t1}
  Contents = {c1, c2}
  Slots = {}
  Omitted = Omitted
  None = None
  MaxRequests = 4
  MaxPages = 0
SYMMETRY Symmetry
INVARIANTS
  TypeOK
  OneCopy
  RemovedForGood
  LikesBounded
  AsTold
  SlugsUnlessRaced
