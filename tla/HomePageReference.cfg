SPECIFICATION MCSpec
CONSTANTS
  Ids = {p1, p2}
  Categories = {news, reads}
  Titles = {t1}
  Contents = {}
  Slots = {s1}
  Omitted = Omitted
  None = None
  MaxRequests = 4
  MaxPages = 1
INVARIANT NoReferenceToDeleted
