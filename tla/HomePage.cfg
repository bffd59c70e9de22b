SPECIFICATION MCFairSpec
CONSTANTS
  Ids = {p1}
  Categories = {news, reads}
  Titles = {t1}
  Contents = {}
  Slots = {s1}
  Omitted = Omitted
  None = None
  MaxRequests = 4
  MaxPages = 1
INVARIANTS
  ReferencesHold
  CacheUnlessRaced
PROPERTY HomePageSettles
