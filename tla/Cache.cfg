SPECIFICATION Spec
CONSTANTS
  NumPages = 3
  MaxPage = 3
  SizeMax = 2
  Mappings = {m1, m2}
  NoData = NoData
  None = None
  MayFail = {"entry", "key", "key2"}
  MaxFrame = 1
INVARIANTS ReadsCurrent EntriesCurrent NoLeak Evictable Bounded
