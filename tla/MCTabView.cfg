SPECIFICATION Spec
CONSTANTS
  Tabs = {t1, t2}
  Addresses = {a1, a2}
  Freed = Freed
  Urls <- MCUrls
  Cookies <- MCCookies
  NoUrl = NoUrl
  NoCallback = NoCallback
  MaxLoads = 2
  MaxEvents = 2
INVARIANTS TypeOK LogIsTrue ViewSettles ConsentIsForThisSite
CHECK_DEADLOCK FALSE
SYMMETRY Alike
