\* Two requests, one account, a page of one asset and two pages at most.
SPECIFICATION Spec
CONSTANTS
  None = None
  alice = alice
  Request = {q1, q2}
  Account = {alice}
  Asset = {1, 2, 3}
  Asked <- MCAsked
  Inventories <- MCInventories
  PoolSizes = {0, 2}
  ITEMS_PER_PAGE = 1
  MAX_PAGES = 2
  RequestTimeout = 1
  BaseWait = 1
  RateWait = 1
  Capacity = 1
  Ttl = 1
  MaxMoves = 1
  Horizon = 3
SYMMETRY MCSymmetry
INVARIANTS
  TypeOK
  AnsweredInTime
PROPERTIES
  StaleAttestationBounded
  NotFoundMeansAbsent
