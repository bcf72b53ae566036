\* A notarization against the clock, the chain and a rollback; fair clock and timers.
SPECIFICATION FairSpec
CONSTANTS
  None = None
  Steam64Offset = 10
  Seller = 1
  Buyer = 2
  Other = 3
  Asset = 50
  OfferId = 7
  OfferIds = {7}
  GiveLists <- PlainGiveLists
  ReceiveLists <- NoReceiveLists
  RollbackStatuses = {12}
  Protection = 2
  MaxTime = 4
  Task = {t1}
  Timeout = 1
  Grace = 1
  AbandonedWindow = 1
  SettleTimes = {0}
INVARIANTS
  DeadlineHolds
  DriverNeverOutlives
  ReleaseMargin
  StaleSignatureBounded
PROPERTY TaskEnds
CHECK_DEADLOCK FALSE
