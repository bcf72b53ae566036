SPECIFICATION Spec
CONSTANTS
  None = None
  Steam64Offset = 10
  Seller = 1
  Buyer = 2
  Other = 3
  Asset = 50
  OfferId = 7
  OfferIds = {7}
  GiveLists <- PlainGiveLists
  ReceiveLists <- NoReceiveLists
  RollbackStatuses = {12}
  Protection = 1
  MaxTime = 4
  Task = {t1}
  Timeout = 1
  Grace = 1
  AbandonedWindow = 1
  SettleTimes = {0}
INVARIANT ReleaseSeenAfterSettlement
CHECK_DEADLOCK FALSE
