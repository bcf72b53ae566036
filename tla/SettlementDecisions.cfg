\* One notarization against every offer, item list and capture.
SPECIFICATION Spec
CONSTANTS
  None = None
  Steam64Offset = 10
  Seller = 1
  Buyer = 2
  Other = 3
  Asset = 50
  OfferId = 7
  OfferIds = {7, 8}
  GiveLists <- AllGiveLists
  ReceiveLists <- AllReceiveLists
  RollbackStatuses = {7, 12}
  Protection = 1
  MaxTime = 3
  Task = {t1}
  Timeout = 1
  Grace = 0
  AbandonedWindow = 1
  SettleTimes = {}
INVARIANTS
  ReleaseTruthful
  RefundTruthful
  ProversAgree
PROPERTY DecisionsAreFinal
CHECK_DEADLOCK FALSE
