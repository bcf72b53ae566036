\* One read against a node that may fail, delay or never answer, and a
\* transaction in between.
SPECIFICATION Spec
CONSTANTS
  None = None
  w1 = w1
  w2 = w2
  Wallet <- TwoWallets
  SteamId = {11, 12}
  Registries <- SomeRegistered
  Window = {24, 72}
  RpcTimeout = 1
  BaseDelay = 1
  MaxChanges = 1
  MaxTime = 15
INVARIANTS
  ReadBounded
  SnapshotFresh
PROPERTY ReadsAtOneMoment
