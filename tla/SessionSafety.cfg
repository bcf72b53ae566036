\* Two sessions compete for one place in the map, three verifiers for two permits.
SPECIFICATION Spec
CONSTANTS
  Session = {s1, s2}
  NotaryReq = {n1, n2, n3}
  ResultReq = {r1, r2}
  MaxPending = 1
  MaxActive = 2
  None = None
SYMMETRY Symmetry
INVARIANTS
  PermitsConserved
  OneVerifierPerSession
  MapBoundedAndExpiring
  OutcomeDeliveredOnce
  ChannelNeverCloses
PROPERTY OutcomeLossExplained
