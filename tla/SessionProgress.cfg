\* Refinement and progress: one session, more verifiers than permits; no symmetry.
SPECIFICATION FairSpec
CONSTANTS
  Session = {s1}
  NotaryReq = {n1, n2, n3}
  ResultReq = {r1, r2}
  MaxPending = 1
  MaxActive = 2
  None = None
PROPERTIES
  OneTimePromise
  ResultRequestsAnswered
  SessionsLeaveMap
  PermitsComeBack
