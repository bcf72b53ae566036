SPECIFICATION FairSpec
CONSTANTS
  None = None
  Invalid = Invalid
  A = A
  B = B
  K = K
  Main = Main
  Test = Test
  Images = {A, B}
  OperatorKeys = {K}
  Yamls <- MCYamls
  Hosts <- MCHosts
  ParseAddress <- MCParseAddress
  ZERO_ADDR = "zero"
  RandomKeys = {1, 2, 3}
  DefaultChain = Main
  Deployments <- MCDeployments
  Assets = {1}
  Offers = {1, 2}
  Details = {1}
  Outcomes <- MCOutcomes
  MaxChanges = 2
  MaxSigned = 1
  MaxTrusted = 2
INVARIANTS
  QuoteNamesSigner
  RestartKeepsRegistration
  RegistrationCoversIdentity
  AcceptedMeansDecided
  ServesOnlyConfigured
PROPERTIES
  RegisteredComesBack
CHECK_DEADLOCK FALSE
