\* Both transports' bookkeeping, with ids that do not meet (Swift's).
CONSTANTS
  None = None
  MaxId = 2
  PeerIds = {11}
  OutboundCap = 1
  MayShutDown = TRUE
  MayPanic = TRUE
  MayWait = FALSE
SPECIFICATION Spec
INVARIANTS
  AnswersMatchCalls
  TokensServe
  RegistrationsHeld
PROPERTIES
  CancelledIsDiscarded
  KeepsPromise
CHECK_DEADLOCK FALSE
