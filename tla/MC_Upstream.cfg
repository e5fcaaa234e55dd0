SPECIFICATION LinkSpec
CONSTANTS
  k1 = k1
  k2 = k2
  a1 = a1
  a2 = a2
  b1 = b1
  b2 = b2
  Keys <- MCKeys
  Calls <- MCCalls
  KeyOf <- MCKeyOf
  MaxFrames = 1
  Requests = {a1, a2}
  MaxEpoch = 2
INVARIANTS
  WsTypeOK
  TokenSafe
  RefCountExact
  UpstreamMatchesMap
  OneConnection
  FramesReachOwnListeners
  RetryChainsBounded
PROPERTIES
  RecoveryLostOnlyByTokenFailure
  FeedSpec
  ActiveResumes
  LoginForgotten
CHECK_DEADLOCK FALSE
