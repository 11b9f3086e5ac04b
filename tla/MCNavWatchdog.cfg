SPECIFICATION WatchdogSpec
CONSTANTS
  s1 = s1
  s2 = s2
  Services <- MCServices
  Tokens <- MCTokens
  NoToken = NoToken
  HeartbeatTimeout = 2
  QuietTicks = 2
  CancelPeriod = 2
INVARIANT WatchdogInv
PROPERTIES
  AckedResetIsClean
  DrainErrorIsFinal
  ImplementsFailSafe
