SPECIFICATION FairLeaseSpec
CONSTANTS
  nav = nav
  Services <- MCServices
  NavService = nav
  Tokens <- MCTokens
  NoToken = NoToken
  MaxToken = 2
  LinkDepth = 1
  RouteLength = 1
  CoyoteTokens = {3}
  HeartbeatTimeout = 1
  QuietTicks = 1
  CancelPeriod = 1
PROPERTY OrphanStopped
