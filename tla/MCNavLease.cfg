SPECIFICATION LeaseSpec
CONSTANTS
  nav = nav
  Services <- MCServices
  NavService = nav
  Tokens <- MCTokens
  NoToken = NoToken
  MaxToken = 3
  LinkDepth = 1
  RouteLength = 2
  CoyoteTokens = {}
  HeartbeatTimeout = 1
  QuietTicks = 1
  CancelPeriod = 1
INVARIANTS
  LeaseInv
  GoalAlwaysWatched
PROPERTY DisarmsOnlyWhenIdle
