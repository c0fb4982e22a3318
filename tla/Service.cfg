SPECIFICATION Spec
CONSTANTS
  p1 = p1
  p2 = p2
  home = home
  away = away
  Declared <- Two
  Nobody = Nobody
  InitialRetryInterval = 1
  MaxRetryInterval = 3
  RetryBackoffMultiplier = 2
  Dynamic = {p2}
  Addresses = {home, away}
  Literal = Literal
  Endpoints = 2
  MaxOutages = 2
  MaxMoves = 1
  MaxBadReplies = 1
INVARIANT
  TypeOK
  PendingOrReady
  OrderKept
  ReadyIsHonest
PROPERTY
  Recovers
  TargetFollows
  ShutdownEnds
CHECK_DEADLOCK FALSE
