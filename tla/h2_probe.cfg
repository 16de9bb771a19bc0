CONSTANTS
  Conns = {c1}
  Settings = {s1, s2}
  Increments = {1, 2}
  Priorities = {p1}
  PseudoOrders = {masp}
  None = None
  MaxFrames = 4
  MaxSettings = 2
SPECIFICATION FairSpec
INVARIANTS TypeOK Http2TokensResolve FingerprintOfFrames AnsweredWithinLimit
PROPERTIES ExchangesEnd
