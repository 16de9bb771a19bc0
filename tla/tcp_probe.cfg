CONSTANTS
  Conns = {1, 2}
  AddressOf <- MCAddressOf
  Requests = {1, 2, 3}
  ConnOf <- MCConnOf
  Use <- MCUse
  None = None
  SweepAge = 0
  MaxTime = 1
SPECIFICATION FairSpec
INVARIANTS TypeOK TokenResolves TokensAreOwn AppRttIsElapsed
PROPERTIES EntriesGo
