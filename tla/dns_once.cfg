CONSTANTS
  Stacks = {s1, s2}
  Instances = {1}
  Tags <- MCTags
  Zones = {z1}
  HostedZone <- MCHostedZone
  NoStack = NoStack
  None = None
  s1 = s1
  s2 = s2
  z1 = z1
  Copies = {1}
  MaxAttempts = 3
  MaxItems = 2
  MaxPolls = 2
  MaxFaults = 2
  MaxInFlight = 2
  LostReplies = TRUE
SPECIFICATION FairSpec
INVARIANTS TypeOK OwnedOnly NoSilentOrphan
PROPERTIES RowGoesLast DeregisteredInTheEnd RegisteredInTheEnd
