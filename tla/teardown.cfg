CONSTANTS
  Stacks = {s1}
  Instances = {1, 2}
  Tags <- MCTags
  Zones = {z1}
  HostedZone <- MCHostedZone
  NoStack = NoStack
  None = None
  s1 = s1
  s2 = s2
  z1 = z1
  Copies = {1}
  MaxAttempts = 1
  MaxItems = 2
  MaxPolls = 1
  MaxFaults = 1
  MaxInFlight = 1
  LostReplies = FALSE
  PageSize = 1
SPECIFICATION TeardownSpec
INVARIANTS TeardownTypeOK SettledAreCleaned OneCheckPerInstance
PROPERTIES CleanupRowGoesLast
