CONSTANTS
  Stacks = {s1, s2}
  Instances = {1, 2}
  Tags <- MCTagsTwoStacks
  Zones = {z1}
  HostedZone <- MCHostedZone
  NoStack = NoStack
  None = None
  s1 = s1
  s2 = s2
  z1 = z1
  Copies = {1}
  MaxAttempts = 1
  MaxItems = 2
  MaxPolls = 1
  MaxFaults = 0
  MaxInFlight = 1
  LostReplies = FALSE
  PageSize = 1
SPECIFICATION TeardownSpec
PROPERTIES OnlyOrphansGo
