\* Two synchronisations around a rotation, and a browser with two requests.
SPECIFICATION FairSpec
CONSTANTS
  Invocations <- MCInvocations
  NoKey = NoKey
  MaxRotations = 1
  MaxFaults = 1
  ByteBits = 2
  R13 = 3
  R16 = 4
  R17 = 5
  R21 = 6
  InitialHalves <- MCInitialHalves
  XorHalf <- MCXorHalf
  Requests <- MCRequests
  Key <- MCKey
  NoCookie = NoCookie
  Malformed = {legacy}
  Foreign <- MCForeign
  Viewers <- MCViewers
  Uuid <- MCUuid
  Fpid <- MCFpid
  Bar = 3
  MaxTime = 1
INVARIANTS EdgeTypeOK KvsHoldsTheSecret StableIdentity
PROPERTIES TokensVerify RotationReachesEdge
