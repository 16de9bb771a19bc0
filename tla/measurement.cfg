CONSTANTS
  Streams <- MCStreams
  Cuts = {3, 9, 60}
  ReadSizes = {4, 200}
  Times = {0, 2, 3, 7}
  Rtts = {0, 2, 7}
  MaxRtt = 5
  None = None
SPECIFICATION Spec
INVARIANTS TypeOK Transparent Ja4IsOfTheOffer RatiosArePlausible
