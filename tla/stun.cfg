CONSTANTS
  v6 = v6
  Halves <- MCHalves
  Xor <- MCXor
  Round <- MCRound
  WordMod <- MCWordMod
  AesEncrypt <- MCAesEncrypt
  AesDecrypt <- MCAesDecrypt
  Hmac <- MCHmac
  Clients <- MCClients
  V4 = {1, 2}
  HasSecret = TRUE
  Sizes = {1, 2}
  HeaderSize = 2
  Nonces = {3}
  MaxDatagrams = 2
  MaxTime = 2
SPECIFICATION Spec
INVARIANTS TypeOK AttestsDestination AttestedWhileHandled TransactionIdsNotOlder UndisturbedIsAnswered
