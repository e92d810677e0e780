CONSTANTS
  h1 = h1
  h2 = h2
  h3 = h3
  a = a
  b = b
  k1 = k1
  k2 = k2
  k3 = k3
  w1 = w1
  w2 = w2
  None = None
  paddedA = paddedA
  noPhone = noPhone
  Phone = {a, b, paddedA, noPhone}
  Mobile = {a, b}
  Trim <- TrimText
  Message <- RestMessages
  WalletID = {w1, w2}
  Key <- Keys
  WalletMax = 2
  Handler <- TwoHandlers
  Request <- RestRequests
  Seeds <- RestSeeds
  Wallets <- MaybeNoWallet
  MaxRetries = 2
  MaxReruns = 1
SPECIFICATION RestSpec
CHECK_DEADLOCK FALSE
INVARIANTS CreatedIsPosted
