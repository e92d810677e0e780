CONSTANTS
  h1 = h1
  h2 = h2
  h3 = h3
  a = a
  b = b
  k1 = k1
  k2 = k2
  k3 = k3
  w1 = w1
  w2 = w2
  None = None
  Phone = {a, b}
  WalletID = {w1, w2}
  Key <- Keys
  WalletMax = 3
  Handler <- TwoHandlers
  Request <- AllRequests
  Seeds <- TransferSeeds
  Wallets <- OneWallet
  MaxRetries = 2
  MaxReruns = 1
SPECIFICATION FairSpec
CHECK_DEADLOCK FALSE
INVARIANTS OneWalletPerPhone
PROPERTIES EveryRequestAnswered EveryStepAdvances MovesOncePerKey ImplementsAtomicLedger
