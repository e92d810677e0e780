CONSTANTS
  h1 = h1
  h2 = h2
  h3 = h3
  a = a
  b = b
  k1 = k1
  k2 = k2
  k3 = k3
  w1 = w1
  w2 = w2
  p1 = p1
  p2 = p2
  None = None
  Phone = {a, b}
  WalletID = {w1, w2}
  Key <- Keys
  WalletMax = 2
  Handler <- TwoHandlers
  Process = {p1, p2}
  Request <- LifecycleRequests
  Seeds <- WalletSeeds
  Wallets <- OneWallet
  MaxRetries = 2
  MaxReruns = 0
CHECK_DEADLOCK FALSE
SPECIFICATION StopSpec
INVARIANTS LifecycleTypeOK IndexesBeforeRequests ConnectionsOutliveHandlers CleanExitAnswersEveryone
PROPERTIES SignalledProcessesExit
