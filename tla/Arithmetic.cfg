CONSTANTS
  MaxInt = 127
  WalletMax = 100
SPECIFICATION Spec
INVARIANTS WithinLimits TestsAreExact
