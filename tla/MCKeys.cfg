SPECIFICATION KFairSpec
CONSTANTS
  NakLimit = 3
  RetryLimit = 3
  MaxPackets = 3
  Reports = 3
  Contents <- MCContents
INVARIANTS NoGlitch
PROPERTIES InOrder CtrlIntact Returns
