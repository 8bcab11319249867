SPECIFICATION FairSpec
CONSTANTS
  MaxRecvIter = 3
  Resets = FALSE
INVARIANT RefusedAreNotHttp
