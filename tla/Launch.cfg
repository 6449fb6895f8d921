SPECIFICATION FairSpec
CONSTANTS
  MaxProcs = 3
  ClaimAttempts = 2
  ConnectAttempts = 2
INVARIANTS OnePrimary EffectAtMostOnce ExitOkMeansDone HandOffSucceeds
PROPERTY SessionSettles
CHECK_DEADLOCK FALSE
