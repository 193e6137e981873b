\* Nine attempts take the delay past its cap and the counter around its width.
CONSTANTS
  Chain <- ShortChain
  ChannelCap = 2
  AttemptModulus = 9
SPECIFICATION FairSpec
INVARIANTS
  TypeOK
  InChainOrder
  ReadIsDelivered
PROPERTIES
  FeedsTheLoop
  ReconnectsBackOff
  KeepsReconnecting
CHECK_DEADLOCK FALSE
