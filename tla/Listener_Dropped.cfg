CONSTANTS
  Chain <- ShortChain
  ChannelCap = 2
  AttemptModulus = 3
SPECIFICATION FairSpec
PROPERTY DropTerminates
CHECK_DEADLOCK FALSE
