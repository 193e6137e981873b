CONSTANTS
  Launches = {l1, l2}
  Reconnecting = Reconnecting
  ChannelCap = 1
  Limits = {0, 2}
  NumWallets = 1
  CursorModulus = 4
SPECIFICATION FairSpec
PROPERTIES
  LaunchesAreHandled
  ServesTheOperator
CHECK_DEADLOCK FALSE
