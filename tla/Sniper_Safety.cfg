CONSTANTS
  Launches = {l1, l2, l3}
  Reconnecting = Reconnecting
  ChannelCap = 2
  Limits = {0, 2, 3}
  NumWallets = 2
  CursorModulus = 4
SPECIFICATION Spec
SYMMETRY Symmetry
INVARIANTS
  TypeOK
  PermitsConserved
  NoSkipWhenPoolCovers
  SerialLease
  LeaseOnlyWhileBuying
  AtMostOneLateSnipe
  DrainedAtStreamEnd
PROPERTIES
  SkipOnlyWhenAllBuying
  ReadsTheFeed
CHECK_DEADLOCK FALSE
