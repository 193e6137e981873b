CONSTANTS
  MaxBundleRetries = 1
  TipAccounts = {a, b, unparsable}
  ValidAccounts = {a, b}
  TipLamports = 1000000
  NoTip = NoTip
  MaxHash = 1
SPECIFICATION FairSpec
PROPERTY FallbackOnlyIfDropped
CHECK_DEADLOCK FALSE
