CONSTANTS
  MaxBundleRetries = 2
  TipAccounts = {a, b, unparsable}
  ValidAccounts = {a, b}
  TipLamports = 1000000
  NoTip = NoTip
  MaxHash = 1
SPECIFICATION FairSpec
INVARIANTS
  TypeOK
  ReportIsReal
  DoubleBuyNeedsLostAnswer
  DirectIsLastResort
PROPERTY KeepsPromise
CHECK_DEADLOCK FALSE
