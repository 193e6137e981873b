\* A 2-bit cursor over three wallets: 2^2 is no multiple of 3, as 2^64 is not,
\* and twelve picks wrap the cursor three times.
CONSTANTS
  NumWallets = 3
  CursorModulus = 4
  MaxPicks = 12
  Tasks = {t1, t2, t3, t4}
SPECIFICATION RotationSpec
SYMMETRY Symmetry
INVARIANTS
  TypeOK
  ExclusiveLease
  NoLeakedWallet
  NoUnmarkedLease
  BalancedRotation
PROPERTY DeniedOnlyWhenExhausted
CHECK_DEADLOCK FALSE
