CONSTANTS
  EntryPrice = 10
  EntryTs = 5
  Candidates <- Sections
  Prices = {6, 7, 9, 12, 15, 18, 20, 26, 30, 40}
  Times = {3, 5, 64, 65, 90}
SPECIFICATION Spec
INVARIANTS
  TypeOK
  LadderAccounting
  HoldingsFollow
  OverdueWaitsForRungsOnly
  TrailWaitsForRungsOnly
  RungsFireInOrder
PROPERTY OnlyShrinks
