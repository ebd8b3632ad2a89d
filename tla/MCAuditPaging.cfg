\* Lists of up to seven rows, pages of up to three, limits beyond that asked for.
SPECIFICATION Spec
CONSTANTS
  Limits = {0, 1, 3, 9}
  DefaultLimit = 2
  CollectionDefault = 1
  HistoryDefault = 3
  MaxLimit = 3
  ServiceMax = 4
  MaxRows = 7
INVARIANTS TypeOK WalkIsComplete ListedOnce
PROPERTIES WalksEnd
