\* The same, for what a page says of the length of its list.
SPECIFICATION Spec
CONSTANTS
  Limits = {0, 1, 3, 9}
  DefaultLimit = 2
  CollectionDefault = 1
  HistoryDefault = 3
  MaxLimit = 3
  ServiceMax = 4
  MaxRows = 3
PROPERTIES TotalIsListSize
