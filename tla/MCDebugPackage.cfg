\* Three bars, two to a page, opened and closed in every way a row may say so.
SPECIFICATION Spec
CONSTANTS
  Step = 2
  Last = 6
  Limit = 2
INVARIANTS TypeOK PackageIsComplete NoBarTwice NoFalseAlarm
PROPERTIES DownloadEnds
CHECK_DEADLOCK FALSE
