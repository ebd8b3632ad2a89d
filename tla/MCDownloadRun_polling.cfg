\* Polling reacts without the deadline.
SPECIFICATION AnsweringSpec
CONSTANTS
  j1 = j1 j2 = j2 k1 = k1 k2 = k2 s1 = s1 s2 = s2 r1 = r1 r2 = r2
  x1 = x1 x2 = x2 both = both one = one none = none
  Jobs = {j1}
  Keys = {k1, k2}
  Segments = {s1}
  Requests = {r1, r2}
  Sessions = {x1}
  Strategies = {both}
  Inputs <- MCInputsBoth
  Undownloadable = {}
  ActivePath = ActivePath
  NoSession = NoSession
  NoJob = NoJob
  NoSlot = NoSlot
  NoStrategy = NoStrategy
  MaxRestarts = 0
PROPERTIES PollingNotices
CHECK_DEADLOCK FALSE
