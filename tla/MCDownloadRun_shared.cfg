\* Two jobs that want the same two segments and share requests.
SPECIFICATION SafeSpec
CONSTANTS
  j1 = j1 j2 = j2 k1 = k1 k2 = k2 s1 = s1 s2 = s2 r1 = r1 r2 = r2
  x1 = x1 x2 = x2 both = both one = one none = none
  Jobs = {j1, j2}
  Keys = {k1}
  Segments = {s1, s2}
  Requests = {r1, r2}
  Sessions = {x1, x2}
  Strategies = {one}
  Inputs <- MCInputsOne
  Undownloadable = {}
  ActivePath = ActivePath
  NoSession = NoSession
  NoJob = NoJob
  NoSlot = NoSlot
  NoStrategy = NoStrategy
  MaxRestarts = 0
SYMMETRY JobSymmetry
INVARIANTS BlamesOwnRequest EveryGapIsRequested
CHECK_DEADLOCK FALSE
