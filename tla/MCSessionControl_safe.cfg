\* Two clients, a runtime of any role, one session.
SPECIFICATION SafeSpec
CONSTANTS
  Clients = {c1, c2}
  Runtimes = {r1}
  Sessions = {s1}
  NoRuntime = NoRuntime
  NoSession = NoSession
  Queries = {}
SYMMETRY ClientSymmetry
INVARIANTS TypeOK StoppedMeansStopped SessionsFitTheirRuntime
PROPERTIES NoResurrection ImplementsContract
