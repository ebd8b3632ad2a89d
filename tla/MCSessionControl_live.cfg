\* One client that may keep asking, one runtime, one session, and the picker.
SPECIFICATION Spec
CONSTANTS
  Clients = {c1}
  Runtimes = {r1}
  Sessions = {s1}
  NoRuntime = NoRuntime
  NoSession = NoSession
  Queries <- PickerQueries
INVARIANTS PicksAreNotRefused
PROPERTIES EndedRuntimeReleases
