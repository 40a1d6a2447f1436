\* Two repositories by either route, a poll and a hook at once, calls that raise, keys that
\* expire, and three saves of the workflows' states: both end, and one says RUNNING again.
SPECIFICATION Spec
CONSTANTS
  Repos = {a, b}
  Polls = {p}
  Hooks = {h}
  Routes = {"scan-multiple", "trigger"}
  MaxSaves = 3
  MayFail = TRUE
  MayExpire = TRUE
SYMMETRY Alike
INVARIANTS
  CountersHonest
  PollFresh
\* once everything has ended nothing is left to do
CHECK_DEADLOCK FALSE
