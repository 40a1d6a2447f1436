\* Two workflows, two completions, one of the agents, a request at any time, calls that fail.
SPECIFICATION Spec
CONSTANTS
  Workflows = {w1, w2}
  Agents = {"scr"}
  Reports <- MCReports
  Recent = 2
  MaxRows = 1
  MaxListed = 2
  MaxQueue = 2
  MaxCompletions = 2
  MayFail = TRUE
SYMMETRY Interchangeable
INVARIANTS
  CompletedHavePoints
  KpiIsLatest
  RowsHonest
\* once every workflow has ended and the request is answered nothing is left to do
CHECK_DEADLOCK FALSE
