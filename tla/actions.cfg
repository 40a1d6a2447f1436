\* Two clients, two requests, two runs of the output stage, calls that raise.
SPECIFICATION Spec
CONSTANTS
  w1 = w1
  w2 = w2
  c1 = c1
  c2 = c2
  f1 = f1
  f2 = f2
  Workflows = {w1, w2}
  Clients = {c1, c2}
  ClientOf <- TheClients
  Findings = {f1, f2}
  WorkflowOf <- TheWorkflows
  Severe = {f1, f2}
  HighRisk = FALSE
  r1 = r1
  r2 = r2
  Requests = {r1, r2}
  Asks <- TheAsks
  PausedLimit = 1
  PendingLimit = 1
  MaxScans = 2
  MayFail = TRUE
INVARIANTS
  ExecutedWasDone
  AgreedDecisionSettles
  QueueComplete
PROPERTIES
  KeepsContract
  Answered
\* once every request has been answered there may be nothing left to do
CHECK_DEADLOCK FALSE
