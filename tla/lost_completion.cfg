\* Nothing fails and nobody approves.
SPECIFICATION Spec
CONSTANTS
  WorkflowNames = {"code-review-only", "incremental-pr-scan"}
  Flows = {"fixed"}
  Incidents = {FALSE}
  Levels = {"low"}
  Approvers = {}
  FaultyAgents = {}
  LateScrFault = FALSE
  MaxCrashes = 0
PROPERTIES
  WorkflowSettles
\* a workflow ends: nothing is left to do
CHECK_DEADLOCK FALSE
